--------------------------- MODULE ComponentsProofs ---------------------------
(***************************************************************************)
(* What the parts of the system that nobody waits for promise for all      *)
(* values of their constants, one after the other.  Each part has an       *)
(* invariant of its own; the steps of the others leave it alone.           *)
(***************************************************************************)
EXTENDS Components, TLAPS, FiniteSetTheorems

-----------------------------------------------------------------------------
(* Numbers                                                                 *)

(* A set of natural numbers has a least one.                               *)
LEMMA LeastIs ==
    ASSUME NEW S \in SUBSET Nat, S # {}
    PROVE  Min(S) \in S /\ \A x \in S : Min(S) <= x
  <1>1. PICK m \in S : \A x \in S : ~ (<<x, m>> \in OpToRel(<, Nat))
    BY NatLessThanWellFounded, WFMin
  <1>2. \A x \in S : ~ (x < m)
    BY <1>1 DEF OpToRel
  <1>3. \A x \in S : m <= x
    BY <1>2
  <1>. QED
    BY <1>3 DEF Min

(* One with a bound has a greatest one.                                    *)
LEMMA GreatestIs ==
    ASSUME NEW n \in Nat, NEW S \in SUBSET (0..n), S # {}
    PROVE  Max(S) \in S /\ \A x \in S : x <= Max(S)
  <1> DEFINE T == {n - x : x \in S}
  <1>1. T \in SUBSET Nat /\ T # {}
    <2>1. \A x \in 0..n : n - x \in Nat
      OBVIOUS
    <2>. QED
      BY <2>1
  <1>2. PICK t \in T : \A u \in T : t <= u
    BY <1>1, LeastIs
  <1>3. PICK m \in S : t = n - m
    OBVIOUS
  <1>4. \A x \in S : n - m <= n - x
    BY <1>2, <1>3
  <1>5. \A x \in S : m >= x
    BY <1>4
  <1>. QED
    BY <1>5 DEF Max

(* A finite set has a greatest element of a total order on it.             *)
LEMMA GreatestBy ==
    ASSUME NEW S, IsFiniteSet(S), S # {}, NEW R,
           \A x, y \in S : <<x, y>> \in R \/ <<y, x>> \in R,
           \A x, y, z \in S : <<x, y>> \in R /\ <<y, z>> \in R => <<x, z>> \in R
    PROVE  \E m \in S : \A x \in S : <<x, m>> \in R
  <1> DEFINE HasLast(T) == \E m \in T : \A x \in T : <<x, m>> \in R
             Bad == {n \in Nat : \E T \in SUBSET S : T # {} /\ Cardinality(T) = n /\ ~HasLast(T)}
  <1>1. Bad = {}
    <2>1. SUFFICES ASSUME Bad # {} PROVE FALSE
      OBVIOUS
    <2>2. PICK n \in Bad : \A k \in Bad : n <= k
      <3>1. Bad \in SUBSET Nat
        OBVIOUS
      <3> HIDE DEF Bad
      <3>. QED
        BY <2>1, <3>1, LeastIs
    <2>3. PICK T \in SUBSET S : T # {} /\ Cardinality(T) = n /\ ~HasLast(T)
      OBVIOUS
    <2>4. PICK y \in T : TRUE
      BY <2>3
    <2>5. IsFiniteSet(T) /\ n \in Nat
      BY FS_Subset
    <2>6. Cardinality(T \ {y}) = n - 1 /\ T \ {y} \in SUBSET S
      BY <2>3, <2>4, <2>5, FS_RemoveElement
    <2>7. n - 1 \in Nat /\ ~(n <= n - 1)
      BY <2>3, <2>5, FS_EmptySet
    <2>8. T \ {y} = {} \/ HasLast(T \ {y})
      <3>1. n - 1 \notin Bad
        BY <2>2, <2>7
      <3>. QED
        BY <2>6, <2>7, <3>1
    <2>9. CASE T \ {y} = {}
      <3>1. T = {y} /\ <<y, y>> \in R
        BY <2>4, <2>9
      <3>. QED
        BY <2>3, <3>1
    <2>10. CASE HasLast(T \ {y})
      <3>1. PICK m \in T \ {y} : \A x \in T \ {y} : <<x, m>> \in R
        BY <2>10
      <3>2. m \in S /\ y \in S /\ T \subseteq S /\ <<y, y>> \in R
        BY <2>4
      <3>3. CASE <<y, m>> \in R
        <4>1. \A x \in T : <<x, m>> \in R
          BY <3>1, <3>3
        <4>. QED
          BY <2>3, <3>1, <4>1
      <3>4. CASE <<m, y>> \in R
        <4>1. \A x \in T : <<x, y>> \in R
          BY <3>1, <3>2, <3>4
        <4>. QED
          BY <2>3, <2>4, <4>1
      <3>. QED
        BY <3>2, <3>3, <3>4
    <2>. QED
      BY <2>8, <2>9, <2>10
  <1>2. Cardinality(S) \in Nat
    BY FS_CardinalityType
  <1>3. HasLast(S)
    BY <1>1, <1>2
  <1>. QED
    BY <1>3

(* A finite set of numbers has a greatest one.                             *)
LEMMA LastIs ==
    ASSUME NEW S \in SUBSET Int, IsFiniteSet(S), S # {}
    PROVE  Max(S) \in S /\ \A x \in S : x <= Max(S)
  <1> DEFINE R == {p \in S \X S : p[1] <= p[2]}
  <1>1. \A x, y \in S : <<x, y>> \in R <=> x <= y
    OBVIOUS
  <1>2. \A x, y, z \in S : /\ x <= y \/ y <= x
                           /\ x <= y /\ y <= z => x <= z
    <2>1. \A x, y, z \in Int : /\ x <= y \/ y <= x
                               /\ x <= y /\ y <= z => x <= z
      OBVIOUS
    <2>. QED
      BY <2>1
  <1>. HIDE DEF R
  <1>3. /\ \A x, y \in S : <<x, y>> \in R \/ <<y, x>> \in R
        /\ \A x, y, z \in S : <<x, y>> \in R /\ <<y, z>> \in R => <<x, z>> \in R
    BY <1>1, <1>2
  <1>4. \E m \in S : \A x \in S : <<x, m>> \in R
    BY <1>3, GreatestBy
  <1>5. \E m \in S : \A x \in S : x <= m
    BY <1>1, <1>4
  <1>. QED
    BY <1>5 DEF Max

-----------------------------------------------------------------------------
(* Sums                                                                    *)

(* A sum over the subsets of a set, an element of each taken first.        *)
SumsTo(it, f, D) ==
    it = [T \in SUBSET D |->
             IF T = {} THEN 0
             ELSE f[CHOOSE x \in T : TRUE] + it[T \ {CHOOSE x \in T : TRUE}]]

(* A fold over the subsets of a set, as the library's folds are.           *)
FoldsOver(it, D, base, F) ==
    \A T \in SUBSET D :
       it[T] = IF T = {} THEN base
               ELSE F[<<CHOOSE x \in T : TRUE, it[T \ {CHOOSE x \in T : TRUE}]>>]

(* A fold over the subsets of a finite set has a solution: there is one    *)
(* for the subsets of every size.                                          *)
LEMMA FoldExists ==
    ASSUME NEW D, IsFiniteSet(D), NEW V, NEW base \in V, NEW F \in [D \X V -> V]
    PROVE  \E it \in [SUBSET D -> V] : FoldsOver(it, D, base, F)
  <1> DEFINE first(T) == CHOOSE x \in T : TRUE
             Upto(g, n) == \A T \in SUBSET D : Cardinality(T) <= n =>
                 g[T] = IF T = {} THEN base ELSE F[<<first(T), g[T \ {first(T)}]>>]
             Bad == {n \in Nat : ~\E g \in [SUBSET D -> V] : Upto(g, n)}
  <1>1. \A T \in SUBSET D : /\ IsFiniteSet(T) /\ Cardinality(T) \in Nat
                            /\ T # {} => /\ first(T) \in T /\ T \ {first(T)} \in SUBSET D
                                         /\ Cardinality(T \ {first(T)}) = Cardinality(T) - 1
                                         /\ Cardinality(T) > 0
                            /\ Cardinality(T) = 0 => T = {}
    <2>. TAKE T \in SUBSET D
    <2>1. IsFiniteSet(T) /\ Cardinality(T) \in Nat
      BY FS_Subset, FS_CardinalityType
    <2>2. Cardinality(T) = 0 <=> T = {}
      BY <2>1, FS_EmptySet
    <2>3. ASSUME T # {} PROVE /\ first(T) \in T /\ T \ {first(T)} \in SUBSET D
                              /\ Cardinality(T \ {first(T)}) = Cardinality(T) - 1
      BY <2>1, <2>3, FS_RemoveElement
    <2>. QED
      BY <2>1, <2>2, <2>3
  <1>. HIDE DEF first
  <1>2. Bad = {}
    <2>1. SUFFICES ASSUME Bad # {} PROVE FALSE
      OBVIOUS
    <2>2. PICK n \in Bad : \A k \in Bad : n <= k
      BY <2>1, LeastIs
    <2>3. CASE n = 0
      <3> DEFINE g == [T \in SUBSET D |-> base]
      <3>1. Upto(g, 0)
        <4>. SUFFICES ASSUME NEW T \in SUBSET D, Cardinality(T) <= 0
                      PROVE  g[T] = IF T = {} THEN base ELSE F[<<first(T), g[T \ {first(T)}]>>]
          OBVIOUS
        <4>1. Cardinality(T) \in Nat /\ (Cardinality(T) = 0 => T = {})
          BY <1>1
        <4>2. T = {}
          BY <4>1
        <4>. QED
          BY <4>2
      <3>2. g \in [SUBSET D -> V]
        OBVIOUS
      <3>. HIDE DEF g
      <3>. QED
        BY <2>3, <3>1, <3>2
    <2>4. CASE n # 0
      <3>1. n - 1 \in Nat /\ n - 1 \notin Bad
        <4>1. n \in Nat
          OBVIOUS
        <4>2. n - 1 \in Nat /\ ~(n <= n - 1)
          BY <2>4, <4>1
        <4>. QED
          BY <2>2, <4>2
      <3>2. PICK g \in [SUBSET D -> V] : Upto(g, n - 1)
        BY <3>1
      <3> DEFINE h == [T \in SUBSET D |->
                          IF T = {} THEN base ELSE F[<<first(T), g[T \ {first(T)}]>>]]
      <3>3. \A T \in SUBSET D : Cardinality(T) <= n - 1 => h[T] = g[T]
        BY <3>2
      <3>4. h \in [SUBSET D -> V]
        <4>1. \A T \in SUBSET D : T # {} => <<first(T), g[T \ {first(T)}]>> \in D \X V
          BY <1>1
        <4>. QED
          BY <4>1
      <3>5. Upto(h, n)
        <4>. SUFFICES ASSUME NEW T \in SUBSET D, Cardinality(T) <= n
                      PROVE  h[T] = IF T = {} THEN base ELSE F[<<first(T), h[T \ {first(T)}]>>]
          OBVIOUS
        <4>1. CASE T = {}
          BY <4>1
        <4>2. CASE T # {}
          <5>1. T \ {first(T)} \in SUBSET D /\ Cardinality(T \ {first(T)}) <= n - 1
            BY <1>1, <4>2
          <5>2. h[T \ {first(T)}] = g[T \ {first(T)}]
            BY <3>3, <5>1
          <5>3. h[T] = F[<<first(T), g[T \ {first(T)}]>>]
            BY <4>2
          <5>. QED
            BY <4>2, <5>2, <5>3
        <4>. QED
          BY <4>1, <4>2
      <3>. HIDE DEF h
      <3>. QED
        BY <3>4, <3>5
    <2>. QED
      BY <2>3, <2>4
  <1>3. PICK g \in [SUBSET D -> V] : Upto(g, Cardinality(D))
    BY <1>1, <1>2
  <1>4. \A T \in SUBSET D : Cardinality(T) <= Cardinality(D)
    BY FS_Subset
  <1>5. \A T \in SUBSET D : g[T] = IF T = {} THEN base ELSE F[<<first(T), g[T \ {first(T)}]>>]
    BY <1>3, <1>4
  <1>. QED
    BY <1>5 DEF FoldsOver, first

(* The library's sum is one that takes an element after the other.         *)
LEMMA SumIsRecursive ==
    ASSUME NEW D, IsFiniteSet(D), NEW f, \A x \in D : f[x] \in Int
    PROVE  \E it : SumsTo(it, f, D) /\ SumFunctionOnSet(f, D) = it[D]
  <1> DEFINE first(T) == CHOOSE x \in T : TRUE
             F == [p \in D \X Int |-> f[p[1]] + p[2]]
  <1>1. F \in [D \X Int -> Int] /\ \A x \in D, v \in Int : F[<<x, v>>] = f[x] + v
    OBVIOUS
  <1>2. \A T \in SUBSET D : T # {} => first(T) \in D
    OBVIOUS
  <1>. HIDE DEF F, first
  <1>3. PICK it \in [SUBSET D -> Int] :
           \A T \in SUBSET D : it[T] = IF T = {} THEN 0 ELSE F[<<first(T), it[T \ {first(T)}]>>]
    <2>1. 0 \in Int
      OBVIOUS
    <2>2. \E it \in [SUBSET D -> Int] : FoldsOver(it, D, 0, F)
      BY <1>1, <2>1, FoldExists
    <2>. QED
      BY <2>2 DEF FoldsOver, first
  <1>4. \A T \in SUBSET D : it[T] = IF T = {} THEN 0 ELSE f[first(T)] + it[T \ {first(T)}]
    BY <1>1, <1>2, <1>3
  <1>5. it = [T \in SUBSET D |-> IF T = {} THEN 0 ELSE f[first(T)] + it[T \ {first(T)}]]
    BY <1>3, <1>4
  <1>6. SumsTo(it, f, D)
    BY <1>5 DEF SumsTo, first
  <1>7. SumsTo(CHOOSE q : SumsTo(q, f, D), f, D)
    BY <1>6
  <1>8. SumFunctionOnSet(f, D) = (CHOOSE q : SumsTo(q, f, D))[D]
    BY DEF SumFunctionOnSet, FoldFunctionOnSet, MapThenFoldSet, SumsTo
  <1>. QED
    BY <1>7, <1>8

(* Whatever is taken first, the sum is the same; it is a number.           *)
LEMMA SumsAgree ==
    ASSUME NEW D, IsFiniteSet(D), NEW f, \A x \in D : f[x] \in Int,
           NEW it, SumsTo(it, f, D)
    PROVE  \A T \in SUBSET D : /\ it[T] \in Int
                               /\ \A x \in T : it[T] = f[x] + it[T \ {x}]
  <1> DEFINE first(T) == CHOOSE x \in T : TRUE
             Good(T) == it[T] \in Int /\ \A x \in T : it[T] = f[x] + it[T \ {x}]
             Bad == {n \in Nat : \E T \in SUBSET D : Cardinality(T) = n /\ ~Good(T)}
  <1>1. \A T \in SUBSET D : IsFiniteSet(T) /\ Cardinality(T) \in Nat
    BY FS_Subset, FS_CardinalityType
  <1>2. \A T \in SUBSET D : \A x \in T : T \ {x} \in SUBSET D /\ Cardinality(T \ {x}) = Cardinality(T) - 1
    BY <1>1, FS_RemoveElement
  <1>3. it[{}] = 0 /\ \A T \in SUBSET D : T # {} => first(T) \in T /\ it[T] = f[first(T)] + it[T \ {first(T)}]
    BY DEF SumsTo
  <1>. HIDE DEF first
  <1>4. Bad = {}
    <2>1. SUFFICES ASSUME Bad # {} PROVE FALSE
      OBVIOUS
    <2>2. PICK n \in Bad : \A k \in Bad : n <= k
      BY <2>1, LeastIs
    <2>3. PICK T \in SUBSET D : Cardinality(T) = n /\ ~Good(T)
      OBVIOUS
    <2>4. T # {}
      <3>1. Good({})
        BY <1>3
      <3>. QED
        BY <2>3, <3>1
    <2> DEFINE y == first(T)
    <2>5. y \in T /\ it[T] = f[y] + it[T \ {y}] /\ f[y] \in Int
      BY <1>3, <2>4
    <2>. HIDE DEF y
    <2>6. \A x \in T : Good(T \ {x})
      <3>. TAKE x \in T
      <3>1. Cardinality(T \ {x}) = n - 1 /\ T \ {x} \in SUBSET D /\ n \in Nat
            /\ Cardinality(T \ {x}) \in Nat
        BY <1>1, <1>2, <2>3
      <3>2. n - 1 \in Nat /\ ~(n <= n - 1)
        BY <3>1
      <3>3. n - 1 \notin Bad
        BY <2>2, <3>2
      <3>. QED
        BY <3>1, <3>2, <3>3
    <2>7. it[T] \in Int
      <3>1. it[T \ {y}] \in Int
        BY <2>5, <2>6
      <3>. QED
        BY <2>5, <3>1
    <2>8. ASSUME NEW x \in T, x # y PROVE it[T] = f[x] + it[T \ {x}]
      <3> DEFINE rest == (T \ {x}) \ {y}
      <3>1. rest = (T \ {y}) \ {x}
        OBVIOUS
      <3>2. y \in T \ {x} /\ x \in T \ {y}
        BY <2>5, <2>8
      <3>3. it[T \ {x}] = f[y] + it[rest] /\ it[T \ {x}] \in Int
        BY <2>6, <3>2
      <3>4. it[T \ {y}] = f[x] + it[rest] /\ it[T \ {y}] \in Int
        <4>1. Good(T \ {y}) /\ x \in T \ {y}
          BY <2>5, <2>6, <3>2
        <4>2. it[T \ {y}] \in Int /\ it[T \ {y}] = f[x] + it[(T \ {y}) \ {x}]
          BY <4>1
        <4>. QED
          BY <3>1, <4>2
      <3>5. rest \in SUBSET D
        OBVIOUS
      <3>. HIDE DEF rest
      <3>6. it[rest] \in Int
        <4>1. it[(T \ {x}) \ {y}] \in Int
          <5>1. Cardinality((T \ {x}) \ {y}) = n - 2 /\ n - 2 \in Nat /\ n \in Nat
            <6>1. Cardinality(T \ {x}) = n - 1 /\ n \in Nat
              BY <1>1, <1>2, <2>3
            <6>2. T \ {x} \in SUBSET D
              OBVIOUS
            <6>3. Cardinality((T \ {x}) \ {y}) = (n - 1) - 1
              BY <1>2, <3>2, <6>1, <6>2
            <6>4. Cardinality((T \ {x}) \ {y}) \in Nat
              BY <1>1
            <6>. QED
              BY <6>1, <6>3, <6>4
          <5>2. n - 2 \notin Bad
            <6>1. ~(n <= n - 2)
              BY <5>1
            <6>. QED
              BY <2>2, <6>1
          <5>. QED
            BY <5>1, <5>2
        <4>. QED
          BY <4>1 DEF rest
      <3>7. f[x] \in Int /\ f[y] \in Int
        BY <2>5, <2>8
      <3>8. f[y] + (f[x] + it[rest]) = f[x] + (f[y] + it[rest])
        BY <3>6, <3>7
      <3>. QED
        BY <2>5, <3>3, <3>4, <3>8
    <2>. QED
      BY <2>3, <2>5, <2>7, <2>8
  <1>. QED
    BY <1>1, <1>4

(* Two sums of one function agree on what both are over.                   *)
LEMMA SumsAreTheSame ==
    ASSUME NEW D, IsFiniteSet(D), NEW f, NEW g, NEW E, E \subseteq D,
           \A x \in E : f[x] = g[x],
           NEW it, SumsTo(it, f, D), NEW jt, SumsTo(jt, g, E)
    PROVE  it[E] = jt[E]
  <1> DEFINE first(T) == CHOOSE x \in T : TRUE
             Bad == {n \in Nat : \E T \in SUBSET E : Cardinality(T) = n /\ it[T] # jt[T]}
  <1>1. \A T \in SUBSET E : IsFiniteSet(T) /\ Cardinality(T) \in Nat
    BY FS_Subset, FS_CardinalityType
  <1>2. /\ it[{}] = 0 /\ jt[{}] = 0
        /\ \A T \in SUBSET E : T # {} =>
             /\ first(T) \in T
             /\ it[T] = f[first(T)] + it[T \ {first(T)}] /\ jt[T] = g[first(T)] + jt[T \ {first(T)}]
    BY DEF SumsTo
  <1>. HIDE DEF first
  <1>3. Bad = {}
    <2>1. SUFFICES ASSUME Bad # {} PROVE FALSE
      OBVIOUS
    <2>2. PICK n \in Bad : \A k \in Bad : n <= k
      BY <2>1, LeastIs
    <2>3. PICK T \in SUBSET E : Cardinality(T) = n /\ it[T] # jt[T]
      OBVIOUS
    <2>4. T # {}
      BY <1>2, <2>3
    <2>5. first(T) \in T /\ T \ {first(T)} \in SUBSET E
      BY <1>2, <2>4
    <2>6. Cardinality(T \ {first(T)}) = n - 1 /\ n \in Nat /\ n - 1 \in Nat
      <3>1. Cardinality(T \ {first(T)}) = Cardinality(T) - 1
        BY <1>1, <2>5, FS_RemoveElement
      <3>2. Cardinality(T \ {first(T)}) \in Nat
        BY <1>1, <2>5
      <3>. QED
        BY <2>3, <3>1, <3>2
    <2>7. n - 1 \notin Bad
      <3>1. ~(n <= n - 1)
        BY <2>6
      <3>. QED
        BY <2>2, <3>1
    <2>8. it[T \ {first(T)}] = jt[T \ {first(T)}]
      BY <2>5, <2>6, <2>7
    <2>. QED
      BY <1>2, <2>3, <2>4, <2>5, <2>8
  <1>. QED
    BY <1>1, <1>3

(* The sum of a function over a finite set: of nothing it is zero, of more *)
(* it is any of the values and the sum of the others.                      *)
LEMMA SumRule ==
    ASSUME NEW D, IsFiniteSet(D), NEW f, \A x \in D : f[x] \in Int
    PROVE  /\ SumFunctionOnSet(f, D) \in Int
           /\ D = {} => SumFunctionOnSet(f, D) = 0
           /\ \A x \in D : SumFunctionOnSet(f, D) = f[x] + SumFunctionOnSet(f, D \ {x})
  <1>1. PICK it : SumsTo(it, f, D) /\ SumFunctionOnSet(f, D) = it[D]
    BY SumIsRecursive
  <1>2. it[D] \in Int /\ \A x \in D : it[D] = f[x] + it[D \ {x}]
    <2>1. \A T \in SUBSET D : it[T] \in Int /\ \A x \in T : it[T] = f[x] + it[T \ {x}]
      BY <1>1, SumsAgree
    <2>. QED
      BY <2>1
  <1>3. D = {} => it[D] = 0
    BY <1>1 DEF SumsTo
  <1>4. ASSUME NEW x \in D PROVE SumFunctionOnSet(f, D \ {x}) = it[D \ {x}]
    <2>1. IsFiniteSet(D \ {x})
      BY FS_Subset
    <2>2. PICK jt : SumsTo(jt, f, D \ {x}) /\ SumFunctionOnSet(f, D \ {x}) = jt[D \ {x}]
      BY <2>1, SumIsRecursive
    <2>. QED
      BY <1>1, <2>2, SumsAreTheSame
  <1>. QED
    BY <1>1, <1>2, <1>3, <1>4

(* Functions that agree on a set have the same sum over it.                *)
LEMMA SumOfSame ==
    ASSUME NEW D, IsFiniteSet(D), NEW f, NEW g,
           \A x \in D : f[x] \in Int /\ f[x] = g[x]
    PROVE  SumFunctionOnSet(f, D) = SumFunctionOnSet(g, D)
  <1>1. PICK it : SumsTo(it, f, D) /\ SumFunctionOnSet(f, D) = it[D]
    BY SumIsRecursive
  <1>2. PICK jt : SumsTo(jt, g, D) /\ SumFunctionOnSet(g, D) = jt[D]
    BY SumIsRecursive
  <1>3. D \subseteq D
    OBVIOUS
  <1>4. \A E : E \subseteq D /\ (\A x \in E : f[x] = g[x]) /\ SumsTo(jt, g, E) => it[E] = jt[E]
    BY <1>1, SumsAreTheSame
  <1>5. it[D] = jt[D]
    BY <1>2, <1>3, <1>4
  <1>. QED
    BY <1>1, <1>2, <1>5

(* The folds of the detector, the notifier and the tracker are sums.       *)
LEMMA WindowSumIs ==
    ASSUME NEW s
    PROVE  WindowSum(s) = SumFunctionOnSet(s, DOMAIN s)
  BY DEF WindowSum, FoldFunction, SumFunctionOnSet

(* The notifier's sum is one of what the trades earned.                    *)
LEMMA SumOfIs ==
    ASSUME NEW S
    PROVE  SumOf(S) = SumFunctionOnSet(earned, S)
  BY DEF SumOf, MapThenSumSet, SumFunctionOnSet, FoldFunctionOnSet

(* The tracker's total is one of what the trades came to.                  *)
LEMMA TotalIs ==
    ASSUME NEW s
    PROVE  TotalPnl(s) = SumFunctionOnSet(s, DOMAIN s)
  BY DEF TotalPnl, FoldFunction, SumFunctionOnSet

(* The sum of what is added to, as the library sums it.                    *)
LEMMA SumGrows ==
    ASSUME NEW S, NEW t, IsFiniteSet(S), t \notin S, NEW f, f[t] \in Int,
           \A x \in S : f[x] \in Int
    PROVE  /\ SumFunctionOnSet(f, S \cup {t}) = SumFunctionOnSet(f, S) + f[t]
           /\ SumFunctionOnSet(f, S) \in Int
  <1>1. IsFiniteSet(S \cup {t}) /\ \A x \in S \cup {t} : f[x] \in Int
    BY FS_AddElement
  <1>2. SumFunctionOnSet(f, S \cup {t}) = f[t] + SumFunctionOnSet(f, (S \cup {t}) \ {t})
    BY <1>1, SumRule
  <1>3. (S \cup {t}) \ {t} = S
    OBVIOUS
  <1>4. SumFunctionOnSet(f, S) \in Int
    BY SumRule
  <1>5. SumFunctionOnSet(f, S \cup {t}) = f[t] + SumFunctionOnSet(f, S)
    BY <1>2, <1>3
  <1>. QED
    BY <1>4, <1>5

-----------------------------------------------------------------------------
(* Sequences                                                               *)

(* What is in one sequence after another is in either.                     *)
LEMMA ConcatRange ==
    \A s, t \in Seq(Nat) : /\ s \o t \in Seq(Nat) /\ Range(s \o t) = Range(s) \cup Range(t)
                           /\ Len(s \o t) = Len(s) + Len(t)
  <1>. TAKE s, t \in Seq(Nat)
  <1>1. s \o t \in Seq(Nat) /\ Len(s \o t) = Len(s) + Len(t)
    OBVIOUS
  <1>2. Range(s \o t) \subseteq Range(s) \cup Range(t)
    BY DEF Range
  <1>3. Range(s) \subseteq Range(s \o t)
    BY DEF Range
  <1>4. Range(t) \subseteq Range(s \o t)
    <2>1. \A i \in DOMAIN t : Len(s) + i \in DOMAIN (s \o t) /\ (s \o t)[Len(s) + i] = t[i]
      OBVIOUS
    <2>. QED
      BY <2>1 DEF Range
  <1>. QED
    BY <1>1, <1>2, <1>3, <1>4

-----------------------------------------------------------------------------
(* The lag of a stream's groups                                            *)

PressureTypeOK ==
    /\ moment \in Nat
    /\ read \in [Groups -> Nat] /\ acked \in [Groups -> Nat]
    /\ lagCache \in [Groups -> Int] /\ lastAlert \in [Groups -> Int]
    /\ call \in [kind : {"none", "throttle", "delay"}, left : SUBSET Groups, most : Nat]
    /\ heard \in SUBSET Groups
    /\ least \in [Groups -> Nat] /\ greatest \in [Groups -> Nat]
    /\ warned \in [Groups -> SUBSET (Nat \X Levels)]

(* Only what was read is acknowledged.                                     *)
AckedWereRead == \A g \in Groups : acked[g] <= read[g]

(* The time of the last alert stands for the times of all.                 *)
LastAlertIsLast ==
    \A g \in Groups : /\ lastAlert[g] <= moment
                      /\ \A a \in warned[g] : a[1] <= lastAlert[g]

(* While a call asks, the lags are within their bounds, and so is what it  *)
(* has heard.                                                              *)
CallWatched ==
    /\ call.kind = "none" => call.left = {}
    /\ \A g \in Groups : /\ greatest[g] <= read[g]
                         /\ call.kind # "none" => least[g] <= Pending(g) /\ Pending(g) <= greatest[g]
    /\ \A g \in heard : least[g] <= call.most
    /\ call.most > 0 => \E g \in heard : call.most <= greatest[g]

PressureInv ==
    /\ PressureTypeOK /\ AckedWereRead /\ LastAlertIsLast /\ CallWatched
    /\ CacheWithin /\ AlertsApart

(* A lag is what a group has read at most.                                 *)
LEMMA LagFacts ==
    ASSUME PressureInv, NEW g \in Groups, NEW heardOf \in BOOLEAN
    PROVE  /\ LagOf(g, heardOf) \in Nat /\ LagOf(g, heardOf) <= read[g]
           /\ read[g] \in Nat /\ Pending(g) \in Nat /\ Pending(g) <= read[g]
           /\ LagOf(g, heardOf) > 0 => heardOf
           /\ heardOf => LagOf(g, heardOf) = Pending(g)
  <1>1. read[g] \in Nat /\ acked[g] \in Nat /\ acked[g] <= read[g]
    BY DEF PressureInv, PressureTypeOK, AckedWereRead
  <1>2. read[g] - acked[g] \in Nat /\ read[g] - acked[g] <= read[g] /\ 0 <= read[g]
    BY <1>1
  <1>3. CASE heardOf
    BY <1>1, <1>2, <1>3 DEF LagOf, Pending
  <1>4. CASE ~heardOf
    BY <1>1, <1>2, <1>4 DEF LagOf, Pending
  <1>. QED
    BY <1>3, <1>4

(* What a query leaves in the cache.                                       *)
LEMMA CachedIsWithin ==
    ASSUME PressureInv, NEW g \in Groups, NEW heardOf \in BOOLEAN,
           lagCache' = Cached(g, LagOf(g, heardOf)), read' = read
    PROVE  lagCache' \in [Groups -> Int] /\ CacheWithin'
  <1> DEFINE lag == LagOf(g, heardOf)
  <1>1. lag \in Nat /\ lag <= read[g] /\ read[g] \in Nat
    BY LagFacts
  <1>2. /\ lagCache \in [Groups -> Int]
        /\ \A h \in Groups : lagCache[h] # Uncached => lagCache[h] \in 1..read[h]
    BY DEF PressureInv, PressureTypeOK, CacheWithin
  <1>3. lagCache' = [lagCache EXCEPT ![g] = IF lag > 0 THEN lag ELSE @]
    BY DEF Cached
  <1>. HIDE DEF lag
  <1>4. lagCache' \in [Groups -> Int]
    BY <1>1, <1>2, <1>3
  <1>5. \A h \in Groups : lagCache'[h] # Uncached => lagCache'[h] \in 1..read[h]
    BY <1>1, <1>2, <1>3
  <1>. QED
    BY <1>4, <1>5 DEF CacheWithin

(* The delay is the longest exactly from the emergency lag on, and there   *)
(* is one from the warning on.                                             *)
LEMMA DelayFacts ==
    ASSUME NEW lag \in Nat
    PROVE  /\ ThrottleDelay(lag) \in Nat
           /\ ThrottleDelay(lag) = 100 <=> lag >= EmergencyLag
           /\ ThrottleDelay(lag) > 0 <=> lag >= WarningLag
  <1>0. /\ WarningLag \in Nat /\ EmergencyLag \in Nat /\ WarningLag > 0
        /\ WarningLag < EmergencyLag
    BY BackpressureAssumption
  <1>3. ThrottleDelay(lag) =
          IF lag < WarningLag THEN 0
          ELSE IF lag >= EmergencyLag THEN 100
          ELSE 1 + ((99 * (lag - WarningLag)) \div (EmergencyLag - WarningLag))
    BY DEF ThrottleDelay
  <1>8. CASE lag < WarningLag
    BY <1>0, <1>3, <1>8
  <1>9. CASE lag >= EmergencyLag
    BY <1>0, <1>3, <1>9
  <1>10. CASE lag >= WarningLag /\ lag < EmergencyLag
    <2>1. /\ EmergencyLag - WarningLag \in Nat \ {0}
          /\ 99 * (lag - WarningLag) \in Nat
          /\ 99 * (lag - WarningLag) < 99 * (EmergencyLag - WarningLag)
      BY <1>0, <1>10
    <2>2. \A x \in Nat, m \in Nat \ {0} : x < 99 * m => x \div m \in Nat /\ x \div m < 99
      OBVIOUS
    <2> DEFINE q == (99 * (lag - WarningLag)) \div (EmergencyLag - WarningLag)
    <2>3. q \in Nat /\ q < 99
      BY <2>1, <2>2
    <2>4. ThrottleDelay(lag) = 1 + q
      BY <1>0, <1>3, <1>10
    <2>. HIDE DEF q
    <2>. QED
      BY <1>0, <1>10, <2>3, <2>4
  <1>. QED
    BY <1>0, <1>8, <1>9, <1>10

(* What a call tells is of lags within the bounds.                         *)
LEMMA AdviceIsOfTheCall == PressureInv => AdviceOfTheCall
  <1> SUFFICES ASSUME PressureInv PROVE AdviceOfTheCall
    OBVIOUS
  <1>1. /\ WarningLag \in Nat \ {0} /\ EmergencyLag \in Nat \ {0} /\ call.most \in Nat
        /\ \A g \in heard : least[g] \in Nat /\ greatest[g] \in Nat
    BY BackpressureAssumption DEF PressureInv, PressureTypeOK
  <1>2. /\ \A g \in heard : least[g] <= call.most
        /\ call.most > 0 => \E g \in heard : call.most <= greatest[g]
        /\ \A g \in Groups : greatest[g] <= read[g]
    BY DEF PressureInv, CallWatched
  <1>3. ASSUME NEW lag \in Nat \ {0}
        PROVE  /\ (\E g \in heard : least[g] >= lag) => call.most >= lag
               /\ call.most >= lag => \E g \in heard : greatest[g] >= lag
    BY <1>1, <1>2
  <1>4. /\ Delay = 100 <=> call.most >= EmergencyLag
        /\ Delay > 0 <=> call.most >= WarningLag
    BY <1>1, DelayFacts DEF Delay
  <1>. QED
    BY <1>1, <1>2, <1>3, <1>4 DEF AdviceOfTheCall, Throttle

(* A group reads or acknowledges: the bounds of a call move with its lag.  *)
LEMMA GroupKeeps ==
    ASSUME PressureInv, NEW g \in Groups, ReadEntry(g) \/ AckEntry(g)
    PROVE  PressureInv'
  <1>1. /\ UNCHANGED <<moment, lagCache, lastAlert, warned, call, heard>> /\ Watch(g)
        /\ \/ read' = [read EXCEPT ![g] = @ + 1] /\ acked' = acked
           \/ /\ acked[g] < read[g] /\ acked' = [acked EXCEPT ![g] = @ + 1] /\ read' = read
    BY DEF ReadEntry, AckEntry
  <1>2. /\ read \in [Groups -> Nat] /\ acked \in [Groups -> Nat]
        /\ least \in [Groups -> Nat] /\ greatest \in [Groups -> Nat]
        /\ \A h \in Groups : acked[h] <= read[h] /\ acked[h] \in Nat /\ read[h] \in Nat
    BY DEF PressureInv, PressureTypeOK, AckedWereRead
  <1>3. /\ read' \in [Groups -> Nat] /\ acked' \in [Groups -> Nat]
        /\ \A h \in Groups : /\ read'[h] \in Nat /\ acked'[h] \in Nat /\ acked'[h] <= read'[h]
                             /\ read[h] <= read'[h]
                             /\ h # g => read'[h] = read[h] /\ acked'[h] = acked[h]
    BY <1>1, <1>2
  <1> DEFINE now == read'[g] - acked'[g]
  <1>4. now \in Nat /\ now <= read'[g] /\ Pending(g)' = now
    BY <1>3 DEF Pending
  <1>. HIDE DEF now
  <1>5. /\ least' \in [Groups -> Nat] /\ greatest' \in [Groups -> Nat]
        /\ \A h \in Groups : /\ least'[h] <= least[h] /\ greatest[h] <= greatest'[h]
                             /\ greatest'[h] = greatest[h] \/ (h = g /\ greatest'[h] = now)
                             /\ h # g => least'[h] = least[h] /\ greatest'[h] = greatest[h]
        /\ call.kind # "none" => least'[g] <= now /\ now <= greatest'[g]
    <2>1. CASE call.kind = "none"
      BY <1>1, <1>2, <2>1 DEF Watch
    <2>2. CASE call.kind # "none"
      <3>1. /\ least' = [least EXCEPT ![g] = IF now < @ THEN now ELSE @]
            /\ greatest' = [greatest EXCEPT ![g] = IF now > @ THEN now ELSE @]
        BY <1>1, <1>4, <2>2 DEF Watch
      <3>. QED
        BY <1>2, <1>4, <3>1
    <2>. QED
      BY <2>1, <2>2
  <1>6. PressureTypeOK' /\ AckedWereRead' /\ LastAlertIsLast'
    BY <1>1, <1>3, <1>5 DEF PressureInv, PressureTypeOK, AckedWereRead, LastAlertIsLast
  <1>7. CallWatched'
    <2>1. /\ call.kind = "none" => call.left = {}
          /\ call.most \in Nat /\ heard \subseteq Groups
          /\ \A h \in Groups : greatest[h] <= read[h] /\ least[h] \in Nat /\ greatest[h] \in Nat
          /\ \A h \in heard : least[h] <= call.most
          /\ call.most > 0 => \E h \in heard : call.most <= greatest[h]
          /\ \A h \in Groups : call.kind # "none" => least[h] <= Pending(h) /\ Pending(h) <= greatest[h]
      BY DEF PressureInv, CallWatched, PressureTypeOK
    <2>2. \A h \in Groups : /\ greatest'[h] <= read'[h] /\ least'[h] \in Nat /\ greatest'[h] \in Nat
      BY <1>2, <1>3, <1>4, <1>5, <2>1
    <2>3. \A h \in heard : least'[h] <= call.most
      BY <1>5, <2>1, <2>2
    <2>4. call.most > 0 => \E h \in heard : call.most <= greatest'[h]
      BY <1>5, <2>1, <2>2
    <2>5. ASSUME NEW h \in Groups, call.kind # "none"
          PROVE  least'[h] <= Pending(h)' /\ Pending(h)' <= greatest'[h]
      <3>1. CASE h = g
        BY <1>4, <1>5, <2>5, <3>1
      <3>2. CASE h # g
        <4>1. Pending(h)' = Pending(h)
          BY <1>3, <3>2 DEF Pending
        <4>. QED
          BY <1>5, <2>1, <2>5, <3>2, <4>1
      <3>. QED
        BY <3>1, <3>2
    <2>. QED
      BY <1>1, <2>1, <2>2, <2>3, <2>4, <2>5 DEF CallWatched
  <1>8. CacheWithin'
    <2>1. \A h \in Groups : lagCache[h] # Uncached => lagCache[h] \in 1..read[h]
      BY DEF PressureInv, CacheWithin
    <2>. QED
      BY <1>1, <1>2, <1>3, <2>1 DEF CacheWithin
  <1>9. AlertsApart'
    <2>1. EmergencyLag \in Nat
      BY BackpressureAssumption
    <2>. QED
      BY <1>1, <1>2, <1>3, <2>1 DEF PressureInv, AlertsApart
  <1>. QED
    BY <1>6, <1>7, <1>8, <1>9 DEF PressureInv

(* A call begins, hears of a group, or answers.                            *)
LEMMA CallKeeps ==
    ASSUME PressureInv,
           \/ \E kind \in {"throttle", "delay"}, groups \in {Groups, {}} : AskAdvice(kind, groups)
           \/ Advise
    PROVE  PressureInv'
  <1>1. /\ UNCHANGED <<moment, read, acked, lagCache, lastAlert, warned>> /\ heard' = {}
        /\ call' \in [kind : {"none", "throttle", "delay"}, left : SUBSET Groups, most : Nat]
        /\ call'.most = 0 /\ (call'.kind = "none" => call'.left = {})
        /\ \/ least' = [g \in Groups |-> Pending(g)] /\ greatest' = [g \in Groups |-> Pending(g)]
           \/ call'.kind = "none" /\ least' = NoLag /\ greatest' = NoLag
    <2>1. ASSUME NEW kind \in {"throttle", "delay"}, NEW groups \in {Groups, {}}, AskAdvice(kind, groups)
          PROVE  /\ UNCHANGED <<moment, read, acked, lagCache, lastAlert, warned>> /\ heard' = {}
                 /\ call' \in [kind : {"none", "throttle", "delay"}, left : SUBSET Groups, most : Nat]
                 /\ call'.most = 0 /\ call'.kind # "none"
                 /\ least' = [g \in Groups |-> Pending(g)] /\ greatest' = [g \in Groups |-> Pending(g)]
      <3>1. call' = [kind |-> kind, left |-> groups, most |-> 0]
        BY <2>1 DEF AskAdvice
      <3>2. groups \in SUBSET Groups
        OBVIOUS
      <3>. QED
        BY <2>1, <3>1, <3>2 DEF AskAdvice
    <2>2. CASE Advise
      BY <2>2 DEF Advise, NoCall
    <2>. QED
      BY <2>1, <2>2
  <1>2. \A g \in Groups : Pending(g) \in Nat /\ Pending(g) <= read[g] /\ read[g] \in Nat
    BY LagFacts
  <1>3. least' \in [Groups -> Nat] /\ greatest' \in [Groups -> Nat]
    BY <1>1, <1>2 DEF NoLag
  <1>4. PressureTypeOK' /\ AckedWereRead' /\ LastAlertIsLast'
    BY <1>1, <1>3 DEF PressureInv, PressureTypeOK, AckedWereRead, LastAlertIsLast
  <1>5. CallWatched'
    <2>1. \A g \in Groups : /\ greatest'[g] <= read[g]
                            /\ call'.kind # "none" => least'[g] <= Pending(g) /\ Pending(g) <= greatest'[g]
      BY <1>1, <1>2 DEF NoLag
    <2>2. \A g \in Groups : Pending(g)' = Pending(g) /\ read'[g] = read[g]
      BY <1>1 DEF Pending
    <2>. QED
      BY <1>1, <2>1, <2>2 DEF CallWatched
  <1>6. CacheWithin' /\ AlertsApart'
    BY <1>1 DEF PressureInv, CacheWithin, AlertsApart
  <1>. QED
    BY <1>4, <1>5, <1>6 DEF PressureInv

(* A query tells of a lag that is within the bounds of the call.           *)
LEMMA AskGroupKeeps ==
    ASSUME PressureInv, NEW g \in Groups, NEW heardOf \in BOOLEAN, AskGroup(g, heardOf)
    PROVE  PressureInv'
  <1> DEFINE lag == LagOf(g, heardOf)
             more == IF lag > call.most THEN lag ELSE call.most
             rest == IF call.kind = "throttle" /\ lag >= EmergencyLag THEN {} ELSE call.left \ {g}
  <1>1. /\ g \in call.left /\ call' = [call EXCEPT !.left = rest, !.most = more]
        /\ heard' = IF heardOf THEN heard \cup {g} ELSE heard
        /\ lagCache' = Cached(g, lag)
        /\ UNCHANGED <<moment, read, acked, lastAlert, warned, least, greatest>>
    BY DEF AskGroup
  <1>2. /\ lag \in Nat /\ lag <= read[g] /\ Pending(g) \in Nat
        /\ lag > 0 => heardOf
        /\ heardOf => lag = Pending(g)
    BY LagFacts
  <1>3. lagCache' \in [Groups -> Int] /\ CacheWithin'
    BY <1>1, CachedIsWithin
  <1>. HIDE DEF lag
  <1>4. /\ call \in [kind : {"none", "throttle", "delay"}, left : SUBSET Groups, most : Nat]
        /\ call.kind # "none" /\ heard \subseteq Groups /\ call.most \in Nat
        /\ least[g] \in Nat /\ greatest[g] \in Nat
        /\ least[g] <= Pending(g) /\ Pending(g) <= greatest[g]
        /\ \A h \in heard : least[h] <= call.most /\ least[h] \in Nat
        /\ call.most > 0 => \E h \in heard : call.most <= greatest[h]
        /\ \A h \in Groups : /\ greatest[h] <= read[h]
                             /\ least[h] <= Pending(h) /\ Pending(h) <= greatest[h]
    BY <1>1 DEF PressureInv, PressureTypeOK, CallWatched
  <1>5. more \in Nat /\ call.most <= more /\ lag <= more /\ rest \in SUBSET Groups
    BY <1>2, <1>4
  <1>6. (more = lag /\ more > call.most) \/ more = call.most
    OBVIOUS
  <1>. HIDE DEF more, rest
  <1>7. /\ call' \in [kind : {"none", "throttle", "delay"}, left : SUBSET Groups, most : Nat]
        /\ call'.kind = call.kind /\ call'.most = more /\ call'.left = rest
    BY <1>1, <1>4, <1>5
  <1>8. heard' \in SUBSET Groups /\ heard \subseteq heard' /\ heard' \subseteq heard \cup {g}
        /\ (heardOf => g \in heard') /\ (~heardOf => heard' = heard)
    BY <1>1, <1>4
  <1>9. PressureTypeOK' /\ AckedWereRead' /\ LastAlertIsLast' /\ AlertsApart'
    BY <1>1, <1>3, <1>7, <1>8
    DEF PressureInv, PressureTypeOK, AckedWereRead, LastAlertIsLast, AlertsApart
  <1>10. CallWatched'
    <2>1. \A h \in heard' : least[h] <= more
      <3>1. \A h \in heard : least[h] <= more
        BY <1>4, <1>5
      <3>2. heardOf => least[g] <= more
        BY <1>2, <1>4, <1>5
      <3>. QED
        BY <1>8, <3>1, <3>2
    <2>2. more > 0 => \E h \in heard' : more <= greatest[h]
      <3>1. CASE more = call.most
        BY <1>4, <1>8, <3>1
      <3>2. CASE more = lag /\ more > call.most
        <4>1. more > 0 => heardOf
          BY <1>2, <3>2
        <4>2. heardOf => more <= greatest[g]
          BY <1>2, <1>4, <3>2
        <4>. QED
          BY <1>8, <4>1, <4>2
      <3>. QED
        BY <1>6, <3>1, <3>2
    <2>3. \A h \in Groups : Pending(h)' = Pending(h)
      BY <1>1 DEF Pending
    <2>. QED
      BY <1>1, <1>4, <1>7, <2>1, <2>2, <2>3 DEF CallWatched
  <1>. QED
    BY <1>3, <1>9, <1>10 DEF PressureInv

(* The monitor alerts: a cooldown after the last alert of the group.       *)
LEMMA CheckLagKeeps ==
    ASSUME PressureInv, NEW g \in Groups, NEW heardOf \in BOOLEAN, CheckLag(g, heardOf)
    PROVE  PressureInv'
  <1> DEFINE lag == LagOf(g, heardOf)
             due == /\ LevelOf(lag) \in {"critical", "emergency"}
                    /\ lastAlert[g] = Never \/ moment - lastAlert[g] >= AlertCooldown
  <1>0. /\ moment \in Nat /\ AlertCooldown \in Nat \ {0}
        /\ EmergencyLag \in Nat /\ CriticalLag \in Nat /\ WarningLag \in Nat
    BY BackpressureAssumption DEF PressureInv, PressureTypeOK
  <1>1. /\ lagCache' = Cached(g, lag)
        /\ lastAlert' = [lastAlert EXCEPT ![g] = IF due THEN moment ELSE @]
        /\ warned' = [warned EXCEPT ![g] = @ \cup (IF due THEN {<<moment, LevelOf(lag)>>} ELSE {})]
        /\ UNCHANGED <<moment, read, acked, callVars>>
    BY DEF CheckLag
  <1>2. /\ LevelOf(lag) \in Levels
        /\ LevelOf(lag) = "emergency" => read[g] >= EmergencyLag
    <2>1. lag \in Nat /\ lag <= read[g] /\ read[g] \in Nat
      BY LagFacts
    <2>. HIDE DEF lag
    <2>. QED
      BY <1>0, <2>1 DEF LevelOf, Levels
  <1>3. /\ lastAlert \in [Groups -> Int] /\ warned \in [Groups -> SUBSET (Nat \X Levels)]
        /\ \A h \in Groups : /\ lastAlert[h] <= moment
                             /\ \A a \in warned[h] : a[1] <= lastAlert[h] /\ a[1] \in Nat
    BY DEF PressureInv, PressureTypeOK, LastAlertIsLast
  <1>4. lagCache' \in [Groups -> Int] /\ CacheWithin'
    BY <1>1, CachedIsWithin
  <1>. HIDE DEF lag
  <1>8. due => lastAlert[g] = Never \/ moment - lastAlert[g] >= AlertCooldown
    OBVIOUS
  <1>. HIDE DEF due
  <1>9. /\ \A h \in Groups \ {g} : lastAlert'[h] = lastAlert[h] /\ warned'[h] = warned[h]
        /\ due => lastAlert'[g] = moment /\ warned'[g] = warned[g] \cup {<<moment, LevelOf(lag)>>}
        /\ ~due => lastAlert'[g] = lastAlert[g] /\ warned'[g] = warned[g]
    BY <1>1, <1>3
  <1>5. PressureTypeOK'
    <2>1. lastAlert' \in [Groups -> Int]
      BY <1>0, <1>1, <1>3
    <2>2. warned' \in [Groups -> SUBSET (Nat \X Levels)]
      BY <1>0, <1>1, <1>2, <1>3
    <2>. QED
      BY <1>1, <1>4, <2>1, <2>2 DEF PressureInv, PressureTypeOK, callVars
  <1>6. LastAlertIsLast'
    <2> SUFFICES ASSUME NEW h \in Groups
                 PROVE  /\ lastAlert'[h] <= moment
                        /\ \A a \in warned'[h] : a[1] <= lastAlert'[h]
      BY <1>1 DEF LastAlertIsLast
    <2>1. CASE h = g /\ due
      <3>1. \A a \in warned[g] : a[1] <= moment
        BY <1>0, <1>3
      <3>. QED
        BY <1>0, <1>9, <2>1, <3>1
    <2>2. CASE h # g \/ ~due
      BY <1>3, <1>9, <2>2
    <2>. QED
      BY <2>1, <2>2
  <1>7. AlertsApart'
    <2>0. \A h \in Groups : \A c, d \in warned[h] :
             /\ c # d => c[1] - d[1] >= AlertCooldown \/ d[1] - c[1] >= AlertCooldown
             /\ c[2] = "emergency" => read[h] >= EmergencyLag
      BY DEF PressureInv, AlertsApart
    <2> SUFFICES ASSUME NEW h \in Groups, NEW a \in warned'[h], NEW b \in warned'[h]
                 PROVE  /\ a # b => a[1] - b[1] >= AlertCooldown \/ b[1] - a[1] >= AlertCooldown
                        /\ a[2] = "emergency" => read[h] >= EmergencyLag
      BY <1>1 DEF AlertsApart
    <2>1. CASE h # g \/ ~due
      BY <1>9, <2>0, <2>1
    <2>2. CASE h = g /\ due
      <3>1. warned'[g] = warned[g] \cup {<<moment, LevelOf(lag)>>}
        BY <1>9, <2>2
      <3>2. \A c \in warned[g] : moment - c[1] >= AlertCooldown
        BY <1>0, <1>3, <1>8, <2>2 DEF Never
      <3>. QED
        BY <1>2, <2>0, <2>2, <3>1, <3>2
    <2>. QED
      BY <2>1, <2>2
  <1>10. AckedWereRead' /\ CallWatched'
    BY <1>1 DEF PressureInv, AckedWereRead, CallWatched, callVars, Pending
  <1>. QED
    BY <1>4, <1>5, <1>6, <1>7, <1>10 DEF PressureInv

(* Every step of groups and monitor keeps the invariant.                   *)
LEMMA PressureKeeps == PressureInv /\ [PressureNext]_backpressureVars => PressureInv'
  <1> SUFFICES ASSUME PressureInv, [PressureNext]_backpressureVars PROVE PressureInv'
    OBVIOUS
  <1>1. CASE MomentPasses \/ UNCHANGED backpressureVars
    <2>1. /\ UNCHANGED <<read, acked, lagCache, lastAlert, warned, callVars>>
          /\ moment' \in Nat /\ moment <= moment'
      BY <1>1 DEF MomentPasses, backpressureVars, PressureInv, PressureTypeOK
    <2>2. \A g \in Groups : lastAlert[g] \in Int /\ moment \in Nat
      BY DEF PressureInv, PressureTypeOK
    <2>3. PressureTypeOK' /\ LastAlertIsLast'
      BY <2>1, <2>2 DEF PressureInv, PressureTypeOK, LastAlertIsLast, callVars
    <2>4. AckedWereRead' /\ CallWatched' /\ CacheWithin' /\ AlertsApart'
      BY <2>1 DEF PressureInv, AckedWereRead, CallWatched, CacheWithin, AlertsApart, callVars, Pending
    <2>. QED
      BY <2>3, <2>4 DEF PressureInv
  <1>. QED
    BY <1>1, GroupKeeps, CallKeeps, AskGroupKeeps, CheckLagKeeps DEF PressureNext

(* The monitor begins without a cache, and without a call.                 *)
LEMMA InitPressureInv == PressureInit => PressureInv
  <1> SUFFICES ASSUME PressureInit PROVE PressureInv
    OBVIOUS
  <1>1. PressureTypeOK
    BY DEF PressureInit, PressureTypeOK, Uncached, Never, Levels, NoCall, NoLag
  <1>2. AckedWereRead /\ LastAlertIsLast /\ CallWatched
    BY DEF PressureInit, AckedWereRead, LastAlertIsLast, Never, CallWatched, NoCall, NoLag
  <1>3. CacheWithin /\ AlertsApart
    BY DEF PressureInit, CacheWithin, AlertsApart
  <1>. QED
    BY <1>1, <1>2, <1>3 DEF PressureInv

-----------------------------------------------------------------------------
(* The snapshots of a service's state                                      *)

SnapshotTypeOK ==
    /\ point \in Nat /\ current \in Nat /\ changesMade \in Nat
    /\ snapshot \in {NoSnapshot} \cup [state : Nat, at : Nat]
    /\ lastSave \in Int /\ saver \in {"off", "on", "saving"}
    /\ grabbed \in Nat /\ storedThen \in Int

(* What the thread has read is no newer than the state, and no older than  *)
(* what was stored at the time.                                            *)
GrabbedBetween ==
    /\ current <= changesMade /\ storedThen <= current
    /\ saver = "saving" => storedThen <= grabbed /\ grabbed <= current

SnapshotInv == SnapshotTypeOK /\ GrabbedBetween /\ SnapshotSound

(* A save of what is known stores it, or leaves what was stored.           *)
LEMMA SetKeyKeeps ==
    ASSUME SnapshotInv, NEW st \in Nat, storedThen <= st, st <= current, SetKey(st),
           UNCHANGED <<point, current, grabbed, storedThen, changesMade>>,
           saver' \in {"off", "on", "saving"}, saver' = "saving" => saver = "saving"
    PROVE  SnapshotInv'
  <1>0. /\ point \in Nat /\ current \in Nat /\ changesMade \in Nat /\ Ttl \in Nat /\ Ttl > 0
        /\ current <= changesMade
    BY SnapshotAssumption DEF SnapshotInv, SnapshotTypeOK, GrabbedBetween
  <1>1. GrabbedBetween'
    BY DEF SnapshotInv, GrabbedBetween
  <1>2. CASE snapshot' = [state |-> st, at |-> point] /\ (lastSave' = point \/ lastSave' = lastSave)
    <2>1. snapshot' \in [state : Nat, at : Nat] /\ snapshot'.state = st /\ snapshot'.at = point
      BY <1>0, <1>2
    <2>2. SnapshotTypeOK'
      BY <1>0, <1>2, <2>1 DEF SnapshotInv, SnapshotTypeOK
    <2>3. SnapshotSound'
      BY <1>0, <2>1 DEF SnapshotSound, SnapshotOfThePast, OlderOnlyByRace, SavedIsKnown
    <2>. QED
      BY <1>1, <2>2, <2>3 DEF SnapshotInv
  <1>3. CASE UNCHANGED <<snapshot, lastSave>>
    BY <1>1, <1>3 DEF SnapshotInv, SnapshotTypeOK, SnapshotSound, SnapshotOfThePast,
                      OlderOnlyByRace, SavedIsKnown
  <1>. QED
    BY <1>2, <1>3 DEF SetKey

(* No step of the service, of its thread or of time breaks the invariant.  *)
LEMMA SnapshotKeeps == SnapshotInv /\ [SnapshotNext]_snapshotVars => SnapshotInv'
  <1> SUFFICES ASSUME SnapshotInv, [SnapshotNext]_snapshotVars PROVE SnapshotInv'
    OBVIOUS
  <1>0. /\ point \in Nat /\ current \in Nat /\ changesMade \in Nat /\ Ttl \in Nat /\ Ttl > 0
        /\ current <= changesMade /\ storedThen <= current /\ storedThen \in Int
        /\ saver = "saving" => storedThen <= grabbed /\ grabbed <= current
        /\ grabbed \in Nat /\ lastSave \in Int
        /\ saver \in {"off", "on", "saving"}
    BY SnapshotAssumption DEF SnapshotInv, SnapshotTypeOK, GrabbedBetween
  <1>00. \/ snapshot = NoSnapshot /\ snapshot.state = -1
         \/ /\ snapshot # NoSnapshot /\ snapshot \in [state : Nat, at : Nat]
            /\ snapshot.state \in Nat /\ snapshot.at \in Nat
            /\ snapshot.state <= changesMade /\ snapshot.at <= point
            /\ point - snapshot.at < Ttl /\ snapshot.state >= storedThen
            /\ lastSave # NeverSaved => snapshot.state <= current
    BY DEF SnapshotInv, SnapshotTypeOK, SnapshotSound, SnapshotOfThePast, OlderOnlyByRace,
           SavedIsKnown, NoSnapshot
  <1>1. CASE ChangeState
    <2>1. /\ changesMade' = changesMade + 1 /\ current' = changesMade + 1
          /\ UNCHANGED <<point, snapshot, lastSave, saver, grabbed, storedThen>>
          /\ changesMade + 1 \in Nat
      BY <1>0, <1>1 DEF ChangeState
    <2>2. SnapshotTypeOK' /\ GrabbedBetween'
      BY <1>0, <2>1 DEF SnapshotInv, SnapshotTypeOK, GrabbedBetween
    <2>3. SnapshotSound'
      BY <1>0, <1>00, <2>1 DEF SnapshotSound, SnapshotOfThePast, OlderOnlyByRace, SavedIsKnown
    <2>. QED
      BY <2>2, <2>3 DEF SnapshotInv
  <1>2. CASE \E force \in BOOLEAN : SaveSnapshot(force)
    <2>1. SetKey(current) /\ UNCHANGED <<point, current, saver, grabbed, storedThen, changesMade>>
      BY <1>2 DEF SaveSnapshot
    <2>. QED
      BY <1>0, <2>1, SetKeyKeeps
  <1>3. CASE SaveGrabbed
    <2>1. /\ SetKey(grabbed) /\ UNCHANGED <<point, current, grabbed, storedThen, changesMade>>
          /\ saver = "saving" /\ saver' \in {"on", "off"}
      BY <1>3 DEF SaveGrabbed
    <2>. QED
      BY <1>0, <2>1, SetKeyKeeps
  <1>4. CASE StartSaver \/ StopSaver
    <2>1. /\ saver' \in {"on", "off"}
          /\ UNCHANGED <<point, current, snapshot, lastSave, grabbed, storedThen, changesMade>>
      BY <1>4 DEF StartSaver, StopSaver
    <2>. QED
      BY <2>1 DEF SnapshotInv, SnapshotTypeOK, GrabbedBetween, SnapshotSound, SnapshotOfThePast,
                  OlderOnlyByRace, SavedIsKnown
  <1>5. CASE GrabState
    <2>1. /\ saver' = "saving" /\ grabbed' = current
          /\ storedThen' = IF snapshot.state < current THEN snapshot.state ELSE current
          /\ UNCHANGED <<point, current, snapshot, lastSave, changesMade>>
      BY <1>5 DEF GrabState
    <2>2. storedThen' \in Int /\ storedThen' <= current /\ storedThen' <= snapshot.state
      BY <1>0, <1>00, <2>1
    <2>3. SnapshotTypeOK' /\ GrabbedBetween'
      BY <1>0, <2>1, <2>2 DEF SnapshotInv, SnapshotTypeOK, GrabbedBetween
    <2>4. SnapshotSound'
      BY <1>0, <1>00, <2>1, <2>2
      DEF SnapshotSound, SnapshotOfThePast, OlderOnlyByRace, SavedIsKnown
    <2>. QED
      BY <2>3, <2>4 DEF SnapshotInv
  <1>6. CASE \E limited \in BOOLEAN : RestartService(limited)
    <2>1. /\ current' = 0 \/ (snapshot # NoSnapshot /\ current' = snapshot.state)
          /\ lastSave' = NeverSaved /\ saver' = "off" /\ grabbed' = 0 /\ storedThen' = 0
          /\ UNCHANGED <<point, snapshot, changesMade>>
      BY <1>6 DEF RestartService
    <2>2. current' \in Nat /\ current' <= changesMade
      BY <1>0, <1>00, <2>1
    <2>3. SnapshotTypeOK' /\ GrabbedBetween'
      BY <1>0, <2>1, <2>2 DEF SnapshotInv, SnapshotTypeOK, GrabbedBetween, NeverSaved
    <2>4. SnapshotSound'
      BY <1>0, <1>00, <2>1
      DEF SnapshotSound, SnapshotOfThePast, OlderOnlyByRace, SavedIsKnown
    <2>. QED
      BY <2>3, <2>4 DEF SnapshotInv
  <1>7. CASE ClearSnapshot
    <2>1. /\ snapshot' = NoSnapshot /\ storedThen' = 0
          /\ UNCHANGED <<point, current, lastSave, saver, grabbed, changesMade>>
      BY <1>7 DEF ClearSnapshot
    <2>. QED
      BY <1>0, <2>1 DEF SnapshotInv, SnapshotTypeOK, GrabbedBetween, SnapshotSound,
                        SnapshotOfThePast, OlderOnlyByRace, SavedIsKnown
  <1>8. CASE PointPasses
    <2>1. /\ point' = point + 1
          /\ \/ snapshot' = NoSnapshot
             \/ snapshot' = snapshot /\ (snapshot = NoSnapshot \/ ~(point' - snapshot.at >= Ttl))
          /\ UNCHANGED <<current, lastSave, saver, grabbed, storedThen, changesMade>>
      <3>1. /\ point' = point + 1
            /\ snapshot' = IF snapshot # NoSnapshot /\ point' - snapshot.at >= Ttl
                           THEN NoSnapshot ELSE snapshot
            /\ UNCHANGED <<current, lastSave, saver, grabbed, storedThen, changesMade>>
        BY <1>8 DEF PointPasses
      <3>2. CASE snapshot # NoSnapshot /\ point' - snapshot.at >= Ttl
        BY <3>1, <3>2
      <3>3. CASE ~(snapshot # NoSnapshot /\ point' - snapshot.at >= Ttl)
        <4>1. snapshot' = snapshot
          BY <3>1, <3>3
        <4>2. snapshot = NoSnapshot \/ ~(point' - snapshot.at >= Ttl)
          BY <3>3
        <4>. QED
          BY <3>1, <4>1, <4>2
      <3>. QED
        BY <3>2, <3>3
    <2>2. SnapshotTypeOK' /\ GrabbedBetween'
      BY <1>0, <2>1 DEF SnapshotInv, SnapshotTypeOK, GrabbedBetween
    <2>3. SnapshotSound'
      BY <1>0, <1>00, <2>1
      DEF SnapshotSound, SnapshotOfThePast, OlderOnlyByRace, SavedIsKnown
    <2>. QED
      BY <2>2, <2>3 DEF SnapshotInv
  <1>9. CASE UNCHANGED snapshotVars
    BY <1>9 DEF snapshotVars, SnapshotInv, SnapshotTypeOK, GrabbedBetween, SnapshotSound,
                SnapshotOfThePast, OlderOnlyByRace, SavedIsKnown
  <1>. QED
    BY <1>1, <1>2, <1>3, <1>4, <1>5, <1>6, <1>7, <1>8, <1>9 DEF SnapshotNext

(* Nothing is stored at the beginning.                                     *)
LEMMA InitSnapshotInv == SnapshotInit => SnapshotInv
  BY DEF SnapshotInit, SnapshotInv, SnapshotTypeOK, GrabbedBetween, SnapshotSound,
         SnapshotOfThePast, OlderOnlyByRace, SavedIsKnown, NeverSaved, NoSnapshot

-----------------------------------------------------------------------------
(* The access token                                                        *)

Held == [token : Int, until : Int]

TokenTypeOK ==
    /\ tick \in Nat /\ issued \in Seq(Nat)
    /\ own \in [Owners -> Held] /\ file \in Held
    /\ asking \in [Workers -> Nat]
    /\ handed \in [Workers -> [token : Int, at : Nat]]

(* A request that waits is for a token of the server, and is not older     *)
(* than its timeout.                                                       *)
AskedInTime ==
    \A w \in Workers : asking[w] > 0 =>
        /\ asking[w] <= Len(issued)
        /\ tick - (issued[asking[w]] - Lifetime) \in 0..MaxDelay

(* What a process or the file holds was issued, and expires when they say  *)
(* or earlier, within the margin.                                          *)
HoldsIssued(keeps) ==
    keeps.token > 0 => /\ keeps.token <= Len(issued)
                      /\ keeps.until - issued[keeps.token] \in 0..Margin

HandedIssued ==
    \A w \in Workers : handed[w].token > 0 =>
        /\ handed[w].token <= Len(issued)
        /\ handed[w].at < issued[handed[w].token]

TokenInv ==
    /\ TokenTypeOK /\ AskedInTime /\ HandedIssued
    /\ HoldsIssued(file) /\ \A p \in Owners : HoldsIssued(own[p])

(* The numbers of the tokens, and whose process a worker is.               *)
LEMMA TokenFacts ==
    ASSUME TokenTypeOK
    PROVE  /\ Lifetime \in Nat /\ Margin \in Nat /\ MaxDelay \in Nat
           /\ MaxDelay <= Margin /\ MaxDelay < Lifetime
           /\ \A w \in Workers : ProcessOf[w] \in Owners
           /\ Len(issued) \in Nat
           /\ \A i \in Int : i > 0 /\ i <= Len(issued) => issued[i] \in Nat
           /\ \A x \in Nat : /\ Append(issued, x) \in Seq(Nat)
                             /\ Len(Append(issued, x)) = Len(issued) + 1
                             /\ Append(issued, x)[Len(issued) + 1] = x
                             /\ \A i \in Int : i > 0 /\ i <= Len(issued) =>
                                   Append(issued, x)[i] = issued[i]
  <1>1. issued \in Seq(Nat)
    BY DEF TokenTypeOK
  <1>2. /\ Len(issued) \in Nat
        /\ \A i \in Int : i > 0 /\ i <= Len(issued) => issued[i] \in Nat
        /\ \A x \in Nat : /\ Append(issued, x) \in Seq(Nat)
                          /\ Len(Append(issued, x)) = Len(issued) + 1
                          /\ Append(issued, x)[Len(issued) + 1] = x
                          /\ \A i \in Int : i > 0 /\ i <= Len(issued) =>
                                Append(issued, x)[i] = issued[i]
    BY <1>1
  <1>3. \A w \in Workers : ProcessOf[w] \in Owners
    BY TokenAssumption
  <1>. QED
    BY <1>2, <1>3, TokenAssumption

(* The server issues a token to a worker that asks.                        *)
LEMMA AskTokenKeeps ==
    ASSUME TokenInv, NEW w \in Workers, AskToken(w)
    PROVE  TokenInv'
  <1>0. /\ tick \in Nat /\ asking \in [Workers -> Nat] /\ TokenTypeOK
        /\ own \in [Owners -> Held] /\ file \in Held
        /\ handed \in [Workers -> [token : Int, at : Nat]]
    BY DEF TokenInv, TokenTypeOK
  <1>1. /\ issued' = Append(issued, tick + Lifetime) /\ tick + Lifetime \in Nat
        /\ asking' = [asking EXCEPT ![w] = Len(issued')]
        /\ UNCHANGED <<tick, own, file, handed>>
    BY <1>0, TokenFacts DEF AskToken
  <1>2. /\ issued' \in Seq(Nat) /\ Len(issued) \in Nat /\ Len(issued') = Len(issued) + 1
        /\ issued'[Len(issued) + 1] = tick + Lifetime
        /\ \A i \in Int : i > 0 /\ i <= Len(issued) =>
              /\ issued'[i] = issued[i] /\ i <= Len(issued')
              /\ issued[i] \in Nat
    BY <1>0, <1>1, TokenFacts
  <1>3. TokenTypeOK'
    <2>1. Len(issued') \in Nat
      BY <1>2
    <2>. QED
      BY <1>0, <1>1, <1>2, <2>1 DEF TokenTypeOK
  <1>4. AskedInTime'
    <2> SUFFICES ASSUME NEW u \in Workers, asking'[u] > 0
                 PROVE  /\ asking'[u] <= Len(issued')
                        /\ tick - (issued'[asking'[u]] - Lifetime) \in 0..MaxDelay
      BY <1>1 DEF AskedInTime
    <2>1. CASE u = w
      <3>1. asking'[u] = Len(issued) + 1
        BY <1>0, <1>1, <1>2, <2>1
      <3>2. tick - ((tick + Lifetime) - Lifetime) \in 0..MaxDelay
        BY <1>0, TokenFacts
      <3>. QED
        BY <1>2, <3>1, <3>2
    <2>2. CASE u # w
      <3>1. asking'[u] = asking[u] /\ asking[u] \in Nat
        BY <1>0, <1>1, <2>2
      <3>. QED
        BY <1>2, <3>1 DEF TokenInv, AskedInTime
    <2>. QED
      BY <2>1, <2>2
  <1>5. ASSUME NEW keeps \in Held, HoldsIssued(keeps)
        PROVE  keeps.token > 0 => /\ keeps.token <= Len(issued')
                                 /\ keeps.until - issued'[keeps.token] \in 0..Margin
    <2>1. keeps.token \in Int
      BY DEF Held
    <2>. QED
      BY <1>2, <1>5, <2>1 DEF HoldsIssued
  <1>6. HoldsIssued(file)' /\ \A p \in Owners : HoldsIssued(own[p])'
    BY <1>0, <1>1, <1>5 DEF TokenInv, HoldsIssued
  <1>7. HandedIssued'
    <2> SUFFICES ASSUME NEW u \in Workers, handed[u].token > 0
                 PROVE  /\ handed[u].token <= Len(issued')
                        /\ handed[u].at < issued'[handed[u].token]
      BY <1>1 DEF HandedIssued
    <2>1. handed[u].token \in Int
      BY <1>0
    <2>. QED
      BY <1>2, <2>1 DEF TokenInv, HandedIssued
  <1>. QED
    BY <1>1, <1>3, <1>4, <1>6, <1>7 DEF TokenInv

(* The answer comes, within the timeout of the request.                    *)
LEMMA TakeTokenKeeps ==
    ASSUME TokenInv, NEW w \in Workers, TakeToken(w)
    PROVE  TokenInv'
  <1> DEFINE fresh == [token |-> asking[w], until |-> tick + Lifetime]
  <1>0. /\ tick \in Nat /\ asking \in [Workers -> Nat] /\ TokenTypeOK /\ issued \in Seq(Nat)
        /\ own \in [Owners -> Held] /\ file \in Held
        /\ handed \in [Workers -> [token : Int, at : Nat]]
    BY DEF TokenInv, TokenTypeOK
  <1>1. /\ asking[w] > 0 /\ asking' = [asking EXCEPT ![w] = 0]
        /\ own' = [own EXCEPT ![ProcessOf[w]] = fresh]
        /\ file' \in {fresh, Garbled, file}
        /\ handed' = [handed EXCEPT ![w] = [token |-> asking[w], at |-> tick]]
        /\ UNCHANGED <<tick, issued>>
    BY DEF TakeToken
  <1>2. /\ asking[w] \in Nat /\ asking[w] <= Len(issued) /\ issued[asking[w]] \in Nat
        /\ tick - (issued[asking[w]] - Lifetime) \in 0..MaxDelay
        /\ Lifetime \in Nat /\ Margin \in Nat /\ MaxDelay \in Nat
        /\ MaxDelay <= Margin /\ MaxDelay < Lifetime
    BY <1>0, <1>1, TokenFacts DEF TokenInv, AskedInTime
  <1>3. /\ (tick + Lifetime) - issued[asking[w]] \in 0..Margin
        /\ tick < issued[asking[w]]
    <2>1. PICK i, t, l, a, d \in Nat : /\ i = issued[asking[w]] /\ t = tick /\ l = Lifetime
                                      /\ a = Margin /\ d = MaxDelay
      BY <1>0, <1>2
    <2>2. t - (i - l) \in 0..d /\ d <= a /\ d < l
      BY <1>2, <2>1
    <2>3. (t + l) - i \in 0..a /\ t < i
      BY <2>2
    <2>. QED
      BY <2>1, <2>3
  <1>4. fresh \in Held /\ HoldsIssued(fresh) /\ Garbled \in Held /\ HoldsIssued(Garbled)
    BY <1>0, <1>2, <1>3 DEF Held, HoldsIssued, Garbled
  <1>. HIDE DEF fresh
  <1>5. TokenTypeOK'
    <2>1. own' \in [Owners -> Held] /\ file' \in Held
      BY <1>0, <1>1, <1>4
    <2>2. asking' \in [Workers -> Nat] /\ handed' \in [Workers -> [token : Int, at : Nat]]
      BY <1>0, <1>1, <1>2
    <2>. QED
      BY <1>0, <1>1, <2>1, <2>2 DEF TokenTypeOK
  <1>6. AskedInTime'
    BY <1>0, <1>1 DEF TokenInv, AskedInTime
  <1>7. HoldsIssued(file)' /\ \A p \in Owners : HoldsIssued(own[p])'
    <2>1. ASSUME NEW keeps, HoldsIssued(keeps)
          PROVE  keeps.token > 0 => /\ keeps.token <= Len(issued')
                                   /\ keeps.until - issued'[keeps.token] \in 0..Margin
      BY <1>1, <2>1 DEF HoldsIssued
    <2>2. HoldsIssued(file)'
      BY <1>1, <1>4, <2>1 DEF TokenInv, HoldsIssued
    <2>3. ASSUME NEW p \in Owners PROVE HoldsIssued(own[p])'
      <3>1. own'[p] = fresh \/ own'[p] = own[p]
        BY <1>0, <1>1
      <3>. QED
        BY <1>4, <2>1, <3>1 DEF TokenInv, HoldsIssued
    <2>. QED
      BY <2>2, <2>3
  <1>8. HandedIssued'
    BY <1>0, <1>1, <1>2, <1>3 DEF TokenInv, HandedIssued
  <1>. QED
    BY <1>5, <1>6, <1>7, <1>8 DEF TokenInv

(* A step that issues nothing and hands out only what lives.               *)
LEMMA TokensMovedKeep ==
    ASSUME TokenInv, TokenTypeOK', UNCHANGED issued, AskedInTime', HandedIssued',
           file' = file \/ file' = NoToken,
           \A p \in Owners : own'[p] \in {own[p], file, NoToken}
    PROVE  TokenInv'
  <1>1. \A keeps : HoldsIssued(keeps) =>
           (keeps.token > 0 => /\ keeps.token <= Len(issued')
                              /\ keeps.until - issued'[keeps.token] \in 0..Margin)
    BY DEF HoldsIssued
  <1>2. HoldsIssued(NoToken)
    BY DEF HoldsIssued, NoToken
  <1>3. HoldsIssued(file)'
    BY <1>1, <1>2 DEF TokenInv, HoldsIssued
  <1>4. ASSUME NEW p \in Owners PROVE HoldsIssued(own[p])'
    BY <1>1, <1>2 DEF TokenInv, HoldsIssued
  <1>. QED
    BY <1>3, <1>4 DEF TokenInv

(* Every step of workers, server and time keeps the invariant.             *)
LEMMA TokenKeeps == TokenInv /\ [TokenNext]_tokenVars => TokenInv'
  <1> SUFFICES ASSUME TokenInv, [TokenNext]_tokenVars PROVE TokenInv'
    OBVIOUS
  <1>0. /\ tick \in Nat /\ asking \in [Workers -> Nat] /\ TokenTypeOK /\ issued \in Seq(Nat)
        /\ own \in [Owners -> Held] /\ file \in Held /\ NoToken \in Held
        /\ handed \in [Workers -> [token : Int, at : Nat]]
        /\ Lifetime \in Nat /\ Margin \in Nat /\ MaxDelay \in Nat
        /\ \A v \in Workers : ProcessOf[v] \in Owners
    BY TokenFacts DEF TokenInv, TokenTypeOK, Held, NoToken
  <1>1. ASSUME NEW w \in Workers, GetCached(w) PROVE TokenInv'
    <2> DEFINE mine == own[ProcessOf[w]]
    <2>1. /\ mine.token > 0 /\ tick < mine.until - Margin
          /\ handed' = [handed EXCEPT ![w] = [token |-> mine.token, at |-> tick]]
          /\ UNCHANGED <<tick, issued, own, file, asking>>
      BY <1>1 DEF GetCached, Valid
    <2>2. mine \in Held /\ mine.token \in Int /\ mine.until \in Int /\ HoldsIssued(mine)
      BY <1>0 DEF TokenInv, Held
    <2>3. /\ mine.token <= Len(issued) /\ issued[mine.token] \in Nat
          /\ mine.until - issued[mine.token] \in 0..Margin
      BY <1>0, <2>1, <2>2, TokenFacts DEF HoldsIssued
    <2>4. tick < issued[mine.token]
      <3>1. PICK i, t, a \in Nat : i = issued[mine.token] /\ t = tick /\ a = Margin
        BY <1>0, <2>3
      <3>2. PICK u \in Int : u = mine.until
        BY <2>2
      <3>3. t < u - a /\ u - i \in 0..a
        BY <2>1, <2>3, <3>1, <3>2
      <3>4. t < i
        BY <3>3
      <3>. QED
        BY <3>1, <3>4
    <2>. HIDE DEF mine
    <2>5. HandedIssued'
      BY <1>0, <2>1, <2>3, <2>4 DEF TokenInv, HandedIssued
    <2>6. TokenTypeOK' /\ AskedInTime'
      BY <1>0, <2>1, <2>2 DEF TokenInv, TokenTypeOK, AskedInTime
    <2>. QED
      BY <2>1, <2>5, <2>6, TokensMovedKeep
  <1>2. ASSUME NEW w \in Workers, AskFails(w) PROVE TokenInv'
    <2>1. /\ asking' = [asking EXCEPT ![w] = 0]
          /\ handed' = [handed EXCEPT ![w] = [token |-> 0, at |-> tick]]
          /\ UNCHANGED <<tick, issued, own, file>>
      BY <1>2 DEF AskFails
    <2>2. TokenTypeOK'
      BY <1>0, <2>1 DEF TokenTypeOK
    <2>3. AskedInTime' /\ HandedIssued'
      BY <1>0, <2>1 DEF TokenInv, AskedInTime, HandedIssued
    <2>. QED
      BY <2>1, <2>2, <2>3, TokensMovedKeep
  <1>3. ASSUME NEW w \in Workers, Invalidate(w) PROVE TokenInv'
    <2>1. /\ own' = [own EXCEPT ![ProcessOf[w]] = NoToken] /\ file' = NoToken
          /\ UNCHANGED <<tick, issued, asking, handed>>
      BY <1>3 DEF Invalidate
    <2>2. TokenTypeOK' /\ AskedInTime' /\ HandedIssued'
      BY <1>0, <2>1 DEF TokenInv, TokenTypeOK, AskedInTime, HandedIssued
    <2>3. \A p \in Owners : own'[p] \in {own[p], file, NoToken}
      BY <1>0, <2>1
    <2>. QED
      BY <2>1, <2>2, <2>3, TokensMovedKeep
  <1>4. ASSUME NEW q \in Owners, RestartProcess(q) PROVE TokenInv'
    <2>1. /\ own' = [own EXCEPT ![q] = IF Valid(file) THEN file ELSE NoToken]
          /\ asking' = [w \in Workers |-> IF ProcessOf[w] = q THEN 0 ELSE asking[w]]
          /\ UNCHANGED <<tick, issued, file, handed>>
      BY <1>4 DEF RestartProcess
    <2>2. TokenTypeOK' /\ AskedInTime' /\ HandedIssued'
      BY <1>0, <2>1 DEF TokenInv, TokenTypeOK, AskedInTime, HandedIssued
    <2>3. \A p \in Owners : own'[p] \in {own[p], file, NoToken}
      BY <1>0, <2>1
    <2>. QED
      BY <2>1, <2>2, <2>3, TokensMovedKeep
  <1>5. CASE TickPasses
    <2>1. /\ tick' = tick + 1 /\ tick' \in Nat
          /\ \A w \in Workers : asking[w] > 0 => tick' - (issued[asking[w]] - Lifetime) <= MaxDelay
          /\ UNCHANGED <<issued, own, file, asking, handed>>
      BY <1>0, <1>5 DEF TickPasses
    <2>2. TokenTypeOK' /\ HandedIssued'
      BY <1>0, <2>1 DEF TokenInv, TokenTypeOK, HandedIssued
    <2>3. AskedInTime'
      <3> SUFFICES ASSUME NEW u \in Workers, asking[u] > 0
                   PROVE  /\ asking[u] <= Len(issued)
                          /\ tick' - (issued[asking[u]] - Lifetime) \in 0..MaxDelay
        BY <2>1 DEF AskedInTime
      <3>1. /\ asking[u] <= Len(issued) /\ asking[u] \in Int
            /\ tick - (issued[asking[u]] - Lifetime) \in 0..MaxDelay
        BY <1>0 DEF TokenInv, AskedInTime
      <3>2. issued[asking[u]] \in Nat
        BY <1>0, <3>1, TokenFacts
      <3>3. PICK i, t, l, d \in Nat : /\ i = issued[asking[u]] /\ t = tick /\ l = Lifetime
                                    /\ d = MaxDelay
        BY <1>0, <3>2
      <3>4. t - (i - l) \in 0..d
        BY <3>1, <3>3
      <3>5. (t + 1) - (i - l) <= d
        BY <2>1, <3>3
      <3>6. (t + 1) - (i - l) \in 0..d
        BY <3>4, <3>5
      <3>. QED
        BY <2>1, <3>1, <3>3, <3>6
    <2>. QED
      BY <2>1, <2>2, <2>3, TokensMovedKeep
  <1>6. CASE UNCHANGED tokenVars
    <2>1. UNCHANGED <<tick, issued, own, file, asking, handed>>
      BY <1>6 DEF tokenVars
    <2>2. TokenTypeOK' /\ AskedInTime' /\ HandedIssued'
      BY <2>1 DEF TokenInv, TokenTypeOK, AskedInTime, HandedIssued
    <2>. QED
      BY <2>1, <2>2, TokensMovedKeep
  <1>. QED
    BY <1>1, <1>2, <1>3, <1>4, <1>5, <1>6, AskTokenKeeps, TakeTokenKeeps DEF TokenNext

(* No token is issued at the beginning.                                    *)
LEMMA InitTokenInv == TokenInit => TokenInv
  BY DEF TokenInit, TokenInv, TokenTypeOK, AskedInTime, HandedIssued, HoldsIssued, Held, NoToken

-----------------------------------------------------------------------------
(* What the services lean on: the lag they are throttled by, the state     *)
(* they start again with and the token they call the broker with.          *)
CommonInv == PressureInv /\ SnapshotInv /\ TokenInv

(* A call's advice is of lags that the groups had during the call, a       *)
(* snapshot is of a past state and older only by a race of two saves, and  *)
(* a token handed out is one that was issued and lives, in whatever order  *)
(* the steps come.                                                         *)
THEOREM CommonIsSound == Spec => []CommonSound
  <1>1. Init => CommonInv
    BY InitPressureInv, InitSnapshotInv, InitTokenInv DEF Init, SupportInit, CommonInv
  <1>2. CommonInv /\ [Next]_componentVars => CommonInv'
    <2>1. [Next]_componentVars => /\ [PressureNext]_backpressureVars
                                  /\ [SnapshotNext]_snapshotVars
                                  /\ [TokenNext]_tokenVars
      BY DEF Next, componentVars, supportVars, BrokerPart, CandlePart, BackfillPart,
             BacktestPart, ContractPart, WorkbenchPart, SupportPart, SupportNext, AnomalyPart,
             PerformancePart, NotifierPart, QueuePart, LagPart, SnapshotPart, TokenPart
    <2>. QED
      BY <2>1, PressureKeeps, SnapshotKeeps, TokenKeeps DEF CommonInv
  <1>3. CommonInv => CommonSound
    BY AdviceIsOfTheCall
       DEF CommonInv, PressureInv, SnapshotInv, TokenInv, CommonSound, PressureSound, TokensSound,
           ClaimedWithinMargin, HandedAlive, HandedIssued, HoldsIssued, Range, TokenTypeOK
  <1>. QED
    BY <1>1, <1>2, <1>3, PTL DEF Spec

-----------------------------------------------------------------------------
(* The backtest                                                            *)
(*                                                                         *)
(* What it keeps over any data, costs, limits and strategies.  Two books   *)
(* are kept of one position, the engine's and the strategy's; the          *)
(* invariant says when they agree, and that the strategy's own rules still *)
(* bind it where they do not.                                              *)

(* A strategy that believes to be in a position has seen enough bars to    *)
(* judge, and bars with a regime if it judges by regimes.                  *)
ViewIsJudged ==
    memory.view # 0 =>
        /\ ~Cold(memory)
        /\ rule \in {"Breakout", "MeanReversion"} => prepared

BacktestInv ==
    /\ BacktestTypeOK /\ ViewIsJudged
    /\ CapitalIsCash /\ HoldingJustified /\ ViewUntilOverruled /\ RuleTimeStop

Sides == {-1, 0, 1}
Positions == [side : {-1, 1}, entry : Int, since : Nat, high : Int, low : Int]
Memories == [view : Sides, seen : 0..WarmUp, bars : 0..MaxBars, since : 0..Cooldown]

-----------------------------------------------------------------------------
(* The strategy's memory                                                   *)

(* A bar that is shown to the strategy counts, and changes no view.        *)
LEMMA ShownFacts ==
    ASSUME memory \in Memories
    PROVE  /\ Shown \in Memories
           /\ Shown.view = memory.view
           /\ ~Cold(memory) => ~Cold(Shown)
<1>1. /\ AtMost(memory.seen + 1, WarmUp) \in 0..WarmUp
      /\ AtMost(memory.bars + 1, MaxBars) \in 0..MaxBars
      /\ AtMost(memory.since + 1, Cooldown) \in 0..Cooldown
      /\ memory.seen >= WarmUp => AtMost(memory.seen + 1, WarmUp) >= WarmUp
  BY RulesAssumption DEF AtMost, Memories
<1>3. memory.view \in Sides /\ memory.seen \in 0..WarmUp
  BY DEF Memories
<1>4. Shown \in Memories /\ Shown.view = memory.view
  BY <1>1, <1>3 DEF Memories, Shown
<1>5. Shown.seen = AtMost(memory.seen + 1, WarmUp)
  BY DEF Shown
<1>6. ~Cold(memory) => ~Cold(Shown)
  BY <1>1, <1>3, <1>5, RulesAssumption DEF Cold
<1> QED
  BY <1>4, <1>6

(* A trade starts the count of bars; the view moves by it.                 *)
LEMMA ToldFacts ==
    ASSUME NEW m \in Memories, NEW signal \in Sides
    PROVE  /\ Told(m, signal) \in Memories
           /\ Told(m, signal).seen = m.seen
           /\ signal = 0 \/ m.view = signal => Told(m, signal) = m
           /\ signal # 0 /\ m.view # signal =>
                 Told(m, signal).view = m.view + signal /\ Told(m, signal).bars = 0
<1>1. CASE signal = 0 \/ m.view = signal
  BY <1>1 DEF Told, HOLD
<1>2. CASE signal # 0 /\ m.view # signal
  <2>1. Told(m, signal) =
          [view |-> m.view + signal, seen |-> m.seen, bars |-> 0,
           since |-> IF m.view = 0 THEN 0 ELSE m.since]
    BY <1>2 DEF Told, HOLD, Memories
  <2>2. m.view + signal \in Sides
    <3>1. m.view \in {-1, 0, 1}
      BY DEF Memories, Sides
    <3> QED
      BY <1>2, <3>1 DEF Sides
  <2>3. (IF m.view = 0 THEN 0 ELSE m.since) \in 0..Cooldown
    BY RulesAssumption DEF Memories
  <2>4. m.seen \in 0..WarmUp /\ 0 \in 0..MaxBars
    BY RulesAssumption DEF Memories
  <2>5. Told(m, signal) \in Memories
    BY <2>1, <2>2, <2>3, <2>4 DEF Memories
  <2> QED
    BY <1>2, <2>1, <2>5
<1> QED
  BY <1>1, <1>2

(* What the rules say to a strategy that believes to be in a position, and *)
(* when they let one that does not enter.                                  *)
LEMMA SignalFacts ==
    ASSUME NEW m \in Memories, NEW name \in RuleNames,
           NEW regime \in Regimes \cup {NoRegime}, NEW signal \in SignalsOf(name, m, regime)
    PROVE  /\ signal \in Sides
           /\ m.view = 0 /\ signal # 0 =>
                 /\ ~Cold(m)
                 /\ name \in {"Breakout", "MeanReversion"} => regime # NoRegime
           /\ /\ m.view # 0 /\ ~Cold(m) /\ m.bars >= MaxBars
              /\ ~(name = "Hybrid" /\ AvoidMedium)
              /\ name \in {"Breakout", "MeanReversion"} => regime # NoRegime
              => signal = -m.view
<1>1. m.view \in {-1, 0, 1} /\ -m.view \in Sides
  BY DEF Memories, Sides
<1>2. TradeSignals(m) \subseteq Sides
  BY <1>1 DEF TradeSignals, ExitSignals, ExitSignal, HOLD, Sides
<1>3. m.view # 0 /\ m.bars >= MaxBars => TradeSignals(m) = {-m.view}
  BY DEF TradeSignals, ExitSignals, ExitSignal
<1>4. ASSUME NEW allowed, signal \in InRegime(m, regime, allowed)
      PROVE  /\ signal \in Sides
             /\ m.view = 0 /\ signal # 0 => ~Cold(m) /\ regime # NoRegime
             /\ m.view # 0 /\ ~Cold(m) /\ m.bars >= MaxBars /\ regime # NoRegime
                  => signal = -m.view
  <2>1. CASE Cold(m) \/ regime = NoRegime
    BY <1>4, <2>1 DEF InRegime, HOLD, Sides
  <2>2. CASE ~Cold(m) /\ regime # NoRegime /\ regime \notin allowed
    <3>1. signal = -m.view
      BY <1>4, <2>2 DEF InRegime, ExitSignal
    <3> QED
      BY <1>1, <2>2, <3>1
  <2>3. CASE ~Cold(m) /\ regime # NoRegime /\ regime \in allowed
    <3>1. signal \in TradeSignals(m)
      BY <1>4, <2>3 DEF InRegime
    <3> QED
      BY <1>2, <1>3, <2>3, <3>1
  <2> QED
    BY <2>1, <2>2, <2>3
<1>5. CASE name = "Breakout"
  BY <1>4, <1>5 DEF SignalsOf, Breakout
<1>6. CASE name = "MeanReversion"
  BY <1>4, <1>6 DEF SignalsOf, MeanReversion
<1>7. CASE name = "Hybrid"
  <2>1. signal \in Hybrid(m, regime)
    BY <1>7 DEF SignalsOf
  <2> QED
    BY <1>2, <1>3, <1>7, <2>1 DEF Hybrid, HOLD, Sides
<1>8. CASE name = "OFIMomentum"
  <2>1. signal \in OFIMomentum(m)
    BY <1>8 DEF SignalsOf
  <2> QED
    BY <1>2, <1>3, <1>8, <2>1 DEF OFIMomentum, HOLD, Sides
<1>9. CASE name = "PureMicrostructure"
  <2>1. signal \in PureMicrostructure(m)
    BY <1>9 DEF SignalsOf
  <2> QED
    BY <1>2, <1>3, <1>9, <2>1 DEF PureMicrostructure, HOLD, Sides
<1> QED
  BY <1>5, <1>6, <1>7, <1>8, <1>9 DEF RuleNames

-----------------------------------------------------------------------------
(* The engine's position and its money                                     *)

(* What is held is a position, or the one that stands for none.            *)
LEMMA HeldFacts ==
    ASSUME BacktestTypeOK
    PROVE  /\ held.side \in Sides /\ held.entry \in Int /\ held.since \in Nat
           /\ held.side = 0 => held = NotHeld
           /\ held.side # 0 => held \in Positions
<1>1. CASE held = NotHeld
  BY <1>1 DEF NotHeld, Sides
<1>2. CASE held \in Positions
  BY <1>2 DEF Positions, Sides
<1> QED
  BY <1>1, <1>2 DEF BacktestTypeOK, Positions

(* Marking a position moves its high and low alone.                        *)
LEMMA MarkedFacts ==
    ASSUME BacktestTypeOK, NEW p \in Prices
    PROVE  /\ held.side = 0 => Marked(p) = NotHeld
           /\ held.side # 0 => Marked(p) \in Positions
           /\ Marked(p).side = held.side /\ Marked(p).entry = held.entry
           /\ Marked(p).since = held.since
<1>1. CASE held.side = 0
  BY <1>1, HeldFacts DEF Marked
<1>2. CASE held.side # 0
  <2>1. held \in Positions /\ p \in Int
    BY <1>2, HeldFacts, BacktestAssumption
  <2>2. Marked(p) = [held EXCEPT !.high = IF p > held.high THEN p ELSE held.high,
                                 !.low  = IF p < held.low THEN p ELSE held.low]
    BY <1>2 DEF Marked
  <2>3. /\ (IF p > held.high THEN p ELSE held.high) \in Int
        /\ (IF p < held.low THEN p ELSE held.low) \in Int
    BY <2>1 DEF Positions
  <2> QED
    BY <1>2, <2>1, <2>2, <2>3 DEF Positions
<1> QED
  BY <1>1, <1>2

(* A profit is the difference of two products.                             *)
LEMMA ProfitInt ==
    ASSUME NEW pos, pos.side \in Sides, pos.entry \in Int, NEW p \in Int
    PROVE  /\ Profit(pos, p) \in Int
           /\ pos.side * p \in Int /\ pos.side * pos.entry \in Int
           /\ Profit(pos, p) = pos.side * p - pos.side * pos.entry
<1>1. CASE pos.side = 0
  BY <1>1 DEF Profit
<1>2. CASE pos.side = 1
  BY <1>2 DEF Profit
<1>3. CASE pos.side = -1
  BY <1>3 DEF Profit
<1> QED
  BY <1>1, <1>2, <1>3 DEF Sides

(* Whoever closes a position brings all its money home.                    *)
LEMMA CloseFacts ==
    ASSUME BacktestTypeOK, CapitalIsCash, NEW p \in Int, NEW pnl \in Int,
           NEW trades \in Nat, CloseAt(p, pnl, trades)
    PROVE  /\ held' = NotHeld /\ dayTrades' = trades + 1
           /\ capitalGain' \in Int /\ takings' \in Int /\ dayPnl' \in Int
           /\ CapitalIsCash'
<1> DEFINE price == p - held.side * Slippage
           gain == Profit(held, price) - Commission
<1>1. held' = NotHeld /\ dayTrades' = trades + 1
  BY DEF CloseAt
<1>2. /\ capitalGain' = capitalGain + gain /\ dayPnl' = pnl + gain
      /\ takings' = takings + held.side * price - Commission
  BY DEF CloseAt
<1>3. held.side \in Sides /\ held.entry \in Int /\ Slippage \in Int /\ Commission \in Int
  BY HeldFacts, BacktestAssumption
<1>4. price \in Int
  <2>1. CASE held.side = 0
    BY <1>3, <2>1
  <2>2. CASE held.side = 1
    BY <1>3, <2>2
  <2>3. CASE held.side = -1
    BY <1>3, <2>3
  <2> QED
    BY <1>3, <2>1, <2>2, <2>3 DEF Sides
<1> HIDE DEF price
<1>5. /\ Profit(held, price) \in Int /\ held.side * price \in Int
      /\ held.side * held.entry \in Int
      /\ Profit(held, price) = held.side * price - held.side * held.entry
  BY <1>3, <1>4, ProfitInt
<1>6. capitalGain \in Int /\ takings \in Int /\ capitalGain = takings + held.side * held.entry
  BY DEF BacktestTypeOK, CapitalIsCash
<1>7. capitalGain' = takings'
  BY <1>2, <1>3, <1>5, <1>6
<1>8. capitalGain' \in Int /\ takings' \in Int /\ dayPnl' \in Int
  BY <1>2, <1>3, <1>5, <1>6
<1>9. held'.side * held'.entry = 0
  BY <1>1 DEF NotHeld
<1> QED
  BY <1>1, <1>7, <1>8, <1>9 DEF CapitalIsCash

(* Whoever opens a position pays the slippage and the commission for it.   *)
LEMMA OpenFacts ==
    ASSUME BacktestTypeOK, CapitalIsCash, held.side = 0, NEW way \in {-1, 1},
           NEW p \in Int, NEW now \in Nat, OpenAt(way, p, now)
    PROVE  /\ held' \in Positions /\ held'.side = way /\ held'.since = now
           /\ Profit(held', p) = -Slippage
           /\ opened' = opened + 1
           /\ capitalGain' \in Int /\ takings' \in Int
           /\ CapitalIsCash'
<1> DEFINE price == p + way * Slippage
<1>1. /\ held' = [side |-> way, entry |-> price, since |-> now,
                  high |-> price, low |-> price]
      /\ capitalGain' = capitalGain - Commission
      /\ takings' = takings - way * price - Commission
      /\ opened' = opened + 1
  BY DEF OpenAt
<1>2. Slippage \in Int /\ Commission \in Int
  BY BacktestAssumption
<1>3. price \in Int /\ way * price \in Int /\ way * (p - price) = -Slippage
  BY <1>2
<1> HIDE DEF price
<1>4. held' \in Positions /\ held'.side = way /\ held'.entry = price /\ held'.since = now
  BY <1>1, <1>3 DEF Positions
<1>5. capitalGain \in Int /\ takings \in Int /\ capitalGain = takings
  <2>1. held.entry = 0
    BY HeldFacts DEF NotHeld
  <2> QED
    BY <2>1 DEF BacktestTypeOK, CapitalIsCash
<1>6. capitalGain' \in Int /\ takings' \in Int /\ capitalGain' = takings' + way * price
  BY <1>1, <1>2, <1>3, <1>5
<1> QED
  BY <1>1, <1>3, <1>4, <1>6 DEF CapitalIsCash, Profit

(* A day and a slot are one number.                                        *)
LEMMA StampNat ==
    ASSUME NEW d \in Nat, NEW s \in Nat  PROVE Stamp(d, s) \in Nat
<1>1. LastSlot + 1 \in Nat
  BY BacktestAssumption
<1>2. \A m, n \in Nat : m * n \in Nat
  OBVIOUS
<1>3. d * (LastSlot + 1) \in Nat
  BY <1>1, <1>2
<1> QED
  BY <1>3 DEF Stamp

(* A run begins with nothing held and nothing remembered.                  *)
LEMMA InitBacktestInv == BacktestInit => BacktestInv
<1> SUFFICES ASSUME BacktestInit PROVE BacktestInv
  OBVIOUS
<1>1. memory \in Memories
  BY RulesAssumption DEF BacktestInit, Memories, Sides
<1>2. BacktestTypeOK
  <2>1. prepared \in BOOLEAN /\ over \in BOOLEAN
    BY DEF BacktestInit
  <2> QED
    BY <1>1, <2>1, BacktestAssumption DEF BacktestInit, BacktestTypeOK, Memories, Sides
<1>3. held.side = 0 /\ held.entry = 0 /\ memory.view = 0 /\ capitalGain = 0 /\ takings = 0
  BY DEF BacktestInit, NotHeld
<1> QED
  BY <1>2, <1>3 DEF BacktestInv, ViewIsJudged, CapitalIsCash, HoldingJustified,
     ViewUntilOverruled, RuleTimeStop

-----------------------------------------------------------------------------
(* The bar                                                                 *)

(* A position that no limit closes at a bar is justified there.            *)
LEMMA KeptIsJustified ==
    ASSUME BacktestTypeOK, held.side # 0, NEW d \in Nat, NEW s \in Nat, NEW p \in Prices,
           NEW pnl \in Int, NEW trades \in Nat, trades < MaxDailyTrades,
           s \notin ForceSlots, ~RiskExit(Marked(p), p, pnl, Stamp(d, s)),
           held' = Marked(p), barDay' = d, barSlot' = s, close' = p,
           dayPnl' = pnl, dayTrades' = trades
    PROVE  HoldingJustified'
<1> DEFINE pos == Marked(p)
           now == Stamp(d, s)
<1>1. ~LossLimit(pnl) /\ ~StopHit(pos, p) /\ ~TargetHit(pos, p) /\ ~TimeOver(pos, now)
  BY DEF RiskExit
<1>2. Profit(pos, p) \in Int /\ now \in Nat /\ pos.since \in Nat
  <2>1. p \in Int
    BY BacktestAssumption
  <2>2. held.side \in Sides /\ held.entry \in Int /\ held.since \in Nat
    BY HeldFacts
  <2>3. pos.side \in Sides /\ pos.entry \in Int /\ pos.since \in Nat
    BY <2>2, MarkedFacts
  <2>4. now \in Nat
    BY StampNat
  <2> HIDE DEF pos, now
  <2>5. Profit(pos, p) \in Int
    BY <2>1, <2>3, ProfitInt
  <2> QED
    BY <2>3, <2>4, <2>5
<1>3. StopLoss \in Int /\ TakeProfit \in Int /\ TimeStop \in Int
  BY BacktestAssumption
<1> HIDE DEF pos, now
<1>4. -StopLoss < Profit(pos, p) /\ Profit(pos, p) < TakeProfit
  BY <1>1, <1>2, <1>3 DEF StopHit, TargetHit
<1>5. now - pos.since < TimeStop
  BY <1>1, <1>2, <1>3 DEF TimeOver
<1>6. MayTrade(pnl, trades)
  BY <1>1 DEF MayTrade
<1>7. Profit(held', close') = Profit(pos, p) /\ Stamp(barDay', barSlot') = now
      /\ held'.since = pos.since
  BY DEF pos, now
<1> QED
  BY <1>4, <1>5, <1>6, <1>7
     DEF HoldingJustified, Profit, Stamp, MayTrade, LossLimit

(* The strategy's answer leaves its rules kept.                            *)
LEMMA AnswerKeepsRules ==
    ASSUME BacktestInv, NEW signal, NEW regime,
           regime \in IF prepared THEN Regimes ELSE {NoRegime},
           signal \in SignalsOf(rule, Shown, regime),
           memory' = Told(Shown, signal), UNCHANGED <<rule, prepared>>
    PROVE  /\ signal \in Sides /\ memory' \in Memories
           /\ ViewIsJudged' /\ RuleTimeStop'
           /\ memory'.view = IF signal = 0 \/ memory.view = signal THEN memory.view
                             ELSE memory.view + signal
<1>1. memory \in Memories /\ rule \in RuleNames
  BY DEF BacktestInv, BacktestTypeOK, Memories, Sides
<1>2. /\ Shown \in Memories /\ Shown.view = memory.view
      /\ ~Cold(memory) => ~Cold(Shown)
  BY <1>1, ShownFacts
<1> HIDE DEF Shown
<1>3. regime \in Regimes \cup {NoRegime} /\ (regime # NoRegime <=> prepared)
  BY DEF Regimes, NoRegime
<1>4. /\ signal \in Sides
      /\ Shown.view = 0 /\ signal # 0 =>
            /\ ~Cold(Shown)
            /\ rule \in {"Breakout", "MeanReversion"} => regime # NoRegime
      /\ /\ Shown.view # 0 /\ ~Cold(Shown) /\ Shown.bars >= MaxBars
         /\ ~(rule = "Hybrid" /\ AvoidMedium)
         /\ rule \in {"Breakout", "MeanReversion"} => regime # NoRegime
         => signal = -Shown.view
  BY <1>1, <1>2, <1>3, SignalFacts
<1>5. /\ memory' \in Memories /\ memory'.seen = Shown.seen
      /\ signal = 0 \/ Shown.view = signal => memory' = Shown
      /\ signal # 0 /\ Shown.view # signal =>
            memory'.view = Shown.view + signal /\ memory'.bars = 0
  BY <1>2, <1>4, ToldFacts
<1>6. memory'.view # 0 => Shown.view # 0 \/ signal # 0
  BY <1>5
<1>7. ViewIsJudged'
  <2>1. Cold(memory') <=> Cold(Shown)
    BY <1>5 DEF Cold
  <2>2. memory'.view # 0 =>
          ~Cold(Shown) /\ (rule \in {"Breakout", "MeanReversion"} => prepared)
    BY <1>2, <1>3, <1>4, <1>6 DEF BacktestInv, ViewIsJudged
  <2> QED
    BY <2>1, <2>2 DEF ViewIsJudged, Cold
<1>8. RuleTimeStop'
  <2> SUFFICES ASSUME memory'.view # 0, ~(rule = "Hybrid" /\ AvoidMedium)
               PROVE  memory'.bars < MaxBars
    BY DEF RuleTimeStop
  <2>1. CASE signal # 0 /\ Shown.view # signal
    BY <1>5, <2>1, RulesAssumption
  <2>2. CASE signal = 0 \/ Shown.view = signal
    <3>1. memory' = Shown /\ Shown.view # 0
      BY <1>5, <2>2
    <3>2. ~Cold(Shown) /\ (rule \in {"Breakout", "MeanReversion"} => regime # NoRegime)
      BY <1>2, <1>3, <3>1 DEF BacktestInv, ViewIsJudged
    <3>3. signal # -Shown.view
      <4>1. Shown.view \in {-1, 0, 1}
        BY <1>2 DEF Memories, Sides
      <4> QED
        BY <2>2, <3>1, <4>1
    <3>4. ~(Shown.bars >= MaxBars)
      BY <1>4, <3>1, <3>2, <3>3
    <3>5. Shown.bars \in Int /\ MaxBars \in Int
      BY <1>2, RulesAssumption DEF Memories
    <3> QED
      BY <3>1, <3>4, <3>5
  <2> QED
    BY <2>1, <2>2
<1> QED
  BY <1>2, <1>4, <1>5, <1>7, <1>8

(* A bar: exits by limit, the strategy's answer, an entry or an exit.      *)
LEMMA ProcessBarKeeps ==
    ASSUME BacktestInv, NEW d \in 0..LastBarDay, NEW s \in 0..LastSlot, NEW p \in Prices,
           NEW signal \in {-1, 0, 1}, ProcessBar(d, s, p, signal)
    PROVE  BacktestInv'
<1> DEFINE now == Stamp(d, s)
           newDay == barDay # -1 /\ d # barDay
           pnl == IF newDay THEN 0 ELSE dayPnl
           trades == IF newDay THEN 0 ELSE dayTrades
           pos == Marked(p)
           stays == held.side # 0 => s \notin ForceSlots /\ ~RiskExit(pos, p, pnl, now)
<1>1. /\ d \in Nat /\ s \in Nat /\ p \in Int /\ now \in Nat
      /\ pnl \in Int /\ trades \in Nat
      /\ held.side # 0 => trades < MaxDailyTrades
  <2>1. d \in Nat /\ s \in Nat /\ p \in Int
    BY BacktestAssumption
  <2>2. pnl \in Int /\ trades \in Nat
    BY DEF BacktestInv, BacktestTypeOK
  <2>3. held.side # 0 => trades < MaxDailyTrades
    BY BacktestAssumption DEF BacktestInv, HoldingJustified, MayTrade
  <2> QED
    BY <2>1, <2>2, <2>3, StampNat
<1>2. /\ barDay' = d /\ barSlot' = s /\ close' = p
      /\ UNCHANGED <<rule, prepared, over>>
  BY DEF ProcessBar
<1>3. \/ /\ held.side # 0 /\ CloseAt(p, pnl, trades)
         /\ overruled' = overruled + 1
         /\ UNCHANGED <<memory, opened>>
      \/ /\ stays /\ held' = pos /\ dayPnl' = pnl /\ dayTrades' = trades
         /\ UNCHANGED <<memory, capitalGain, takings, opened, overruled>>
      \/ /\ stays /\ s \in EntrySlots /\ MayTrade(pnl, trades)
         /\ \E regime \in IF prepared THEN Regimes ELSE {NoRegime} :
               signal \in SignalsOf(rule, Shown, regime)
         /\ memory' = Told(Shown, signal)
         /\ UNCHANGED overruled
         /\ \/ /\ held.side = 0 /\ signal # 0 /\ opened < MaxEntries
               /\ OpenAt(signal, p, now)
               /\ dayPnl' = pnl /\ dayTrades' = trades
            \/ /\ held.side # 0 /\ signal = -held.side
               /\ CloseAt(p, pnl, trades)
               /\ UNCHANGED opened
            \/ /\ IF held.side = 0 THEN signal = 0 ELSE signal # -held.side
               /\ held' = pos /\ dayPnl' = pnl /\ dayTrades' = trades
               /\ UNCHANGED <<capitalGain, takings, opened>>
  BY DEF ProcessBar
<1>4. /\ BacktestTypeOK /\ CapitalIsCash
      /\ held.side \in Sides /\ held.entry \in Int
      /\ held.side = 0 => pos = NotHeld /\ held = NotHeld
      /\ held.side # 0 => pos \in Positions
      /\ pos.side = held.side /\ pos.entry = held.entry
  BY HeldFacts, MarkedFacts DEF BacktestInv
<1>5. /\ close' \in Prices \cup {0} /\ barDay' \in -1..LastBarDay
      /\ barSlot' \in -1..LastSlot
      /\ rule' \in RuleNames /\ prepared' \in BOOLEAN /\ over' \in BOOLEAN
  <2>1. rule' \in RuleNames /\ prepared' \in BOOLEAN /\ over' \in BOOLEAN
    BY <1>2 DEF BacktestInv, BacktestTypeOK
  <2>2. d \in -1..LastBarDay /\ s \in -1..LastSlot
    BY BacktestAssumption
  <2> QED
    BY <1>2, <2>1, <2>2
<1> HIDE DEF now, newDay, pnl, trades, pos
(* A position that is kept: its money is, and it is justified.             *)
<1>6. ASSUME stays, held' = pos, dayPnl' = pnl, dayTrades' = trades,
             UNCHANGED <<capitalGain, takings>>
      PROVE  /\ held' = NotHeld \/ held' \in Positions
             /\ held'.side = held.side
             /\ dayPnl' \in Int /\ dayTrades' \in Nat
             /\ capitalGain' \in Int /\ takings' \in Int
             /\ CapitalIsCash' /\ HoldingJustified'
  <2>1. CapitalIsCash' /\ capitalGain' \in Int /\ takings' \in Int
    BY <1>4, <1>6 DEF BacktestTypeOK, CapitalIsCash
  <2>2. HoldingJustified'
    <3>1. CASE held.side = 0
      BY <1>4, <1>6, <3>1 DEF HoldingJustified
    <3>2. CASE held.side # 0
      BY <1>1, <1>2, <1>4, <1>6, <3>2, KeptIsJustified DEF pos, now
    <3> QED
      BY <3>1, <3>2
  <2> QED
    BY <1>1, <1>4, <1>6, <2>1, <2>2
<1>7. ASSUME CloseAt(p, pnl, trades)
      PROVE  /\ held' = NotHeld /\ held'.side = 0
             /\ dayPnl' \in Int /\ dayTrades' \in Nat
             /\ capitalGain' \in Int /\ takings' \in Int
             /\ CapitalIsCash' /\ HoldingJustified'
  <2>1. /\ held' = NotHeld /\ dayTrades' = trades + 1
        /\ capitalGain' \in Int /\ takings' \in Int /\ dayPnl' \in Int
        /\ CapitalIsCash'
    BY <1>1, <1>4, <1>7, CloseFacts
  <2>2. held'.side = 0
    BY <2>1 DEF NotHeld
  <2> QED
    BY <1>1, <2>1, <2>2 DEF HoldingJustified
<1>8. CASE /\ held.side # 0 /\ CloseAt(p, pnl, trades)
           /\ overruled' = overruled + 1
           /\ UNCHANGED <<memory, opened>>
  <2>1. overruled' \in Nat /\ overruled' # 0 /\ opened' \in 0..MaxEntries
        /\ memory' \in Memories
    BY <1>4, <1>8 DEF BacktestTypeOK, Memories, Sides
  <2>2. BacktestTypeOK'
    BY <1>5, <1>7, <1>8, <2>1 DEF BacktestTypeOK, Memories, Sides
  <2>3. ViewIsJudged' /\ RuleTimeStop'
    BY <1>2, <1>8 DEF BacktestInv, ViewIsJudged, RuleTimeStop, Cold
  <2> QED
    BY <1>7, <1>8, <2>1, <2>2, <2>3 DEF BacktestInv, ViewUntilOverruled
<1>9. CASE /\ stays /\ held' = pos /\ dayPnl' = pnl /\ dayTrades' = trades
           /\ UNCHANGED <<memory, capitalGain, takings, opened, overruled>>
  <2>1. overruled' \in Nat /\ opened' \in 0..MaxEntries /\ memory' \in Memories
    BY <1>4, <1>9 DEF BacktestTypeOK, Memories, Sides
  <2>2. BacktestTypeOK'
    BY <1>5, <1>6, <1>9, <2>1 DEF BacktestTypeOK, Memories, Sides, Positions
  <2>3. ViewIsJudged' /\ RuleTimeStop'
    BY <1>2, <1>9 DEF BacktestInv, ViewIsJudged, RuleTimeStop, Cold
  <2>4. ViewUntilOverruled'
    BY <1>6, <1>9 DEF BacktestInv, ViewUntilOverruled
  <2> QED
    BY <1>6, <1>9, <2>2, <2>3, <2>4 DEF BacktestInv
<1>10. CASE /\ stays /\ s \in EntrySlots /\ MayTrade(pnl, trades)
            /\ \E regime \in IF prepared THEN Regimes ELSE {NoRegime} :
                  signal \in SignalsOf(rule, Shown, regime)
            /\ memory' = Told(Shown, signal)
            /\ UNCHANGED overruled
            /\ \/ /\ held.side = 0 /\ signal # 0 /\ opened < MaxEntries
                  /\ OpenAt(signal, p, now)
                  /\ dayPnl' = pnl /\ dayTrades' = trades
               \/ /\ held.side # 0 /\ signal = -held.side
                  /\ CloseAt(p, pnl, trades)
                  /\ UNCHANGED opened
               \/ /\ IF held.side = 0 THEN signal = 0 ELSE signal # -held.side
                  /\ held' = pos /\ dayPnl' = pnl /\ dayTrades' = trades
                  /\ UNCHANGED <<capitalGain, takings, opened>>
  <2>1. /\ memory' \in Memories /\ ViewIsJudged' /\ RuleTimeStop'
        /\ memory'.view = IF signal = 0 \/ memory.view = signal THEN memory.view
                          ELSE memory.view + signal
    BY <1>2, <1>10, AnswerKeepsRules
  <2>2. overruled' \in Nat /\ (overruled = 0 => memory.view = held.side)
    BY <1>4, <1>10 DEF BacktestInv, BacktestTypeOK, ViewUntilOverruled
  <2>3. CASE /\ held.side = 0 /\ signal # 0 /\ opened < MaxEntries
             /\ OpenAt(signal, p, now)
             /\ dayPnl' = pnl /\ dayTrades' = trades
    <3>1. /\ held' \in Positions /\ held'.side = signal /\ held'.since = now
          /\ Profit(held', p) = -Slippage
          /\ opened' = opened + 1
          /\ capitalGain' \in Int /\ takings' \in Int
          /\ CapitalIsCash'
      BY <1>1, <1>4, <2>3, OpenFacts
    <3>2. opened' \in 0..MaxEntries
      BY <1>4, <2>3, <3>1, BacktestAssumption DEF BacktestTypeOK
    <3>3. BacktestTypeOK'
      BY <1>1, <1>5, <2>1, <2>2, <2>3, <3>1, <3>2 DEF BacktestTypeOK, Memories, Sides,
         Positions
    <3>4. HoldingJustified'
      <4>1. Profit(held', close') < TakeProfit
        BY <1>2, <3>1, BacktestAssumption
      <4>2. held'.since = Stamp(barDay', barSlot')
        BY <1>2, <3>1 DEF now
      <4>3. Stamp(barDay', barSlot') - held'.since < TimeStop
        BY <1>1, <3>1, <4>2, BacktestAssumption
      <4>4. barSlot' \notin ForceSlots /\ MayTrade(dayPnl', dayTrades')
        BY <1>2, <1>10, <2>3, BacktestAssumption
      <4> QED
        BY <4>1, <4>2, <4>3, <4>4
           DEF HoldingJustified, Profit, Stamp, MayTrade, LossLimit
    <3>5. ViewUntilOverruled'
      BY <1>10, <2>1, <2>2, <2>3, <3>1 DEF ViewUntilOverruled
    <3> QED
      BY <2>1, <3>1, <3>3, <3>4, <3>5 DEF BacktestInv
  <2>4. CASE /\ held.side # 0 /\ signal = -held.side
             /\ CloseAt(p, pnl, trades)
             /\ UNCHANGED opened
    <3>1. opened' \in 0..MaxEntries
      BY <1>4, <2>4 DEF BacktestTypeOK
    <3>2. BacktestTypeOK'
      BY <1>5, <1>7, <2>1, <2>2, <2>4, <3>1 DEF BacktestTypeOK, Memories, Sides
    <3>3. ViewUntilOverruled'
      <4>1. held.side \in {-1, 1}
        BY <1>4, <2>4 DEF Sides
      <4>2. overruled = 0 => memory'.view = 0
        BY <2>1, <2>2, <2>4, <4>1
      <4> QED
        BY <1>7, <1>10, <2>4, <4>2 DEF ViewUntilOverruled
    <3> QED
      BY <1>7, <2>1, <2>4, <3>2, <3>3 DEF BacktestInv
  <2>5. CASE /\ IF held.side = 0 THEN signal = 0 ELSE signal # -held.side
             /\ held' = pos /\ dayPnl' = pnl /\ dayTrades' = trades
             /\ UNCHANGED <<capitalGain, takings, opened>>
    <3>1. opened' \in 0..MaxEntries
      BY <1>4, <2>5 DEF BacktestTypeOK
    <3>2. BacktestTypeOK'
      BY <1>5, <1>6, <1>10, <2>1, <2>2, <2>5, <3>1 DEF BacktestTypeOK, Memories, Sides,
         Positions
    <3>3. ViewUntilOverruled'
      <4>1. held.side \in {-1, 0, 1}
        BY <1>4 DEF Sides
      <4>2. signal = 0 \/ signal = held.side
        BY <2>5, <4>1
      <4> QED
        BY <1>6, <1>10, <2>1, <2>2, <2>5, <4>2 DEF ViewUntilOverruled
    <3> QED
      BY <1>6, <1>10, <2>1, <2>5, <3>2, <3>3 DEF BacktestInv
  <2> QED
    BY <1>10, <2>3, <2>4, <2>5
<1> QED
  BY <1>3, <1>8, <1>9, <1>10

(* The end of a run closes what is held.                                   *)
LEMMA FinishRunKeeps ==
    ASSUME BacktestInv, FinishRun  PROVE BacktestInv'
<1>1. /\ over' = TRUE
      /\ UNCHANGED <<barDay, barSlot, close, rule, prepared, memory, opened>>
  BY DEF FinishRun
<1>2. ViewIsJudged' /\ RuleTimeStop'
  BY <1>1 DEF BacktestInv, ViewIsJudged, RuleTimeStop, Cold
<1>3. CASE held.side = 0
  <2>1. UNCHANGED <<held, capitalGain, dayPnl, dayTrades, takings, overruled>>
    BY <1>3 DEF FinishRun
  <2> QED
    BY <1>1, <1>2, <2>1 DEF BacktestInv, BacktestTypeOK, CapitalIsCash,
       HoldingJustified, ViewUntilOverruled, Profit, Stamp, MayTrade, LossLimit
<1>4. CASE held.side # 0
  <2>1. CloseAt(close, dayPnl, dayTrades) /\ overruled' = overruled + 1
    BY <1>4 DEF FinishRun
  <2>2. /\ BacktestTypeOK /\ CapitalIsCash
        /\ close \in Int /\ dayPnl \in Int /\ dayTrades \in Nat
    BY BacktestAssumption DEF BacktestInv, BacktestTypeOK
  <2>3. /\ held' = NotHeld /\ dayTrades' = dayTrades + 1
        /\ capitalGain' \in Int /\ takings' \in Int /\ dayPnl' \in Int
        /\ CapitalIsCash'
    BY <2>1, <2>2, CloseFacts
  <2>4. overruled' \in Nat /\ overruled' # 0 /\ dayTrades' \in Nat
    BY <2>1, <2>2, <2>3 DEF BacktestTypeOK
  <2>5. held'.side = 0
    BY <2>3 DEF NotHeld
  <2>6. BacktestTypeOK'
    BY <1>1, <2>2, <2>3, <2>4 DEF BacktestTypeOK
  <2> QED
    BY <1>2, <2>3, <2>4, <2>5, <2>6 DEF BacktestInv, HoldingJustified,
       ViewUntilOverruled
<1> QED
  BY <1>3, <1>4

-----------------------------------------------------------------------------
(* Every bar and the end of a run keep the invariant.                      *)
LEMMA BacktestKeeps == BacktestInv /\ [BacktestNext]_backtestVars => BacktestInv'
<1> SUFFICES ASSUME BacktestInv, [BacktestNext]_backtestVars PROVE BacktestInv'
  OBVIOUS
<1>1. CASE BacktestNext
  BY <1>1, ProcessBarKeeps, FinishRunKeeps DEF BacktestNext
<1>2. CASE UNCHANGED backtestVars
  BY <1>2 DEF backtestVars, BacktestInv, BacktestTypeOK, ViewIsJudged,
     CapitalIsCash, HoldingJustified, ViewUntilOverruled, RuleTimeStop, Cold,
     Profit, Stamp, MayTrade, LossLimit
<1> QED
  BY <1>1, <1>2

(* The two books of a position, in every reachable state of a run, alone and *)
(* beside the other parts.                                                 *)
THEOREM BacktestInvariant == (BacktestSpec => []BacktestInv) /\ (Spec => []BacktestInv)
<1>1. Init => BacktestInit
  BY DEF Init
<1>2. [Next]_componentVars => [BacktestNext]_backtestVars
  BY DEF Next, componentVars, BrokerPart, CandlePart, BackfillPart, BacktestPart,
         ContractPart, WorkbenchPart, SupportPart
<1> QED
  BY <1>1, <1>2, InitBacktestInv, BacktestKeeps, PTL DEF BacktestSpec, Spec

(* For any prices, gaps between bars, costs, limits and strategies, the    *)
(* capital is the cash the trades made, a position is only held within its *)
(* limits, and the strategy's position is the engine's until the engine    *)
(* closes one on its own, and keeps its own time limit even then.          *)
THEOREM BacktestIsSound == (BacktestSpec => []BacktestSound) /\ (Spec => []BacktestSound)
<1>1. BacktestInv => BacktestSound
  BY DEF BacktestInv, BacktestSound
<1> QED
  BY <1>1, BacktestInvariant, PTL

-----------------------------------------------------------------------------
(* The backfill                                                            *)
(*                                                                         *)
(* Pages come from the end of a day to its beginning, and a batch may end  *)
(* at any of them.  What a code has been fetched of is all there is from   *)
(* the cursor to the end of the day, or to the second at which its first   *)
(* page came; so what is stored can lack records only in the minute at     *)
(* either border, and these are the minutes noted as cut.                  *)

(* What may be stored of a code: records of the day, each once, whole      *)
(* minutes but for those that were cut, and nothing missing after the      *)
(* first of them unless the day was fetched before it was over.            *)
Storable(c) ==
    LET t == <<c, day>>
    IN  /\ \A s \in Second : output[c][s] \in {0, 1} /\ (output[c][s] = 1 => s \in traded[t])
        /\ \A s \in traded[t] :
              MinuteOf(s) \in Bars(output[c]) /\ output[c][s] = 0 => <<c, MinuteOf(s)>> \in cut
        /\ t \notin young =>
              \A s, u \in traded[t] : s < u /\ output[c][s] = 1 => output[c][u] = 1

(* What has been fetched of a code is the records after low up to high,    *)
(* which was the end of the day or the present when the first page came.   *)
Reaches(c, low, high) ==
    /\ \A s \in Second :
          output[c][s] = IF s \in traded[<<c, day>>] /\ low < s /\ s <= high THEN 1 ELSE 0
    /\ \/ high = LastSecond
       \/ /\ <<c, day>> \in young
          /\ high % MinuteLength = 0 \/ <<c, MinuteOf(high)>> \in cut

(* The task that is being fetched has been fetched down to the cursor.     *)
UnderWay ==
    /\ Batch # {} /\ (day = Today => cursor <= elapsed)
    /\ \E high \in 0..LastSecond : cursor < high /\ Reaches(Current[1], cursor, high)

(* The others of the batch are done, or have yet to begin.                 *)
BatchInOrder ==
    /\ \A c \in Codes : Storable(c) \/ (page > 0 /\ c = Current[1])
    /\ \A t \in Batch : output[t[1]] = Nothing \/ (page > 0 /\ t = Current)
    /\ page < MaxPages /\ (page = 0 => cursor = LastSecond)
    /\ page > 0 => UnderWay

BackfillInv ==
    /\ BackfillTypeOK /\ BarsWhole /\ NoHoles
    /\ day # 0 => BatchInOrder

-----------------------------------------------------------------------------
(* Minutes and days                                                        *)

(* The sizes of days, minutes and pages are numbers.                       *)
LEMMA BackfillNumbers ==
    /\ LastSecond \in Nat \ {0} /\ MinuteLength \in Nat \ {0} /\ PageSize \in Nat \ {0}
    /\ MaxPages \in Nat \ {0} /\ MaxBroken \in Nat /\ Days \subseteq Nat
  BY BackfillAssumption

(* Minutes come one after the other.                                       *)
LEMMA MinutesInOrder ==
    /\ \A s \in Nat : MinuteOf(s) \in Int
    /\ \A s, u \in Nat : s <= u => MinuteOf(s) <= MinuteOf(u)
    /\ \A s, u, h \in Nat : s <= h /\ h < u /\ h % MinuteLength = 0 => MinuteOf(s) < MinuteOf(u)
  <1> DEFINE M == MinuteLength
  <1>1. M \in Nat \ {0}
    BY BackfillNumbers
  <1>. HIDE DEF M
  <1>2. \A x \in Int : /\ x \div M \in Int /\ x % M \in 0..M - 1
                       /\ x = M * (x \div M) + (x % M)
    BY <1>1
  <1>3. \A p, q \in Int : p >= q + 1 => M * p >= M * q + M
    BY <1>1
  <1>4. ASSUME NEW x \in Int, NEW y \in Int, x <= y PROVE x \div M <= y \div M
    <2>1. SUFFICES ASSUME x \div M >= (y \div M) + 1 PROVE FALSE
      BY <1>2
    <2>2. M * (x \div M) >= M * (y \div M) + M
      BY <1>2, <1>3, <2>1
    <2>. QED
      BY <1>1, <1>2, <1>4, <2>2
  <1>5. ASSUME NEW s \in Nat, NEW u \in Nat, NEW h \in Nat, s <= h, h < u, h % M = 0
        PROVE  (s - 1) \div M < (u - 1) \div M
    <2>0. h \in Int /\ h = M * (h \div M) + (h % M) /\ h \div M \in Int
      BY <1>2
    <2>1. h = M * (h \div M) /\ h \div M \in Int
      <3>1. M * (h \div M) \in Int
        BY <1>1, <2>0
      <3>. QED
        BY <1>5, <2>0, <3>1
    <2>2. (u - 1) \div M >= h \div M
      BY <1>4, <1>5
    <2>3. (s - 1) \div M <= (h \div M) - 1
      <3>1. SUFFICES ASSUME (s - 1) \div M >= h \div M PROVE FALSE
        BY <1>2, <2>1
      <3>2. M * ((s - 1) \div M) >= M * (h \div M)
        BY <1>1, <1>2, <2>1, <3>1
      <3>. QED
        BY <1>1, <1>2, <1>5, <2>1, <3>2
    <2>. QED
      BY <1>2, <2>1, <2>2, <2>3
  <1>6. \A s \in Nat : MinuteOf(s) = (s - 1) \div M
    BY DEF MinuteOf, M
  <1>7. \A s \in Nat : s - 1 \in Int
    OBVIOUS
  <1>8. \A s, u \in Nat : s <= u => s - 1 <= u - 1
    OBVIOUS
  <1>. QED
    BY <1>2, <1>4, <1>5, <1>6, <1>7, <1>8 DEF M

(* Today is a day, and so is the last one of the tasks left.               *)
LEMMA DaysFacts ==
    /\ Today \in Days
    /\ \A left \in SUBSET Tasks : left # {} => Max({t[2] : t \in left}) \in Days
  <1>1. Days \in SUBSET Nat /\ IsFiniteSet(Days) /\ Days # {}
    BY BackfillAssumption
  <1>2. ASSUME NEW left \in SUBSET Tasks, left # {}
        PROVE  Max({t[2] : t \in left}) \in Days
    <2> DEFINE T == {t[2] : t \in left}
    <2>1. T \in SUBSET Days /\ T # {}
      BY <1>2 DEF Tasks
    <2> HIDE DEF T
    <2>2. IsFiniteSet(T)
      BY <1>1, <2>1, FS_Subset, Zenon
    <2>3. T \in SUBSET Int
      BY <1>1, <2>1
    <2>4. Max(T) \in T
      BY <2>1, <2>2, <2>3, LastIs
    <2>. QED
      BY <2>1, <2>4 DEF T
  <1>3. Max(Days) \in Days
    <2>1. Days \in SUBSET Int
      BY <1>1
    <2>. QED
      BY <1>1, <2>1, LastIs
  <1>. QED
    BY <1>2, <1>3 DEF Today

-----------------------------------------------------------------------------
(* A page                                                                  *)

Reachable == {s \in Available : s \leq cursor}

(* A page has the latest of the records up to the cursor, and all of them  *)
(* unless it is full.                                                      *)
LEMMA PageFacts ==
    ASSUME BackfillTypeOK, Current \in Tasks
    PROVE  /\ Page \in SUBSET Reachable /\ Reachable \in SUBSET Second /\ IsFiniteSet(Page)
           /\ \A s \in Page, x \in Reachable : s < x => x \in Page
           /\ Cardinality(Page) # PageSize => Page = Reachable
           /\ Cardinality(Page) = PageSize => Page # {}
  <1> DEFINE Later(s) == {x \in Reachable : x > s}
  <1>1. /\ Reachable \in SUBSET Second /\ Second \in SUBSET Nat /\ LastSecond \in Nat
        /\ PageSize \in Nat \ {0}
    BY BackfillNumbers DEF BackfillTypeOK, Reachable, Available, Second
  <1>2. Page = {s \in Reachable : Cardinality(Later(s)) < PageSize}
    BY DEF Page, Reachable
  <1>. HIDE DEF Reachable
  <1>3. \A T \in SUBSET Second : IsFiniteSet(T) /\ Cardinality(T) \in Nat
    <2>1. IsFiniteSet(Second)
      BY <1>1, FS_Interval DEF Second
    <2>2. ASSUME NEW T \in SUBSET Second PROVE IsFiniteSet(T)
      BY <2>1, FS_Subset
    <2>. QED
      BY <2>2, FS_CardinalityType
  <1>4. \A s : Later(s) \in SUBSET Second
    BY <1>1
  <1>5. ASSUME NEW s \in Page, NEW x \in Reachable, s < x PROVE x \in Page
    <2>1. Later(x) \in SUBSET Later(s)
      <3>1. s \in Nat /\ x \in Nat /\ \A y \in Reachable : y \in Nat
        BY <1>1, <1>2
      <3>2. \A y \in Reachable : y > x => y > s
        BY <1>5, <3>1
      <3>. QED
        BY <3>2
    <2>2. Cardinality(Later(x)) <= Cardinality(Later(s))
      BY <1>3, <1>4, <2>1, FS_Subset
    <2>3. Cardinality(Later(x)) \in Nat /\ Cardinality(Later(s)) \in Nat
      BY <1>3, <1>4
    <2>4. Cardinality(Later(s)) < PageSize
      BY <1>2
    <2>5. Cardinality(Later(x)) < PageSize
      BY <1>1, <2>2, <2>3, <2>4
    <2>. QED
      BY <1>2, <2>5
  <1>6. ASSUME Page # Reachable PROVE Cardinality(Page) = PageSize
    <2>1. Reachable \ Page \in SUBSET (0..LastSecond) /\ Reachable \ Page # {}
      <3>1. 1..LastSecond \subseteq 0..LastSecond
        BY <1>1
      <3>. QED
        BY <1>1, <1>2, <1>6, <3>1 DEF Second
    <2>2. PICK s \in Reachable \ Page : \A x \in Reachable \ Page : x <= s
      BY <1>1, <2>1, GreatestIs
    <2>3. s \in Nat /\ Page \in SUBSET Nat
      BY <1>1, <1>2
    <2>4. Page = Later(s)
      <3>1. ASSUME NEW p \in Page PROVE p \in Later(s)
        <4>1. p \in Reachable /\ p # s /\ ~(p < s)
          BY <1>2, <1>5, <2>2
        <4>. QED
          BY <2>3, <4>1
      <3>2. ASSUME NEW x \in Later(s) PROVE x \in Page
        BY <1>1, <2>2, <2>3
      <3>. QED
        BY <3>1, <3>2
    <2>5. Cardinality(Page) >= PageSize
      <3>1. ~(Cardinality(Later(s)) < PageSize)
        BY <1>2, <2>2
      <3>2. Cardinality(Later(s)) \in Nat
        BY <1>3, <1>4
      <3>. QED
        BY <1>1, <2>4, <3>1, <3>2
    <2>6. Page # {} /\ Page \in SUBSET Nat
      BY <1>1, <2>3, <2>5, FS_EmptySet
    <2>7. Min(Page) \in Page /\ \A x \in Page : Min(Page) <= x
      BY <2>6, LeastIs
    <2>8. PICK m \in Page : \A x \in Page : m <= x
      BY <2>7
    <2>9. Page \ {m} = Later(m)
      <3>1. \A x \in Page \ {m} : x \in Later(m)
        BY <1>2, <2>6, <2>8
      <3>2. \A x \in Later(m) : x \in Page \ {m}
        BY <1>1, <1>5, <2>6, <2>8
      <3>. QED
        BY <3>1, <3>2
    <2>10. Cardinality(Later(m)) = Cardinality(Page) - 1
      <3>1. IsFiniteSet(Page)
        <4>1. Page \in SUBSET Second
          BY <1>1, <1>2
        <4>. QED
          BY <4>1, <1>3
      <3>2. Cardinality(Page \ {m}) = Cardinality(Page) - 1
        BY <2>8, <3>1, FS_RemoveElement
      <3>. QED
        BY <2>9, <3>2
    <2>11. Cardinality(Later(m)) < PageSize /\ Cardinality(Page) \in Nat
      BY <1>1, <1>2, <1>3, <2>8
    <2>. QED
      BY <1>1, <2>5, <2>10, <2>11
  <1>7. Cardinality(Page) = PageSize => Page # {}
    BY <1>1, FS_EmptySet
  <1>8. Page \in SUBSET Reachable /\ IsFiniteSet(Page)
    BY <1>1, <1>2, <1>3
  <1>. QED
    BY <1>1, <1>5, <1>6, <1>7, <1>8

(* The task that is fetched next.                                          *)
LEMMA CurrentFacts ==
    ASSUME BackfillTypeOK, Batch # {}
    PROVE  /\ Current \in Batch /\ Current \in tasks /\ Current \in Tasks
           /\ Current[1] \in Codes /\ Current[2] = day /\ Current = <<Current[1], day>>
           /\ day \in Days
  <1>1. Current \in Batch
    BY DEF Current
  <1>2. Current \in tasks /\ Current[2] = day /\ Current \in Codes \X Days
    BY <1>1 DEF Batch, BackfillTypeOK, Tasks
  <1>. QED
    BY <1>1, <1>2 DEF Tasks

(* Which minutes have a bar.                                               *)
LEMMA BarsAre ==
    ASSUME NEW f, NEW s \in Second
    PROVE  MinuteOf(s) \in Bars(f) <=> \E x \in Second : MinuteOf(x) = MinuteOf(s) /\ f[x] > 0
  BY DEF Bars

(* A code fetched down to the first record of the day, or to a minute that *)
(* is known to be cut, may be stored.                                      *)
LEMMA ReachedIsStorable ==
    ASSUME NEW c \in Codes, NEW low \in 0..LastSecond, NEW high \in 0..LastSecond,
           traded[<<c, day>>] \subseteq Second, Reaches(c, low, high),
           low = 0 \/ <<c, MinuteOf(low + 1)>> \in cut
    PROVE  Storable(c)
  <1> DEFINE t == <<c, day>>
  <1>1. /\ low \in Nat /\ high \in Nat /\ low + 1 \in Nat /\ Second \subseteq Nat
        /\ \A s \in Second : 1 <= s /\ s <= LastSecond
        /\ LastSecond \in Nat
    BY BackfillNumbers DEF Second
  <1>2. \A s \in Second : output[c][s] = IF s \in traded[t] /\ low < s /\ s <= high THEN 1 ELSE 0
    BY DEF Reaches
  <1>3. high = LastSecond \/
        (t \in young /\ (high % MinuteLength = 0 \/ <<c, MinuteOf(high)>> \in cut))
    BY DEF Reaches
  <1>4. \A s \in Second : output[c][s] \in {0, 1} /\ (output[c][s] = 1 => s \in traded[t])
    BY <1>2
  <1>5. ASSUME NEW s \in traded[t], MinuteOf(s) \in Bars(output[c]), output[c][s] = 0
        PROVE  <<c, MinuteOf(s)>> \in cut
    <2>1. s \in Second
      OBVIOUS
    <2>2. PICK x \in Second : MinuteOf(x) = MinuteOf(s) /\ output[c][x] > 0
      BY <1>5, <2>1, BarsAre
    <2>3. low < x /\ x <= high
      BY <1>2, <2>2
    <2>4. ~(low < s /\ s <= high)
      BY <1>2, <1>5, <2>1
    <2>5. CASE s <= low
      <3>1. s <= low + 1 /\ low + 1 <= x /\ low # 0
        BY <1>1, <2>1, <2>3, <2>5
      <3>2. MinuteOf(s) <= MinuteOf(low + 1) /\ MinuteOf(low + 1) <= MinuteOf(x)
        BY <1>1, <2>1, <3>1, MinutesInOrder
      <3>3. MinuteOf(low + 1) = MinuteOf(s)
        BY <1>1, <2>1, <2>2, <3>2, MinutesInOrder
      <3>. QED
        BY <3>1, <3>3
    <2>6. CASE high < s
      <3>1. high # LastSecond
        BY <1>1, <2>1, <2>6
      <3>2. ~(high % MinuteLength = 0)
        <4>1. high % MinuteLength = 0 => MinuteOf(x) < MinuteOf(s)
          BY <1>1, <2>1, <2>3, <2>6, MinutesInOrder
        <4>. QED
          BY <1>1, <2>1, <2>2, <4>1, MinutesInOrder
      <3>3. MinuteOf(x) <= MinuteOf(high) /\ MinuteOf(high) <= MinuteOf(s)
        BY <1>1, <2>1, <2>3, <2>6, MinutesInOrder
      <3>4. MinuteOf(high) = MinuteOf(s)
        BY <1>1, <2>1, <2>2, <3>3, MinutesInOrder
      <3>. QED
        BY <1>3, <3>1, <3>2, <3>4
    <2>. QED
      BY <1>1, <2>1, <2>4, <2>5, <2>6
  <1>6. ASSUME t \notin young, NEW s \in traded[t], NEW u \in traded[t], s < u, output[c][s] = 1
        PROVE  output[c][u] = 1
    <2>1. s \in Second /\ u \in Second /\ high = LastSecond
      BY <1>3, <1>6
    <2>2. low < s
      BY <1>2, <1>6, <2>1
    <2>3. low < u /\ u <= high
      BY <1>1, <1>6, <2>1, <2>2
    <2>. QED
      BY <1>2, <2>1, <2>3
  <1>. QED
    BY <1>4, <1>5, <1>6 DEF Storable

(* A code may be stored still when more is known to be cut or young.       *)
LEMMA StorableStays ==
    ASSUME NEW c, Storable(c), day' = day, output'[c] = output[c], traded' = traded,
           cut \subseteq cut', young \subseteq young'
    PROVE  Storable(c)'
  <1>1. Bars(output[c])' = Bars(output[c])
    BY DEF Bars
  <1>. QED
    BY <1>1 DEF Storable

(* The next day of a run begins with nothing fetched.                      *)
LEMMA NextDayIsInOrder ==
    ASSUME BackfillTypeOK, NEW left \in SUBSET Tasks, NextDay(left), UNCHANGED traded
    PROVE  /\ day' \in Days \cup {0} /\ tasks' \subseteq Tasks
           /\ output' \in [Codes -> [Second -> Nat]]
           /\ page' \in 0..MaxPages /\ cursor' \in 0..LastSecond
           /\ cut' \subseteq Codes \X Minutes
           /\ (day # 0 => BatchInOrder)'
  <1>1. /\ output' = [c \in Codes |-> Nothing] /\ page' = 0 /\ cursor' = LastSecond
        /\ cut' = {} /\ tasks' = left
    BY DEF NextDay
  <1>2. day' \in Days \cup {0}
    BY DaysFacts DEF NextDay
  <1>3. 0 \in 0..MaxPages /\ LastSecond \in 0..LastSecond /\ Nothing \in [Second -> Nat]
    BY BackfillNumbers DEF Nothing
  <1>4. day' # 0 => \A c \in Codes : Storable(c)'
    <2>1. SUFFICES ASSUME day' # 0, NEW c \in Codes PROVE Storable(c)'
      OBVIOUS
    <2>2. \A s \in Second : output'[c][s] = 0
      BY <1>1 DEF Nothing
    <2>3. Bars(output[c])' = {}
      BY <2>2 DEF Bars
    <2>4. traded'[<<c, day'>>] \subseteq Second
      BY <1>2, <2>1 DEF BackfillTypeOK, Tasks
    <2>5. \A s \in traded'[<<c, day'>>], u \in traded'[<<c, day'>>] : s \in Second => output'[c][s] # 1
      BY <2>2
    <2>. QED
      BY <2>2, <2>3, <2>4, <2>5 DEF Storable
  <1>5. \A t \in Batch' : (output[t[1]])' = Nothing
    <2>1. \A t \in Batch' : t[1] \in Codes
      BY <1>1 DEF Batch, Tasks
    <2>. QED
      BY <1>1, <2>1
  <1>6. (day # 0 => BatchInOrder)'
    BY <1>1, <1>4, <1>5, BackfillNumbers DEF BatchInOrder
  <1>. QED
    BY <1>1, <1>2, <1>3, <1>6

(* With a task done, the rest of the batch is as it was.                   *)
LEMMA TaskDoneKeeps ==
    ASSUME BackfillTypeOK, BatchInOrder, Batch # {}, TaskDone, NEW k, k = Current[1],
           day' = day, traded' = traded, cut \subseteq cut', young \subseteq young',
           \A c \in Codes \ {k} : output'[c] = output[c], Storable(k)'
    PROVE  BatchInOrder'
  <1>1. page' = 0 /\ cursor' = LastSecond /\ tasks' = tasks \ {Current}
    BY DEF TaskDone
  <1>2. Current = <<k, day>>
    BY CurrentFacts
  <1>3. ASSUME NEW c \in Codes PROVE Storable(c)'
    <2>1. CASE c # k
      <3>1. Storable(c) /\ output'[c] = output[c]
        BY <2>1 DEF BatchInOrder
      <3>. QED
        BY <3>1, StorableStays
    <2>. QED
      BY <2>1
  <1>4. ASSUME NEW t \in Batch' PROVE (output[t[1]])' = Nothing
    <2>1. t \in Batch /\ t # Current /\ t[1] \in Codes /\ t = <<t[1], day>>
      BY <1>1 DEF Batch, BackfillTypeOK, Tasks
    <2>2. t[1] # k
      BY <1>2, <2>1
    <2>3. output[t[1]] = Nothing
      BY <2>1 DEF BatchInOrder
    <2>. QED
      BY <2>1, <2>2, <2>3
  <1>5. ~(page' > 0) /\ page' < MaxPages
    BY <1>1, BackfillNumbers
  <1>. QED
    BY <1>1, <1>3, <1>4, <1>5 DEF BatchInOrder

(* Up to where a task has been fetched when its next page is asked for.    *)
Top == IF day = Today /\ elapsed < cursor THEN elapsed ELSE cursor

(* With the cursor at the top, everything after it has been fetched.       *)
LEMMA BeforeThePage ==
    ASSUME BackfillTypeOK, day # 0, BatchInOrder, Batch # {}, NEW c, c = Current[1]
    PROVE  /\ Top \in 0..LastSecond
           /\ Reachable = {s \in traded[<<c, day>>] : s <= Top}
           /\ traded[<<c, day>>] \subseteq Second /\ c \in Codes /\ <<c, day>> = Current
           /\ \E high \in 0..LastSecond :
                /\ Top <= high
                /\ \A s \in Second :
                     output[c][s] = IF s \in traded[<<c, day>>] /\ Top < s /\ s <= high
                                    THEN 1 ELSE 0
                /\ page = 0 => high = Top /\ (high = LastSecond \/ (day = Today /\ high = elapsed))
                /\ page > 0 => \/ high = LastSecond
                               \/ /\ <<c, day>> \in young
                                  /\ high % MinuteLength = 0 \/ <<c, MinuteOf(high)>> \in cut
  <1>1. Current = <<c, day>> /\ c \in Codes /\ day \in Days /\ Current \in Batch
    BY CurrentFacts
  <1>2. /\ LastSecond \in Nat \ {0} /\ elapsed \in 0..LastSecond /\ cursor \in 0..LastSecond
        /\ page \in Nat /\ traded[<<c, day>>] \subseteq Second
    BY <1>1, BackfillNumbers DEF BackfillTypeOK, Tasks
  <1>3. Top \in 0..LastSecond
    BY <1>2 DEF Top
  <1>4. Reachable = {s \in traded[<<c, day>>] : s <= Top}
    <2>1. Reachable = {s \in traded[<<c, day>>] : (day = Today => s <= elapsed) /\ s <= cursor}
      BY <1>1 DEF Reachable, Available
    <2>2. \A s \in traded[<<c, day>>] : s \in Nat
      BY <1>2 DEF Second
    <2>3. \A s \in traded[<<c, day>>] : ((day = Today => s <= elapsed) /\ s <= cursor) <=> s <= Top
      BY <1>2, <2>2 DEF Top
    <2>. QED
      BY <2>1, <2>3
  <1>5. CASE page = 0
    <2>1. output[c] = Nothing /\ cursor = LastSecond
      BY <1>1, <1>5 DEF BatchInOrder
    <2>2. \A s \in Second : output[c][s] = 0 /\ ~(Top < s /\ s <= Top)
      BY <1>2, <1>3, <2>1 DEF Nothing, Second
    <2>3. Top = LastSecond \/ (day = Today /\ Top = elapsed)
      BY <2>1 DEF Top
    <2>4. Top <= Top
      BY <1>3
    <2>. QED
      BY <1>1, <1>2, <1>3, <1>4, <1>5, <2>2, <2>3, <2>4
  <1>6. CASE page > 0
    <2>1. UnderWay
      BY <1>6 DEF BatchInOrder
    <2>2. PICK high \in 0..LastSecond : cursor < high /\ Reaches(Current[1], cursor, high)
      BY <2>1 DEF UnderWay
    <2>3. Top = cursor /\ Top <= high
      BY <1>2, <2>1, <2>2 DEF UnderWay, Top
    <2>. QED
      BY <1>1, <1>2, <1>3, <1>4, <1>6, <2>2, <2>3 DEF Reaches
  <1>. QED
    BY <1>2, <1>5, <1>6

(* With the page the task reaches further down: to before the earliest     *)
(* record of a full page, to the beginning of the day with another.        *)
LEMMA ThePageReaches ==
    ASSUME BackfillTypeOK, day # 0, BatchInOrder, Batch # {}, NEW k, k = Current[1], Gather
    PROVE  \E low, high \in 0..LastSecond :
              /\ low <= high /\ Reaches(k, low, high)'
              /\ IF Cardinality(Page) = PageSize
                 THEN /\ low = NextCursor(Page) /\ low < high /\ low < Top
                      /\ low + 1 = Min(Page) /\ Min(Page) \in Second
                 ELSE low = 0
  <1> DEFINE full == Cardinality(Page) = PageSize
             t == <<k, day>>
  <1>1. /\ Top \in 0..LastSecond /\ Reachable = {s \in traded[t] : s <= Top}
        /\ traded[t] \subseteq Second /\ k \in Codes /\ t = Current
    BY BeforeThePage
  <1>2. PICK high \in 0..LastSecond :
          /\ Top <= high
          /\ \A s \in Second :
               output[k][s] = IF s \in traded[t] /\ Top < s /\ s <= high THEN 1 ELSE 0
          /\ page = 0 => high = Top /\ (high = LastSecond \/ (day = Today /\ high = elapsed))
          /\ page > 0 => \/ high = LastSecond
                         \/ /\ t \in young
                            /\ high % MinuteLength = 0 \/ <<k, MinuteOf(high)>> \in cut
    BY BeforeThePage
  <1>3. /\ Page \in SUBSET Reachable /\ Reachable \in SUBSET Second
        /\ \A s \in Page, x \in Reachable : s < x => x \in Page
        /\ (~full => Page = Reachable) /\ (full => Page # {})
    BY <1>1, PageFacts, CurrentFacts
  <1>4. /\ LastSecond \in Nat \ {0} /\ Second \subseteq Nat /\ Top \in Nat /\ high \in Nat
        /\ elapsed \in 0..LastSecond /\ page \in Nat
        /\ \A s \in Second : 1 <= s /\ s <= LastSecond
    BY <1>1, BackfillNumbers DEF BackfillTypeOK, Second
  <1>5. full => /\ Min(Page) \in Page /\ \A x \in Page : Min(Page) <= x
                /\ Min(Page) \in Second /\ Min(Page) <= Top
    BY <1>1, <1>3, <1>4, LeastIs
  <1>6. PICK low \in 0..LastSecond :
          /\ low <= high
          /\ full => low = NextCursor(Page) /\ low + 1 = Min(Page) /\ low < Top /\ low < high
          /\ ~full => low = 0
    <2>1. CASE full
      <3>1. /\ Min(Page) \in Nat /\ 1 <= Min(Page) /\ Min(Page) <= Top /\ Top <= high
            /\ Min(Page) <= LastSecond
        BY <1>2, <1>4, <1>5, <2>1
      <3>2. \A m, p, h \in Nat : 1 <= m /\ m <= p /\ p <= h /\ m <= LastSecond =>
               m - 1 \in 0..LastSecond /\ m - 1 + 1 = m /\ m - 1 < p /\ m - 1 < h /\ m - 1 <= h
        BY <1>4
      <3>3. /\ Min(Page) - 1 \in 0..LastSecond /\ Min(Page) - 1 + 1 = Min(Page)
            /\ Min(Page) - 1 < Top /\ Min(Page) - 1 < high /\ Min(Page) - 1 <= high
        BY <1>4, <3>1, <3>2
      <3>. QED
        BY <2>1, <3>3 DEF NextCursor
    <2>2. CASE ~full
      BY <1>4, <2>2
    <2>. QED
      BY <2>1, <2>2
  <1>7. \A s \in Second : s \in Page <=> s \in traded[t] /\ low < s /\ s <= Top
    <2>1. CASE full
      <3>1. \A s \in Second : low < s <=> Min(Page) <= s
        BY <1>4, <1>5, <1>6, <2>1
      <3>2. \A s \in Page : s \in Reachable /\ Min(Page) <= s
        BY <1>3, <1>5, <2>1
      <3>3. \A s \in Reachable : Min(Page) <= s => s \in Page
        <4>1. \A s \in Reachable : s \in Nat /\ Min(Page) \in Nat
          BY <1>3, <1>4, <1>5, <2>1
        <4>2. \A s \in Reachable : Min(Page) <= s => s = Min(Page) \/ Min(Page) < s
          BY <4>1
        <4>3. Min(Page) \in Page
          BY <1>5, <2>1
        <4>. QED
          BY <1>3, <4>2, <4>3
      <3>. QED
        BY <1>1, <3>1, <3>2, <3>3
    <2>2. CASE ~full
      <3>1. \A s \in Second : low < s
        BY <1>4, <1>6, <2>2
      <3>. QED
        BY <1>1, <1>3, <2>2, <3>1
    <2>. QED
      BY <2>1, <2>2
  <1>8. output' = [output EXCEPT ![k] = [s \in Second |-> @[s] + (IF s \in Page THEN 1 ELSE 0)]]
    BY DEF Gather
  <1>9. \A s \in Second : output'[k][s] = output[k][s] + (IF s \in Page THEN 1 ELSE 0)
    BY <1>1, <1>8 DEF BackfillTypeOK
  <1>10. \A s \in Second : output'[k][s] = IF s \in traded[t] /\ low < s /\ s <= high THEN 1 ELSE 0
    <2>1. SUFFICES ASSUME NEW s \in Second
                   PROVE  output'[k][s] = IF s \in traded[t] /\ low < s /\ s <= high THEN 1 ELSE 0
      OBVIOUS
    <2>2. s \in Nat /\ low \in Nat /\ low <= Top
      BY <1>3, <1>4, <1>6
    <2>3. s \in Page <=> s \in traded[t] /\ low < s /\ s <= Top
      BY <1>7
    <2>4. output[k][s] = IF s \in traded[t] /\ Top < s /\ s <= high THEN 1 ELSE 0
      BY <1>2
    <2>5. output'[k][s] = output[k][s] + (IF s \in Page THEN 1 ELSE 0)
      BY <1>9
    <2>6. Top \in Nat /\ high \in Nat /\ Top <= high
      BY <1>2, <1>4
    <2>7. CASE s <= Top
      <3>1. output[k][s] = 0
        BY <2>2, <2>4, <2>6, <2>7
      <3>2. s <= high
        BY <2>2, <2>6, <2>7
      <3>. QED
        BY <2>3, <2>5, <2>7, <3>1, <3>2
    <2>8. CASE Top < s
      <3>1. s \notin Page /\ low < s
        BY <2>2, <2>3, <2>6, <2>8
      <3>. QED
        BY <2>4, <2>5, <2>8, <3>1
    <2>. QED
      BY <2>2, <2>6, <2>7, <2>8
  <1>11. day' = day /\ traded' = traded /\ cut \subseteq cut' /\ young \subseteq young'
    BY DEF Gather
  <1>12. high = LastSecond \/
         (t \in young' /\ (high % MinuteLength = 0 \/ <<k, MinuteOf(high)>> \in cut'))
    <2>1. CASE page > 0
      BY <1>2, <1>11, <2>1
    <2>2. CASE page = 0 /\ high # LastSecond
      <3>1. high = elapsed /\ day = Today /\ elapsed < LastSecond
        BY <1>2, <1>4, <2>2
      <3>2. t \in young'
        BY <1>1, <2>2, <3>1 DEF Gather
      <3>3. elapsed % MinuteLength # 0 => <<k, MinuteOf(elapsed)>> \in cut'
        BY <2>2, <3>1 DEF Gather
      <3>. QED
        BY <3>1, <3>2, <3>3
    <2>. QED
      BY <1>4, <2>1, <2>2
  <1>13. Reaches(k, low, high)'
    BY <1>10, <1>11, <1>12 DEF Reaches
  <1>. QED
    BY <1>2, <1>5, <1>6, <1>13

(* The same of the state after a step.                                     *)
LEMMA ReachedIsStorableThen ==
    ASSUME NEW c \in Codes, NEW low \in 0..LastSecond, NEW high \in 0..LastSecond
    PROVE  (/\ traded[<<c, day>>] \subseteq Second /\ Reaches(c, low, high)
            /\ low = 0 \/ <<c, MinuteOf(low + 1)>> \in cut)' => Storable(c)'
  <1> DEFINE Hypothesis == /\ traded[<<c, day>>] \subseteq Second /\ Reaches(c, low, high)
                           /\ low = 0 \/ <<c, MinuteOf(low + 1)>> \in cut
  <1>1. Hypothesis => Storable(c)
    BY ReachedIsStorable
  <1>. HIDE DEF Hypothesis
  <1>2. Hypothesis' => Storable(c)'
    BY <1>1, PTL
  <1>. QED
    BY <1>2 DEF Hypothesis

(* A page that comes is added to the minutes it belongs to.                *)
LEMMA GatherKeeps ==
    ASSUME BackfillInv, Gather
    PROVE  BackfillInv'
  <1>1. /\ BackfillTypeOK /\ BarsWhole /\ NoHoles /\ BatchInOrder /\ day # 0 /\ Batch # {}
        /\ UNCHANGED <<product, traded, elapsed, table, day, partial, broken>>
        /\ cut \subseteq cut' /\ young \subseteq young'
    BY DEF BackfillInv, Gather
  <1>2. PICK k \in Codes : k = Current[1] /\ Current = <<k, day>> /\ day \in Days /\ Current \in Batch
    BY <1>1, CurrentFacts
  <1>3. PICK low, high \in 0..LastSecond :
          /\ low <= high /\ Reaches(k, low, high)'
          /\ IF Cardinality(Page) = PageSize
             THEN /\ low = NextCursor(Page) /\ low < high /\ low < Top
                  /\ low + 1 = Min(Page) /\ Min(Page) \in Second
             ELSE low = 0
    BY <1>1, <1>2, ThePageReaches
  <1>4. /\ LastSecond \in Nat \ {0} /\ MaxPages \in Nat \ {0} /\ MinuteLength \in Nat \ {0}
        /\ page \in 0..MaxPages /\ page < MaxPages /\ page + 1 \in 1..MaxPages
        /\ elapsed \in 0..LastSecond /\ traded[<<k, day>>] \subseteq Second
    BY <1>1, <1>2, BackfillNumbers DEF BackfillTypeOK, BatchInOrder, Tasks
  <1>5. output' = [output EXCEPT ![k] = [s \in Second |-> @[s] + (IF s \in Page THEN 1 ELSE 0)]]
    BY <1>2 DEF Gather
  <1>6. output' \in [Codes -> [Second -> Nat]] /\ \A c \in Codes \ {k} : output'[c] = output[c]
    <2>1. \A s \in Second : output[k][s] + (IF s \in Page THEN 1 ELSE 0) \in Nat
      BY <1>1, <1>2 DEF BackfillTypeOK
    <2>. QED
      BY <1>1, <1>2, <1>5, <2>1 DEF BackfillTypeOK
  <1>7. cut' \subseteq Codes \X Minutes
    <2>1. \A s \in Second : <<k, MinuteOf(s)>> \in Codes \X Minutes
      BY <1>2 DEF Minutes
    <2>2. elapsed % MinuteLength # 0 => elapsed \in Second
      BY <1>4 DEF Second
    <2>. QED
      BY <1>1, <1>2, <1>3, <2>1, <2>2 DEF Gather, BackfillTypeOK
  <1>8. young' \subseteq Tasks
    BY <1>1, <1>2 DEF Gather, BackfillTypeOK, Tasks
  <1>9. NoHoles' /\ BarsWhole'
    BY <1>1 DEF NoHoles, BarsWhole, Bars
  <1>10. CASE Cardinality(Page) = PageSize /\ page + 1 < MaxPages
    <2>1. page' = page + 1 /\ cursor' = low /\ tasks' = tasks
      BY <1>2, <1>3, <1>10 DEF Gather
    <2>2. Batch' = Batch /\ Current' = Current
      BY <1>1, <2>1 DEF Batch, Current
    <2>3. BackfillTypeOK'
      BY <1>1, <1>4, <1>6, <1>7, <1>8, <1>10, <2>1 DEF BackfillTypeOK
    <2>4. UnderWay'
      <3>1. day' = Today => cursor' <= elapsed'
        <4>1. day = Today => Top <= elapsed /\ Top \in 0..LastSecond
          BY <1>1, <1>4 DEF Top, BackfillTypeOK
        <4>. QED
          BY <1>1, <1>3, <1>4, <1>10, <2>1, <4>1
      <3>2. cursor' < high /\ Reaches(k, cursor, high)'
        BY <1>1, <1>3, <1>10, <2>1 DEF Reaches
      <3>3. Current'[1] = k /\ Batch' # {}
        BY <1>1, <1>2, <2>2
      <3>. QED
        BY <3>1, <3>2, <3>3 DEF UnderWay, Reaches
    <2>5. page' > 0 /\ page' < MaxPages
      BY <1>4, <1>10, <2>1
    <2>6. ASSUME NEW c \in Codes PROVE Storable(c)' \/ c = Current'[1]
      <3>1. CASE c # k
        <4>1. Storable(c)
          BY <1>1, <1>2, <3>1 DEF BatchInOrder
        <4>. QED
          BY <1>1, <1>6, <3>1, <4>1, StorableStays
      <3>. QED
        BY <1>2, <2>2, <3>1
    <2>7. ASSUME NEW t \in Batch' PROVE (output[t[1]])' = Nothing \/ t = Current'
      <3>1. CASE t # Current
        <4>1. t \in Batch /\ t[1] \in Codes /\ t = <<t[1], day>>
          BY <1>1, <2>2 DEF Batch, BackfillTypeOK, Tasks
        <4>2. output[t[1]] = Nothing
          BY <1>1, <3>1, <4>1 DEF BatchInOrder
        <4>. QED
          BY <1>2, <1>6, <3>1, <4>1, <4>2
      <3>. QED
        BY <2>2, <3>1
    <2>8. BatchInOrder'
      BY <2>4, <2>5, <2>6, <2>7, <1>4 DEF BatchInOrder
    <2>. QED
      BY <1>9, <2>3, <2>8 DEF BackfillInv
  <1>11. CASE ~(Cardinality(Page) = PageSize /\ page + 1 < MaxPages)
    <2>1. TaskDone
      BY <1>11 DEF Gather
    <2>2. BackfillTypeOK'
      BY <1>1, <1>4, <1>6, <1>7, <1>8, <2>1, BackfillNumbers DEF BackfillTypeOK, TaskDone
    <2>3. low = 0 \/ <<k, MinuteOf(low + 1)>> \in cut'
      <3>1. CASE Cardinality(Page) = PageSize
        <4>1. page + 1 = MaxPages
          BY <1>4, <1>11, <3>1
        <4>2. <<k, MinuteOf(Min(Page))>> \in cut'
          BY <1>2, <3>1, <4>1 DEF Gather
        <4>. QED
          BY <1>3, <3>1, <4>2
      <3>. QED
        BY <1>3, <3>1
    <2>4. traded'[<<k, day'>>] \subseteq Second
      BY <1>1, <1>4
    <2>5. Storable(k)'
      BY <1>3, <2>3, <2>4, ReachedIsStorableThen
    <2>6. BatchInOrder'
      BY <1>1, <1>2, <1>6, <2>1, <2>5, TaskDoneKeeps
    <2>. QED
      BY <1>9, <2>2, <2>6 DEF BackfillInv
  <1>. QED
    BY <1>10, <1>11

(* A call that fails ends the task, whose last minute is then cut.         *)
LEMMA CallFailsKeeps ==
    ASSUME BackfillInv, CallFails
    PROVE  BackfillInv'
  <1>1. /\ BackfillTypeOK /\ BarsWhole /\ NoHoles /\ BatchInOrder /\ day # 0 /\ Batch # {}
        /\ UNCHANGED <<product, traded, elapsed, table, day, output, partial, young>>
        /\ cut \subseteq cut' /\ young \subseteq young' /\ TaskDone /\ Breaks
    BY DEF BackfillInv, CallFails
  <1>2. PICK k \in Codes : k = Current[1] /\ Current = <<k, day>> /\ day \in Days
    BY <1>1, CurrentFacts
  <1>3. traded[<<k, day>>] \subseteq Second
    BY <1>1, <1>2 DEF BackfillTypeOK, Tasks
  <1>4. cut' \subseteq Codes \X Minutes /\ Storable(k)'
    <2>1. CASE page = 0
      <3>1. cut' = cut /\ Storable(k)
        BY <1>1, <2>1 DEF CallFails, BatchInOrder
      <3>. QED
        BY <1>1, <3>1, StorableStays DEF BackfillTypeOK
    <2>2. CASE page > 0
      <3>1. UnderWay
        BY <1>1, <2>2 DEF BatchInOrder
      <3>2. PICK high \in 0..LastSecond : cursor < high /\ Reaches(Current[1], cursor, high)
        BY <3>1 DEF UnderWay
      <3>3. PICK low \in 0..LastSecond : low = cursor
        BY <1>1 DEF BackfillTypeOK
      <3>4. low + 1 \in Second
        BY <3>2, <3>3, BackfillNumbers DEF Second
      <3>5. cut' = cut \cup {<<k, MinuteOf(low + 1)>>}
        BY <1>2, <2>2, <3>3 DEF CallFails
      <3>6. cut' \subseteq Codes \X Minutes
        BY <1>1, <3>4, <3>5 DEF BackfillTypeOK, Minutes
      <3>7. Reaches(k, low, high)'
        BY <1>1, <1>2, <3>2, <3>3 DEF Reaches
      <3>8. Storable(k)'
        <4>1. traded'[<<k, day'>>] \subseteq Second
          BY <1>1, <1>3
        <4>. QED
          BY <3>5, <3>7, <4>1, ReachedIsStorableThen
      <3>. QED
        BY <3>6, <3>8
    <2>. QED
      BY <1>1, <2>1, <2>2 DEF BackfillTypeOK
  <1>5. BackfillTypeOK'
    BY <1>1, <1>4, BackfillNumbers DEF BackfillTypeOK, TaskDone, Breaks
  <1>6. BatchInOrder'
    BY <1>1, <1>2, <1>4, TaskDoneKeeps
  <1>7. NoHoles' /\ BarsWhole'
    BY <1>1 DEF NoHoles, BarsWhole, Bars
  <1>. QED
    BY <1>5, <1>6, <1>7 DEF BackfillInv

(* What is stored of the day is whole and reaches to its end.              *)
LEMMA StoreKeeps ==
    ASSUME BackfillInv, Store
    PROVE  BackfillInv'
  <1> DEFINE out(c) == output[c]
  <1>1. /\ BackfillTypeOK /\ BarsWhole /\ NoHoles /\ BatchInOrder /\ day # 0 /\ Batch = {}
        /\ UNCHANGED <<product, traded, elapsed, young, broken>> /\ NextDay(tasks)
        /\ tasks \in SUBSET Tasks /\ day \in Days
    BY DEF BackfillInv, Store, BackfillTypeOK
  <1>2. \A c \in Codes : Storable(c)
    <2>1. ~(page > 0)
      BY <1>1 DEF BatchInOrder, UnderWay
    <2>. QED
      BY <1>1, <2>1 DEF BatchInOrder
  <1>3. table' = [t \in Tasks |->
          IF t[2] # day THEN table[t]
          ELSE [s \in Second |-> IF MinuteOf(s) \in Bars(output[t[1]])
                                 THEN output[t[1]][s] ELSE table[t][s]]]
    BY DEF Store
  <1>4. partial' = {p \in partial : p[1][2] = day => p[2] \notin Bars(output[p[1][1]])}
          \cup {<<<<x[1], day>>, x[2]>> : x \in {y \in cut : y[2] \in Bars(output[y[1]])}}
    BY DEF Store
  <1>5. /\ day' \in Days \cup {0} /\ tasks' \subseteq Tasks
        /\ output' \in [Codes -> [Second -> Nat]]
        /\ page' \in 0..MaxPages /\ cursor' \in 0..LastSecond
        /\ cut' \subseteq Codes \X Minutes /\ (day # 0 => BatchInOrder)'
    BY <1>1, NextDayIsInOrder
  <1>6. table' \in [Tasks -> [Second -> Nat]]
    <2>1. \A t \in Tasks : /\ table[t] \in [Second -> Nat] /\ t[1] \in Codes
                           /\ output[t[1]] \in [Second -> Nat]
      BY <1>1 DEF BackfillTypeOK, Tasks
    <2>. QED
      BY <1>3, <2>1
  <1>7. partial' \subseteq Tasks \X Minutes
    <2>1. \A x \in cut : <<<<x[1], day>>, x[2]>> \in Tasks \X Minutes
      BY <1>1 DEF BackfillTypeOK, Tasks
    <2>. QED
      BY <1>1, <1>4, <2>1 DEF BackfillTypeOK
  <1>8. BackfillTypeOK'
    BY <1>1, <1>5, <1>6, <1>7 DEF BackfillTypeOK
  <1>9. \A s \in Second : s \in Nat
    BY BackfillNumbers DEF Second
  <1>10. ASSUME NEW t \in Tasks, t[2] # day
         PROVE  /\ table'[t] = table[t] /\ Bars(table'[t]) = Bars(table[t])
                /\ \A m : <<t, m>> \in partial => <<t, m>> \in partial'
    BY <1>3, <1>4, <1>10
  <1>11. ASSUME NEW t \in Tasks, t[2] = day, NEW s \in Second
         PROVE  /\ t[1] \in Codes /\ t = <<t[1], day>> /\ traded[t] \subseteq Second
                /\ MinuteOf(s) \in Bars(output[t[1]]) =>
                      table'[t][s] = output[t[1]][s] /\ MinuteOf(s) \in Bars(table'[t])
                /\ MinuteOf(s) \notin Bars(output[t[1]]) =>
                      /\ table'[t][s] = table[t][s]
                      /\ MinuteOf(s) \in Bars(table'[t]) <=> MinuteOf(s) \in Bars(table[t])
    <2>1. t[1] \in Codes /\ t = <<t[1], day>> /\ traded[t] \subseteq Second
      BY <1>1, <1>11 DEF BackfillTypeOK, Tasks
    <2>2. \A x \in Second : table'[t][x] = IF MinuteOf(x) \in Bars(output[t[1]])
                                           THEN output[t[1]][x] ELSE table[t][x]
      BY <1>3, <1>11
    <2>3. ASSUME MinuteOf(s) \in Bars(output[t[1]]) PROVE MinuteOf(s) \in Bars(table'[t])
      <3>1. PICK x \in Second : MinuteOf(x) = MinuteOf(s) /\ output[t[1]][x] > 0
        BY <2>3, BarsAre
      <3>2. table'[t][x] > 0
        BY <2>2, <2>3, <3>1
      <3>. QED
        BY <3>1, <3>2, BarsAre
    <2>4. ASSUME MinuteOf(s) \notin Bars(output[t[1]])
          PROVE  MinuteOf(s) \in Bars(table'[t]) <=> MinuteOf(s) \in Bars(table[t])
      <3>1. \A x \in Second : MinuteOf(x) = MinuteOf(s) => table'[t][x] = table[t][x]
        BY <2>2, <2>4
      <3>. QED
        BY <3>1, BarsAre
    <2>. QED
      BY <2>1, <2>2, <2>3, <2>4
  <1>12. BarsWhole'
    <2>1. SUFFICES ASSUME NEW t \in Tasks, NEW s \in Second, MinuteOf(s) \in Bars(table'[t])
                   PROVE  \/ table'[t][s] = (IF s \in traded[t] THEN 1 ELSE 0)
                          \/ <<t, MinuteOf(s)>> \in partial' /\ table'[t][s] \in {0, 1}
      BY <1>1 DEF BarsWhole, Bars
    <2>2. CASE t[2] # day
      BY <1>1, <1>10, <2>1, <2>2 DEF BarsWhole
    <2>3. CASE t[2] = day /\ MinuteOf(s) \in Bars(output[t[1]])
      <3>1. table'[t][s] = output[t[1]][s] /\ t[1] \in Codes /\ t = <<t[1], day>>
        BY <1>11, <2>3
      <3>2. Storable(t[1])
        BY <1>2, <3>1
      <3>3. output[t[1]][s] \in {0, 1} /\ (output[t[1]][s] = 1 => s \in traded[t])
        BY <3>1, <3>2 DEF Storable
      <3>4. CASE output[t[1]][s] = 0 /\ s \in traded[t]
        <4>1. <<t[1], MinuteOf(s)>> \in cut
          BY <2>3, <3>1, <3>2, <3>4 DEF Storable
        <4>2. <<t, MinuteOf(s)>> \in partial'
          BY <1>4, <2>3, <3>1, <4>1
        <4>. QED
          BY <3>1, <3>4, <4>2
      <3>. QED
        BY <3>1, <3>3, <3>4
    <2>4. CASE t[2] = day /\ MinuteOf(s) \notin Bars(output[t[1]])
      <3>1. table'[t][s] = table[t][s] /\ MinuteOf(s) \in Bars(table[t])
        BY <1>11, <2>1, <2>4
      <3>2. <<t, MinuteOf(s)>> \in partial => <<t, MinuteOf(s)>> \in partial'
        BY <1>4, <2>4
      <3>. QED
        BY <1>1, <3>1, <3>2 DEF BarsWhole
    <2>. QED
      BY <2>2, <2>3, <2>4
  <1>13. NoHoles'
    <2>1. SUFFICES ASSUME NEW t \in Tasks \ young, NEW s \in traded[t], NEW u \in traded[t],
                          s < u, MinuteOf(s) \in Bars(table'[t])
                   PROVE  MinuteOf(u) \in Bars(table'[t])
      BY <1>1 DEF NoHoles, Bars
    <2>2. s \in Second /\ u \in Second
      BY <1>1 DEF BackfillTypeOK
    <2>3. CASE t[2] # day
      BY <1>1, <1>10, <2>1, <2>3 DEF NoHoles
    <2>4. CASE t[2] = day /\ MinuteOf(s) \in Bars(output[t[1]])
      <3>1. t[1] \in Codes /\ t = <<t[1], day>>
        BY <1>11, <2>2, <2>4
      <3>2. Storable(t[1])
        BY <1>2, <3>1
      <3>3. PICK x \in Second : MinuteOf(x) = MinuteOf(s) /\ output[t[1]][x] > 0
        BY <2>2, <2>4, BarsAre
      <3>4. output[t[1]][x] = 1 /\ x \in traded[t]
        BY <3>1, <3>2, <3>3 DEF Storable
      <3>5. CASE x < u
        <4>1. output[t[1]][u] = 1
          BY <2>1, <3>1, <3>2, <3>4, <3>5 DEF Storable
        <4>2. MinuteOf(u) \in Bars(output[t[1]])
          BY <2>2, <4>1, BarsAre
        <4>. QED
          BY <1>11, <2>2, <2>4, <4>2
      <3>6. CASE u <= x
        <4>1. MinuteOf(s) <= MinuteOf(u) /\ MinuteOf(u) <= MinuteOf(x)
          BY <1>9, <2>1, <2>2, <3>3, <3>6, MinutesInOrder
        <4>2. MinuteOf(u) = MinuteOf(s)
          BY <1>9, <2>2, <3>3, <4>1, MinutesInOrder
        <4>. QED
          BY <2>1, <4>2
      <3>. QED
        BY <1>9, <2>2, <3>3, <3>5, <3>6
    <2>5. CASE t[2] = day /\ MinuteOf(s) \notin Bars(output[t[1]])
      <3>1. MinuteOf(s) \in Bars(table[t])
        BY <1>11, <2>1, <2>2, <2>5
      <3>2. MinuteOf(u) \in Bars(table[t])
        BY <1>1, <2>1, <3>1 DEF NoHoles
      <3>. QED
        BY <1>11, <2>2, <2>5, <3>2
    <2>. QED
      BY <2>3, <2>4, <2>5
  <1>. QED
    BY <1>5, <1>8, <1>12, <1>13 DEF BackfillInv

(* Every step of the backfill.                                             *)
LEMMA BackfillKeeps ==
    ASSUME BackfillInv, [BackfillNext]_backfillVars
    PROVE  BackfillInv'
  <1>1. BackfillTypeOK /\ BarsWhole /\ NoHoles /\ (day # 0 => BatchInOrder)
    BY DEF BackfillInv
  <1>2. ASSUME NEW left \in SUBSET Tasks, NextDay(left),
               UNCHANGED <<product, traded, elapsed, table, partial, young>>,
               broken' \in 0..MaxBroken
        PROVE  BackfillInv'
    <2>1. /\ day' \in Days \cup {0} /\ tasks' \subseteq Tasks
          /\ output' \in [Codes -> [Second -> Nat]]
          /\ page' \in 0..MaxPages /\ cursor' \in 0..LastSecond
          /\ cut' \subseteq Codes \X Minutes /\ (day # 0 => BatchInOrder)'
      BY <1>1, <1>2, NextDayIsInOrder
    <2>2. BackfillTypeOK'
      BY <1>1, <1>2, <2>1 DEF BackfillTypeOK
    <2>3. NoHoles' /\ BarsWhole'
      BY <1>1, <1>2 DEF NoHoles, BarsWhole, Bars
    <2>. QED
      BY <2>1, <2>2, <2>3 DEF BackfillInv
  <1>3. broken \in 0..MaxBroken /\ (Breaks => broken' \in 0..MaxBroken)
    BY <1>1, BackfillNumbers DEF BackfillTypeOK, Breaks
  <1>4. ASSUME NEW of, StartRange(of) PROVE BackfillInv'
    <2>1. PICK left \in SUBSET Tasks : NextDay(left) /\ (UNCHANGED broken \/ Breaks)
      BY <1>4 DEF StartRange
    <2>. QED
      BY <1>2, <1>3, <1>4, <2>1 DEF StartRange
  <1>5. ASSUME NEW of, StartToday(of) PROVE BackfillInv'
    <2>1. Codes \X {Today} \in SUBSET Tasks
      BY DaysFacts DEF Tasks
    <2>. QED
      BY <1>2, <1>3, <1>5, <2>1 DEF StartToday
  <1>6. CASE RunBreaks
    <2>1. {} \in SUBSET Tasks
      OBVIOUS
    <2>. QED
      BY <1>2, <1>3, <1>6, <2>1 DEF RunBreaks
  <1>7. CASE SecondPasses
    <2>1. /\ elapsed' = elapsed + 1 /\ elapsed' \in 0..LastSecond
          /\ UNCHANGED <<product, traded, table, tasks, day, output, page, cursor, cut, partial,
                         young, broken>>
      BY <1>1, <1>7, BackfillNumbers DEF SecondPasses, BackfillTypeOK
    <2>2. BackfillTypeOK' /\ NoHoles' /\ BarsWhole'
      BY <1>1, <2>1 DEF BackfillTypeOK, NoHoles, BarsWhole, Bars
    <2>3. Batch' = Batch /\ Current' = Current
      BY <2>1 DEF Batch, Current
    <2>4. day # 0 => BatchInOrder'
      <3>1. SUFFICES ASSUME day # 0 PROVE BatchInOrder'
        OBVIOUS
      <3>2. \A c \in Codes : Storable(c) => Storable(c)'
        BY <2>1, StorableStays
      <3>3. UnderWay => UnderWay'
        <4>1. day = Today /\ cursor <= elapsed => cursor <= elapsed'
          BY <1>1, <2>1 DEF BackfillTypeOK
        <4>. QED
          BY <2>1, <2>3, <4>1 DEF UnderWay, Reaches
      <3>. QED
        BY <1>1, <2>1, <2>3, <3>1, <3>2, <3>3 DEF BatchInOrder
    <2>. QED
      BY <2>1, <2>2, <2>4 DEF BackfillInv
  <1>8. CASE UNCHANGED backfillVars
    <2>1. Batch' = Batch /\ Current' = Current
      BY <1>8 DEF backfillVars, Batch, Current
    <2>2. BackfillTypeOK' /\ NoHoles' /\ BarsWhole'
      BY <1>1, <1>8 DEF backfillVars, BackfillTypeOK, NoHoles, BarsWhole, Bars
    <2>3. \A c \in Codes : Storable(c) => Storable(c)'
      BY <1>8, StorableStays DEF backfillVars
    <2>4. UnderWay => UnderWay'
      BY <1>8, <2>1 DEF backfillVars, UnderWay, Reaches
    <2>5. day # 0 => BatchInOrder'
      BY <1>1, <1>8, <2>1, <2>3, <2>4 DEF backfillVars, BatchInOrder
    <2>. QED
      BY <1>8, <2>2, <2>5 DEF backfillVars, BackfillInv
  <1>9. CASE FetchPage \/ FetchIndexPage
    BY <1>9, GatherKeeps DEF FetchPage, FetchIndexPage
  <1>10. CASE FetchFails \/ FetchIndexFails
    BY <1>10, CallFailsKeeps DEF FetchFails, FetchIndexFails
  <1>11. CASE InsertBatch \/ InsertIndexBatch
    BY <1>11, StoreKeeps DEF InsertBatch, InsertIndexBatch
  <1>. QED
    BY <1>4, <1>5, <1>6, <1>7, <1>8, <1>9, <1>10, <1>11
    DEF BackfillNext, StartBackfill, StartIndexBackfill, StartFutureBackfill,
        CollectToday, CollectTodayIndex, CollectTodayFuture

(* A run that has not been started is in order.                            *)
LEMMA InitBackfillInv == BackfillInit => BackfillInv
  <1> SUFFICES ASSUME BackfillInit PROVE BackfillInv
    OBVIOUS
  <1>1. BackfillTypeOK
    BY BackfillNumbers DEF BackfillInit, BackfillTypeOK, Nothing
  <1>2. \A t \in Tasks : Bars(table[t]) = {}
    BY DEF BackfillInit, Nothing, Bars
  <1>. QED
    BY <1>1, <1>2 DEF BackfillInit, BackfillInv, BarsWhole, NoHoles

(* Whatever the pages, failures and kills, a batch is always fetched down  *)
(* to the cursor and what is stored of a day is whole.                     *)
THEOREM BackfillInvariant == (BackfillSpec => []BackfillInv) /\ (Spec => []BackfillInv)
  <1>1. BackfillInit => BackfillInv
    BY InitBackfillInv
  <1>2. BackfillInv /\ [BackfillNext]_backfillVars => BackfillInv'
    BY BackfillKeeps
  <1>3. Init => BackfillInit
    BY DEF Init
  <1>4. [Next]_componentVars => [BackfillNext]_backfillVars
    BY DEF Next, componentVars, BrokerPart, CandlePart, BackfillPart, BacktestPart,
           ContractPart, WorkbenchPart, SupportPart
  <1>. QED
    BY <1>1, <1>2, <1>3, <1>4, PTL DEF BackfillSpec, Spec

(* backfill.py: for any days, page sizes and trading, a stored bar has     *)
(* every record of its minute once, unless its fetch was cut within that   *)
(* minute, and a day is stored from its end without a hole, unless it was  *)
(* fetched before it was over.                                             *)
THEOREM BackfillIsSound == (BackfillSpec => []BackfillSound) /\ (Spec => []BackfillSound)
  <1>1. BackfillInv => BackfillSound
    BY DEF BackfillInv, BackfillSound
  <1>. QED
    BY <1>1, BackfillInvariant, PTL

-----------------------------------------------------------------------------
(* The detector of anomalies                                               *)

(* Counts and clocks, and the histories the detector looks back on: no     *)
(* signal is later than the present.                                       *)
AnomalyTypeOK ==
    /\ watching \in BOOLEAN /\ seenReturns \in Seq(Int)
    /\ instant \in Nat /\ lossStreak \in Nat /\ restoredStreak \in Nat
    /\ keptStreak \in Nat \cup {Unkept}
    /\ seenSignals \in Seq(0..instant)
    /\ anomalies \in [Kinds -> {"none", "medium", "high", "critical"}]
    /\ sentAlerts \in [Kinds -> Nat] /\ resolvedAlerts \in [Kinds -> Nat]

(* A streak over the threshold that is not active was taken over.          *)
StreakSeen ==
    lossStreak >= LossStreak /\ anomalies["loss_streak"] = "none" =>
        lossStreak <= restoredStreak

(* A last return beyond the threshold is active.                           *)
ReturnSeen ==
    seenReturns # <<>> /\ ZBeyond(seenReturns, VolatilityHalves, 1) =>
        anomalies["price_volatility"] # "none"

AnomalyInv ==
    AnomalyTypeOK /\ OneAlertEach /\ CriticalOnlyRestored /\ StreakSeen /\ ReturnSeen

(* The thresholds and sizes are numbers.                                   *)
LEMMA AnomalyNumbers ==
    /\ Returns \subseteq Int /\ PriceWindow \in Nat \ {0} /\ SignalWindow \in Nat \ {0}
    /\ VolatilityHalves \in Nat /\ RecentFor \in Nat /\ MinSignals \in Nat \ {0}
    /\ LossStreak \in Nat \ {0} /\ CriticalStreak \in Nat /\ CriticalStreak > LossStreak
  BY AnomalyAssumption

(* A window keeps what it held, and takes the new element.                 *)
LEMMA WindowedIs ==
    ASSUME NEW T, NEW s \in Seq(T), NEW x \in T, NEW n \in Nat \ {0}
    PROVE  Windowed(s, x, n) \in Seq(T)
  <1>1. Append(s, x) \in Seq(T) /\ Append(s, x) # <<>>
    <2>1. Append(s, x) \in Seq(T)
      OBVIOUS
    <2>2. ASSUME Append(s, x) = <<>>
          PROVE  FALSE
      <3>1. Len(Append(s, x)) = Len(s) + 1 /\ Len(s) \in Nat
        OBVIOUS
      <3>2. Len(<<>>) = 0
        OBVIOUS
      <3>. QED
        BY <2>2, <3>1, <3>2
    <2>. QED
      BY <2>1, <2>2
  <1>2. Tail(Append(s, x)) \in Seq(T)
    BY <1>1
  <1>. QED
    BY <1>1, <1>2 DEF Windowed

(* The sum of a window of numbers is a number.                             *)
LEMMA WindowSumInt ==
    ASSUME NEW s \in Seq(Int)
    PROVE  WindowSum(s) \in Int
  <1>1. DOMAIN s = 1..Len(s) /\ IsFiniteSet(DOMAIN s) /\ \A i \in DOMAIN s : s[i] \in Int
    BY FS_Interval
  <1>. QED
    BY <1>1, SumRule, WindowSumIs

(* A return beyond the threshold has not passed: what passes is below four *)
(* fifths of it.                                                           *)
LEMMA StillBeyond ==
    ASSUME NEW s \in Seq(Int), s # <<>>, ZBeyond(s, VolatilityHalves, 1)
    PROVE  ZBeyond(s, 4 * VolatilityHalves, 5)
  <1> DEFINE n == Len(s)
             squares == [i \in DOMAIN s |-> s[i] * s[i]]
             deviation == n * s[n] - WindowSum(s)
             spread == n * WindowSum(squares) - WindowSum(s) * WindowSum(s)
  <1>1. n \in Nat /\ s[n] \in Int /\ DOMAIN s = 1..n
    OBVIOUS
  <1>2. squares \in Seq(Int)
    BY <1>1
  <1>. HIDE DEF squares
  <1>3. WindowSum(s) \in Int /\ WindowSum(squares) \in Int
    BY <1>2, WindowSumInt
  <1>4. deviation \in Int /\ spread \in Int
    BY <1>1, <1>3
  <1>5. /\ n >= MinPrices /\ spread > 0
        /\ 4 * 1 * 1 * deviation * deviation > VolatilityHalves * VolatilityHalves * spread
    BY DEF ZBeyond, squares
  <1>. HIDE DEF deviation, spread, n
  <1>6. 4 * 5 * 5 * deviation * deviation
            > (4 * VolatilityHalves) * (4 * VolatilityHalves) * spread
    <2>1. PICK a \in Int : a = deviation * deviation
      BY <1>4
    <2>2. PICK b \in Int : b = VolatilityHalves * VolatilityHalves * spread
      BY <1>4, AnomalyNumbers
    <2>3. 4 * a > b /\ b >= 0
      <3>1. VolatilityHalves \in Nat /\ spread \in Nat
        BY <1>4, <1>5, AnomalyNumbers
      <3>2. VolatilityHalves * VolatilityHalves \in Nat
        BY <3>1
      <3>3. VolatilityHalves * VolatilityHalves * spread >= 0
        BY <3>1, <3>2
      <3>4. 4 * 1 * 1 * deviation * deviation = 4 * (deviation * deviation)
        BY <1>4
      <3>. QED
        BY <1>5, <2>1, <2>2, <3>3, <3>4
    <2>4. 100 * a > 16 * b
      BY <2>3
    <2>5. 4 * 5 * 5 * deviation * deviation = 100 * (deviation * deviation)
      BY <1>4
    <2>6. (4 * VolatilityHalves) * (4 * VolatilityHalves) * spread
              = 16 * (VolatilityHalves * VolatilityHalves * spread)
      BY <1>4, AnomalyNumbers
    <2>. QED
      BY <2>1, <2>2, <2>4, <2>5, <2>6
  <1>. QED
    BY <1>5, <1>6 DEF ZBeyond, squares, deviation, spread, n

(* A kind is active after what was found of it, and an alert was sent if   *)
(* it was not active before; the other kinds are as they were.             *)
LEMMA RaiseKeeps ==
    ASSUME AnomalyTypeOK, OneAlertEach, NEW kind \in Kinds, NEW found \in BOOLEAN,
           NEW severity \in {"medium", "high", "critical"}, Raise(kind, found, severity),
           UNCHANGED resolvedAlerts
    PROVE  /\ anomalies' \in [Kinds -> {"none", "medium", "high", "critical"}]
           /\ sentAlerts' \in [Kinds -> Nat] /\ OneAlertEach'
           /\ found => anomalies'[kind] # "none"
           /\ ~found => anomalies'[kind] = anomalies[kind]
           /\ anomalies[kind] # "none" => anomalies'[kind] = anomalies[kind]
           /\ anomalies'[kind] \in {severity, anomalies[kind]}
           /\ \A k \in Kinds : k # kind => anomalies'[k] = anomalies[k]
  <1> DEFINE raised == found /\ anomalies[kind] = "none"
  <1>1. /\ anomalies' = [anomalies EXCEPT ![kind] = IF raised THEN severity ELSE anomalies[kind]]
        /\ sentAlerts' = [sentAlerts EXCEPT ![kind] =
                             IF raised THEN sentAlerts[kind] + 1 ELSE sentAlerts[kind]]
    BY DEF Raise
  <1>2. /\ anomalies' \in [Kinds -> {"none", "medium", "high", "critical"}]
        /\ sentAlerts' \in [Kinds -> Nat]
    BY <1>1 DEF AnomalyTypeOK
  <1>3. /\ anomalies'[kind] = IF raised THEN severity ELSE anomalies[kind]
        /\ sentAlerts'[kind] = IF raised THEN sentAlerts[kind] + 1 ELSE sentAlerts[kind]
        /\ \A k \in Kinds : k # kind =>
              anomalies'[k] = anomalies[k] /\ sentAlerts'[k] = sentAlerts[k]
    BY <1>1 DEF AnomalyTypeOK
  <1>4. OneAlertEach'
    <2>. SUFFICES ASSUME NEW k \in Kinds
                  PROVE  sentAlerts'[k] = resolvedAlerts'[k] +
                             (IF anomalies'[k] = "none" THEN 0 ELSE 1)
      BY DEF OneAlertEach
    <2>1. /\ sentAlerts[k] = resolvedAlerts[k] + (IF anomalies[k] = "none" THEN 0 ELSE 1)
          /\ resolvedAlerts[k] \in Nat /\ sentAlerts[k] \in Nat
      BY DEF OneAlertEach, AnomalyTypeOK
    <2>2. CASE k = kind
      BY <1>3, <2>1, <2>2
    <2>3. CASE k # kind
      BY <1>3, <2>1, <2>3
    <2>. QED
      BY <2>2, <2>3
  <1>. QED
    BY <1>2, <1>3, <1>4 DEF AnomalyTypeOK

(* A return is recorded.                                                   *)
LEMMA RecordPriceKeeps ==
    ASSUME AnomalyInv, NEW r \in Returns, RecordPrice(r)
    PROVE  AnomalyInv'
  <1> DEFINE s == Windowed(seenReturns, r, PriceWindow)
             beyond == ZBeyond(s, VolatilityHalves, 1)
             severity == IF ZBeyond(s, 6, 1) THEN "critical" ELSE "high"
  <1>1. /\ seenReturns' = s /\ Raise("price_volatility", beyond, severity)
        /\ UNCHANGED <<instant, watching, seenSignals, lossStreak, keptStreak, resolvedAlerts,
                       restoredStreak>>
    BY DEF RecordPrice
  <1>2. s \in Seq(Int) /\ "price_volatility" \in Kinds /\ beyond \in BOOLEAN
        /\ severity \in {"medium", "high", "critical"}
    <2>1. r \in Int /\ seenReturns \in Seq(Int) /\ PriceWindow \in Nat \ {0}
      BY AnomalyNumbers DEF AnomalyInv, AnomalyTypeOK
    <2>2. s \in Seq(Int)
      BY <2>1, WindowedIs
    <2>. QED
      BY <2>2 DEF Kinds, ZBeyond
  <1>. HIDE DEF s, beyond, severity
  <1>3. /\ anomalies' \in [Kinds -> {"none", "medium", "high", "critical"}]
        /\ sentAlerts' \in [Kinds -> Nat] /\ OneAlertEach'
        /\ beyond => anomalies'["price_volatility"] # "none"
        /\ \A k \in Kinds : k # "price_volatility" => anomalies'[k] = anomalies[k]
    BY <1>1, <1>2, RaiseKeeps DEF AnomalyInv
  <1>4. anomalies'["loss_streak"] = anomalies["loss_streak"]
    BY <1>3 DEF Kinds
  <1>5. AnomalyTypeOK'
    BY <1>1, <1>2, <1>3 DEF AnomalyInv, AnomalyTypeOK
  <1>6. CriticalOnlyRestored' /\ StreakSeen'
    BY <1>1, <1>4 DEF AnomalyInv, CriticalOnlyRestored, StreakSeen
  <1>7. ReturnSeen'
    <2>1. ZBeyond(s, VolatilityHalves, 1) => anomalies'["price_volatility"] # "none"
      BY <1>3 DEF beyond
    <2>. QED
      BY <1>1, <2>1 DEF ReturnSeen
  <1>. QED
    BY <1>3, <1>5, <1>6, <1>7 DEF AnomalyInv

(* A signal is recorded.                                                   *)
LEMMA RecordSignalKeeps ==
    ASSUME AnomalyInv, RecordSignal
    PROVE  AnomalyInv'
  <1> DEFINE s == Windowed(seenSignals, instant, SignalWindow)
             ratio == FrequencyRatio(s)
             beyond == ratio[1] > FrequencyThreshold * ratio[2]
             severity == IF ratio[1] > 5 * ratio[2] THEN "high" ELSE "medium"
  <1>1. /\ seenSignals' = s /\ Raise("signal_frequency", beyond, severity)
        /\ UNCHANGED <<instant, watching, seenReturns, lossStreak, keptStreak, resolvedAlerts,
                       restoredStreak>>
    BY DEF RecordSignal
  <1>2. s \in Seq(0..instant) /\ "signal_frequency" \in Kinds /\ beyond \in BOOLEAN
        /\ severity \in {"medium", "high", "critical"}
    <2>1. instant \in 0..instant /\ seenSignals \in Seq(0..instant) /\ SignalWindow \in Nat \ {0}
      BY AnomalyNumbers DEF AnomalyInv, AnomalyTypeOK
    <2>2. s \in Seq(0..instant)
      BY <2>1, WindowedIs
    <2>. QED
      BY <2>2 DEF Kinds
  <1>. HIDE DEF s, beyond, severity
  <1>3. /\ anomalies' \in [Kinds -> {"none", "medium", "high", "critical"}]
        /\ sentAlerts' \in [Kinds -> Nat] /\ OneAlertEach'
        /\ \A k \in Kinds : k # "signal_frequency" => anomalies'[k] = anomalies[k]
    BY <1>1, <1>2, RaiseKeeps DEF AnomalyInv
  <1>4. /\ anomalies'["loss_streak"] = anomalies["loss_streak"]
        /\ anomalies'["price_volatility"] = anomalies["price_volatility"]
    BY <1>3 DEF Kinds
  <1>5. AnomalyTypeOK'
    BY <1>1, <1>2, <1>3 DEF AnomalyInv, AnomalyTypeOK
  <1>6. CriticalOnlyRestored' /\ StreakSeen'
    BY <1>1, <1>4 DEF AnomalyInv, CriticalOnlyRestored, StreakSeen
  <1>7. ReturnSeen'
    BY <1>1, <1>4 DEF AnomalyInv, ReturnSeen
  <1>. QED
    BY <1>3, <1>5, <1>6, <1>7 DEF AnomalyInv

(* A trade is recorded: what makes the streak critical without an anomaly  *)
(* being active is the loss after one that was taken over.                 *)
LEMMA RecordTradeResultKeeps ==
    ASSUME AnomalyInv, NEW isLoss \in BOOLEAN, RecordTradeResult(isLoss)
    PROVE  AnomalyInv'
  <1> DEFINE count == IF isLoss THEN lossStreak + 1 ELSE 0
             beyond == count >= LossStreak
             severity == IF count >= CriticalStreak THEN "critical" ELSE "high"
  <1>1. /\ lossStreak' = count /\ Raise("loss_streak", beyond, severity)
        /\ UNCHANGED <<instant, watching, seenReturns, seenSignals, keptStreak, resolvedAlerts,
                       restoredStreak>>
    BY DEF RecordTradeResult
  <1>2. /\ count \in Nat /\ lossStreak \in Nat /\ restoredStreak \in Nat
        /\ "loss_streak" \in Kinds /\ beyond \in BOOLEAN
        /\ severity \in {"medium", "high", "critical"}
        /\ anomalies["loss_streak"] \in {"none", "medium", "high", "critical"}
    BY DEF AnomalyInv, AnomalyTypeOK, Kinds
  <1>3. severity = "critical" => lossStreak >= CriticalStreak - 1 /\ lossStreak >= LossStreak
    BY <1>2, AnomalyNumbers
  <1>4. ~beyond => severity # "critical" /\ count < LossStreak
    BY <1>2, AnomalyNumbers
  <1>. HIDE DEF beyond, severity, count
  <1>5. /\ anomalies' \in [Kinds -> {"none", "medium", "high", "critical"}]
        /\ sentAlerts' \in [Kinds -> Nat] /\ OneAlertEach'
        /\ beyond => anomalies'["loss_streak"] # "none"
        /\ ~beyond => anomalies'["loss_streak"] = anomalies["loss_streak"]
        /\ anomalies["loss_streak"] # "none" => anomalies'["loss_streak"] = anomalies["loss_streak"]
        /\ anomalies'["loss_streak"] \in {severity, anomalies["loss_streak"]}
        /\ \A k \in Kinds : k # "loss_streak" => anomalies'[k] = anomalies[k]
    BY <1>1, <1>2, RaiseKeeps DEF AnomalyInv
  <1>6. anomalies'["price_volatility"] = anomalies["price_volatility"]
    BY <1>5 DEF Kinds
  <1>7. AnomalyTypeOK'
    BY <1>1, <1>2, <1>5 DEF AnomalyInv, AnomalyTypeOK
  <1>8. ReturnSeen'
    BY <1>1, <1>6 DEF AnomalyInv, ReturnSeen
  <1>9. StreakSeen'
    BY <1>1, <1>2, <1>4, <1>5, AnomalyNumbers DEF StreakSeen, beyond
  <1>10. CriticalOnlyRestored'
    <2>1. SUFFICES ASSUME anomalies'["loss_streak"] = "critical"
                   PROVE  restoredStreak >= CriticalStreak - 1
      BY <1>1 DEF CriticalOnlyRestored
    <2>2. CASE anomalies["loss_streak"] # "none"
      BY <1>5, <2>1, <2>2 DEF AnomalyInv, CriticalOnlyRestored
    <2>3. CASE anomalies["loss_streak"] = "none"
      <3>1. lossStreak >= CriticalStreak - 1 /\ lossStreak >= LossStreak
        BY <1>3, <1>5, <2>1, <2>3
      <3>2. lossStreak <= restoredStreak
        BY <2>3, <3>1 DEF AnomalyInv, StreakSeen
      <3>. QED
        BY <1>2, <3>1, <3>2, AnomalyNumbers
    <2>. QED
      BY <2>2, <2>3
  <1>. QED
    BY <1>5, <1>7, <1>8, <1>9, <1>10 DEF AnomalyInv

(* The loop drops what has passed.                                         *)
LEMMA ClearResolvedKeeps ==
    ASSUME AnomalyInv, ClearResolved
    PROVE  AnomalyInv'
  <1> DEFINE passed == {k \in Kinds : anomalies[k] # "none" /\ Passed(k)}
  <1>1. /\ anomalies' = [k \in Kinds |-> IF k \in passed THEN "none" ELSE anomalies[k]]
        /\ resolvedAlerts' = [k \in Kinds |-> resolvedAlerts[k] + (IF k \in passed THEN 1 ELSE 0)]
        /\ UNCHANGED <<instant, watching, seenReturns, seenSignals, lossStreak, keptStreak,
                       records, sentAlerts, restoredStreak>>
    BY DEF ClearResolved
  <1>2. "loss_streak" \in passed => lossStreak < LossStreak
    BY DEF Passed
  <1>3. "price_volatility" \in passed =>
           seenReturns = <<>> \/ ~ZBeyond(seenReturns, 4 * VolatilityHalves, 5)
    BY DEF Passed
  <1>4. passed \subseteq Kinds /\ \A k \in passed : anomalies[k] # "none"
    OBVIOUS
  <1>. HIDE DEF passed
  <1>5. AnomalyTypeOK'
    <2>1. anomalies' \in [Kinds -> {"none", "medium", "high", "critical"}]
      BY <1>1 DEF AnomalyInv, AnomalyTypeOK
    <2>2. resolvedAlerts' \in [Kinds -> Nat]
      BY <1>1 DEF AnomalyInv, AnomalyTypeOK
    <2>. QED
      BY <1>1, <2>1, <2>2 DEF AnomalyInv, AnomalyTypeOK
  <1>6. OneAlertEach'
    <2>. SUFFICES ASSUME NEW k \in Kinds
                  PROVE  sentAlerts[k] = resolvedAlerts'[k] +
                             (IF anomalies'[k] = "none" THEN 0 ELSE 1)
      BY <1>1 DEF OneAlertEach
    <2>1. /\ sentAlerts[k] = resolvedAlerts[k] + (IF anomalies[k] = "none" THEN 0 ELSE 1)
          /\ resolvedAlerts[k] \in Nat /\ sentAlerts[k] \in Nat
      BY DEF AnomalyInv, OneAlertEach, AnomalyTypeOK
    <2>2. CASE k \in passed
      BY <1>1, <1>4, <2>1, <2>2
    <2>3. CASE k \notin passed
      BY <1>1, <2>1, <2>3
    <2>. QED
      BY <2>2, <2>3
  <1>7. \A k \in Kinds : anomalies'[k] = IF k \in passed THEN "none" ELSE anomalies[k]
    BY <1>1
  <1>8. CriticalOnlyRestored' /\ StreakSeen'
    <2>1. /\ anomalies'["loss_streak"] \in {"none", anomalies["loss_streak"]}
          /\ anomalies'["loss_streak"] = "none" =>
                anomalies["loss_streak"] = "none" \/ lossStreak < LossStreak
      BY <1>2, <1>7 DEF Kinds
    <2>2. lossStreak \in Nat /\ LossStreak \in Nat
      BY AnomalyNumbers DEF AnomalyInv, AnomalyTypeOK
    <2>. QED
      BY <1>1, <2>1, <2>2 DEF AnomalyInv, CriticalOnlyRestored, StreakSeen
  <1>9. ReturnSeen'
    <2>1. seenReturns # <<>> /\ ZBeyond(seenReturns, VolatilityHalves, 1)
              => "price_volatility" \notin passed /\ anomalies["price_volatility"] # "none"
      BY <1>3, StillBeyond DEF AnomalyInv, AnomalyTypeOK, ReturnSeen
    <2>2. seenReturns # <<>> /\ ZBeyond(seenReturns, VolatilityHalves, 1)
              => anomalies'["price_volatility"] # "none"
      BY <1>7, <2>1 DEF Kinds
    <2>. QED
      BY <1>1, <2>2 DEF ReturnSeen
  <1>. QED
    BY <1>5, <1>6, <1>8, <1>9 DEF AnomalyInv

(* The detector starts, perhaps in the middle of a streak.                 *)
LEMMA StartDetectorKeeps ==
    ASSUME AnomalyInv, StartDetector
    PROVE  AnomalyInv'
  <1>1. /\ watching' = TRUE
        /\ lossStreak' = IF keptStreak # Unkept THEN keptStreak ELSE lossStreak
        /\ restoredStreak' = IF lossStreak' > restoredStreak THEN lossStreak' ELSE restoredStreak
        /\ UNCHANGED <<instant, seenReturns, seenSignals, anomalies, keptStreak, records,
                       sentAlerts, resolvedAlerts>>
    BY DEF StartDetector
  <1>2. /\ lossStreak' \in Nat /\ restoredStreak' \in Nat
        /\ lossStreak' <= restoredStreak' /\ restoredStreak <= restoredStreak'
        /\ restoredStreak \in Nat
    BY <1>1 DEF AnomalyInv, AnomalyTypeOK
  <1>3. AnomalyTypeOK' /\ OneAlertEach' /\ ReturnSeen'
    BY <1>1, <1>2 DEF AnomalyInv, AnomalyTypeOK, OneAlertEach, ReturnSeen
  <1>4. CriticalOnlyRestored'
    <2>1. anomalies["loss_streak"] = "critical" => restoredStreak >= CriticalStreak - 1
      BY DEF AnomalyInv, CriticalOnlyRestored
    <2>2. CriticalStreak - 1 \in Int
      BY AnomalyNumbers
    <2>. QED
      BY <1>1, <1>2, <2>1, <2>2 DEF CriticalOnlyRestored
  <1>5. StreakSeen'
    BY <1>2 DEF StreakSeen
  <1>. QED
    BY <1>3, <1>4, <1>5 DEF AnomalyInv

(* A process begins with nothing seen and nothing active.                  *)
LEMMA RestartDetectorKeeps ==
    ASSUME AnomalyInv, RestartDetector
    PROVE  AnomalyInv'
  <1>1. /\ watching' = FALSE /\ keptStreak' \in {keptStreak, Unkept}
        /\ seenReturns' = <<>> /\ seenSignals' = <<>> /\ lossStreak' = 0
        /\ anomalies' = [k \in Kinds |-> "none"]
        /\ sentAlerts' = [k \in Kinds |-> 0] /\ resolvedAlerts' = [k \in Kinds |-> 0]
        /\ restoredStreak' = 0 /\ instant' = instant
    BY DEF RestartDetector
  <1>2. AnomalyTypeOK'
    <2>1. instant \in Nat /\ keptStreak \in Nat \cup {Unkept}
      BY DEF AnomalyInv, AnomalyTypeOK
    <2>2. <<>> \in Seq(Int) /\ <<>> \in Seq(0..instant)
      OBVIOUS
    <2>3. /\ [k \in Kinds |-> "none"] \in [Kinds -> {"none", "medium", "high", "critical"}]
          /\ [k \in Kinds |-> 0] \in [Kinds -> Nat]
      OBVIOUS
    <2>. QED
      BY <1>1, <2>1, <2>2, <2>3 DEF AnomalyTypeOK
  <1>3. OneAlertEach'
    BY <1>1 DEF OneAlertEach
  <1>4. CriticalOnlyRestored' /\ StreakSeen' /\ ReturnSeen'
    BY <1>1 DEF CriticalOnlyRestored, StreakSeen, ReturnSeen, Kinds
  <1>. QED
    BY <1>2, <1>3, <1>4 DEF AnomalyInv

(* Nothing but the clock goes on, or what is kept changes.                 *)
LEMMA DetectorStandsKeeps ==
    ASSUME AnomalyInv, StopDetector \/ ClockTicks \/ UNCHANGED anomalyVars
    PROVE  AnomalyInv'
  <1>1. /\ UNCHANGED <<seenReturns, seenSignals, lossStreak, anomalies, sentAlerts,
                       resolvedAlerts, restoredStreak>>
        /\ watching' \in BOOLEAN /\ keptStreak' \in {lossStreak, keptStreak}
        /\ instant' \in {instant, instant + 1}
    BY DEF StopDetector, ClockTicks, anomalyVars, AnomalyInv, AnomalyTypeOK
  <1>2. /\ instant \in Nat /\ lossStreak \in Nat /\ keptStreak \in Nat \cup {Unkept}
        /\ seenSignals \in Seq(0..instant)
    BY DEF AnomalyInv, AnomalyTypeOK
  <1>3. instant' \in Nat /\ keptStreak' \in Nat \cup {Unkept} /\ 0..instant \subseteq 0..instant'
    BY <1>1, <1>2
  <1>4. seenSignals \in Seq(0..instant')
    BY <1>2, <1>3
  <1>5. AnomalyTypeOK'
    BY <1>1, <1>3, <1>4 DEF AnomalyInv, AnomalyTypeOK
  <1>6. OneAlertEach' /\ CriticalOnlyRestored' /\ StreakSeen' /\ ReturnSeen'
    BY <1>1 DEF AnomalyInv, OneAlertEach, CriticalOnlyRestored, StreakSeen, ReturnSeen
  <1>. QED
    BY <1>5, <1>6 DEF AnomalyInv

(* Every step of the detector keeps its invariant.                         *)
LEMMA AnomalyKeeps ==
    ASSUME AnomalyInv, AnomalyNext \/ UNCHANGED anomalyVars
    PROVE  AnomalyInv'
  BY RecordPriceKeeps, RecordSignalKeeps, RecordTradeResultKeeps, ClearResolvedKeeps,
     StartDetectorKeeps, RestartDetectorKeeps, DetectorStandsKeeps DEF AnomalyNext

(* The detector begins with nothing seen and nothing active.               *)
LEMMA InitAnomalyInv == AnomalyInit => AnomalyInv
  <1>. SUFFICES ASSUME AnomalyInit PROVE AnomalyInv
    OBVIOUS
  <1>1. AnomalyTypeOK
    <2>1. <<>> \in Seq(Int) /\ <<>> \in Seq(0..0)
      OBVIOUS
    <2>2. /\ [k \in Kinds |-> "none"] \in [Kinds -> {"none", "medium", "high", "critical"}]
          /\ [k \in Kinds |-> 0] \in [Kinds -> Nat]
      OBVIOUS
    <2>. QED
      BY <2>1, <2>2 DEF AnomalyInit, AnomalyTypeOK
  <1>2. OneAlertEach
    BY DEF AnomalyInit, OneAlertEach
  <1>3. CriticalOnlyRestored /\ StreakSeen /\ ReturnSeen
    BY DEF AnomalyInit, CriticalOnlyRestored, StreakSeen, ReturnSeen, Kinds
  <1>. QED
    BY <1>1, <1>2, <1>3 DEF AnomalyInv

(* When all the signals remembered are recent, their rate is at most the   *)
(* rate of the window, so no burst is seen.                                *)
LEMMA BurstUnseen ==
    ASSUME AnomalyInv
    PROVE  FullBurstUnseen
  <1> DEFINE s == seenSignals
             n == Len(s)
             recent == Cardinality({i \in DOMAIN s : instant - s[i] < RecentFor})
             lasted == s[n] - s[1]
  <1>1. SUFFICES ASSUME s # <<>>, instant - s[1] < RecentFor
                 PROVE  FrequencyRatio(s)[1] <= FrequencyRatio(s)[2]
    BY DEF FullBurstUnseen
  <1>2. s \in Seq(0..instant) /\ instant \in Nat
    BY DEF AnomalyInv, AnomalyTypeOK
  <1>3. n \in Nat /\ n >= 1 /\ DOMAIN s = 1..n
    BY <1>1, <1>2
  <1>4. s[1] \in 0..instant /\ s[n] \in 0..instant
    BY <1>2, <1>3
  <1>5. lasted \in Int /\ lasted < RecentFor /\ RecentFor \in Nat
    BY <1>1, <1>2, <1>4, AnomalyNumbers
  <1>6. recent \in Nat /\ recent <= n
    <2>1. IsFiniteSet(1..n) /\ Cardinality(1..n) = n
      BY <1>3, FS_Interval
    <2>. QED
      BY <1>3, <2>1, FS_Subset, FS_CardinalityType
  <1>. HIDE DEF recent, lasted, n
  <1>7. recent * lasted <= n * RecentFor
    <2>1. CASE lasted < 0
      <3>1. recent * lasted <= 0
        BY <1>5, <1>6, <2>1
      <3>2. n * RecentFor >= 0
        BY <1>3, <1>5
      <3>3. recent * lasted \in Int /\ n * RecentFor \in Int
        BY <1>3, <1>5, <1>6
      <3>. QED
        BY <3>1, <3>2, <3>3
    <2>2. CASE lasted >= 0
      <3>1. recent * lasted <= n * lasted
        BY <1>3, <1>5, <1>6, <2>2
      <3>2. n * lasted <= n * RecentFor
        BY <1>3, <1>5, <2>2
      <3>3. recent * lasted \in Int /\ n * lasted \in Int /\ n * RecentFor \in Int
        BY <1>3, <1>5, <1>6
      <3>. QED
        BY <3>1, <3>2, <3>3
    <2>. QED
      BY <1>5, <2>1, <2>2
  <1>8. FrequencyRatio(s) \in {<<1, 1>>, <<recent * lasted, n * RecentFor>>}
    BY DEF FrequencyRatio, recent, lasted, n
  <1>. QED
    BY <1>7, <1>8

(* The invariant has what the detector is asked for.                       *)
LEMMA AnomaliesFollow ==
    ASSUME AnomalyInv
    PROVE  AnomaliesSound
  <1>1. OneAlertEach /\ CriticalOnlyRestored /\ FullBurstUnseen
    BY BurstUnseen DEF AnomalyInv
  <1>2. NoFlapping
    <2>1. seenReturns # <<>> /\ ZBeyond(seenReturns, VolatilityHalves, 1)
             => ~Passed("price_volatility") /\ anomalies["price_volatility"] # "none"
      BY StillBeyond DEF AnomalyInv, AnomalyTypeOK, ReturnSeen, Passed
    <2>2. lossStreak >= LossStreak /\ restoredStreak = 0 => anomalies["loss_streak"] # "none"
      BY AnomalyNumbers DEF AnomalyInv, AnomalyTypeOK, StreakSeen
    <2>. QED
      BY <2>1, <2>2 DEF NoFlapping
  <1>. QED
    BY <1>1, <1>2 DEF AnomaliesSound

-----------------------------------------------------------------------------
(* The tracker of performance: drawdowns                                   *)

Drawdowns == [lost : Nat, from : Nat \ {0}]

(* The top of some numbers and a level is the highest of them.             *)
LEMMA TopIs ==
    ASSUME NEW S \in SUBSET Int, IsFiniteSet(S), NEW b \in Int
    PROVE  /\ TopOf(S, b) \in S \cup {b}
           /\ TopOf(S, b) \in Int /\ b <= TopOf(S, b)
           /\ \A n \in S : n <= TopOf(S, b)
  <1>1. /\ S \cup {b} \in SUBSET Int /\ IsFiniteSet(S \cup {b}) /\ S \cup {b} # {}
    BY FS_AddElement
  <1>2. /\ Max(S \cup {b}) \in S \cup {b}
        /\ \A x \in S \cup {b} : x <= Max(S \cup {b})
    BY <1>1, LastIs
  <1>3. TopOf(S, b) \in S \cup {b} /\ \A x \in S \cup {b} : x <= TopOf(S, b)
    BY <1>2 DEF TopOf
  <1>. QED
    BY <1>1, <1>3

(* What the trades amount to is a number after each of them.               *)
LEMMA EquityIs ==
    ASSUME NEW trades \in Seq(Int)
    PROVE  /\ Equity(trades) \in [1..Len(trades) -> Int]
           /\ TotalPnl(trades) \in Int
           /\ trades # <<>> => Equity(trades)[Len(trades)] = TotalPnl(trades)
           /\ IsFiniteSet(Range(Equity(trades))) /\ Range(Equity(trades)) \subseteq Int
           /\ trades # <<>> => TotalPnl(trades) \in Range(Equity(trades))
  <1>1. \A s \in Seq(Int) : TotalPnl(s) \in Int
    <2>. TAKE s \in Seq(Int)
    <2>1. DOMAIN s = 1..Len(s) /\ IsFiniteSet(DOMAIN s) /\ \A i \in DOMAIN s : s[i] \in Int
      BY FS_Interval
    <2>. QED
      BY <2>1, SumRule, TotalIs
  <1>2. \A i \in 1..Len(trades) : SubSeq(trades, 1, i) \in Seq(Int)
    OBVIOUS
  <1>3. Equity(trades) = [i \in 1..Len(trades) |-> TotalPnl(SubSeq(trades, 1, i))]
    BY DEF Equity
  <1>4. Equity(trades) \in [1..Len(trades) -> Int]
    BY <1>1, <1>2, <1>3
  <1>5. trades # <<>> => Equity(trades)[Len(trades)] = TotalPnl(trades)
    <2>1. trades # <<>> => Len(trades) \in 1..Len(trades) /\ SubSeq(trades, 1, Len(trades)) = trades
      OBVIOUS
    <2>. QED
      BY <1>3, <2>1
  <1> DEFINE worth == Equity(trades)
  <1>6. Range(worth) \subseteq Int
    BY <1>4 DEF Range
  <1>. HIDE DEF worth
  <1>7. IsFiniteSet(Range(worth))
    <2>1. worth \in [1..Len(trades) -> Int]
      BY <1>4 DEF worth
    <2>2. worth \in Seq(Range(worth)) /\ \A x \in Range(worth) : \E n \in 1..Len(worth) : worth[n] = x
      BY <2>1 DEF Range
    <2>. QED
      BY <2>2 DEF IsFiniteSet
  <1>8. trades # <<>> => TotalPnl(trades) \in Range(worth)
    <2>1. trades # <<>> => Len(trades) \in DOMAIN Equity(trades)
      BY <1>4
    <2>. QED
      BY <1>5, <2>1 DEF Range, worth
  <1>. QED
    BY <1>1, <1>4, <1>5, <1>6, <1>7, <1>8 DEF worth

(* Not to be deeper is an order of the drawdowns: a fraction at most       *)
(* another, which is at most a third, is at most the third.                *)
LEMMA DeeperOrders ==
    ASSUME NEW d \in Drawdowns, NEW e \in Drawdowns, NEW g \in Drawdowns,
           ~Deeper(d, e), ~Deeper(e, g)
    PROVE  ~Deeper(d, g)
  <1>1. PICK a \in Nat, b \in Nat \ {0} : a = d.lost /\ b = d.from
    BY DEF Drawdowns
  <1>2. PICK c \in Nat, f \in Nat \ {0} : c = e.lost /\ f = e.from
    BY DEF Drawdowns
  <1>3. PICK h \in Nat, k \in Nat \ {0} : h = g.lost /\ k = g.from
    BY DEF Drawdowns
  <1>4. a * f <= c * b /\ c * k <= h * f
    BY <1>1, <1>2, <1>3 DEF Deeper
  <1>5. a * k <= h * b
    <2>1. (a * f) * k <= (c * b) * k
      BY <1>4
    <2>2. (c * k) * b <= (h * f) * b
      BY <1>4
    <2>3. (c * b) * k = (c * k) * b
      OBVIOUS
    <2>4. (a * f) * k = (a * k) * f /\ (h * f) * b = (h * b) * f
      OBVIOUS
    <2>5. PICK x \in Nat, y \in Nat : x = a * k /\ y = h * b
      OBVIOUS
    <2>6. x * f <= y * f
      BY <2>1, <2>2, <2>3, <2>4, <2>5
    <2>7. x <= y
      BY <2>6
    <2>. QED
      BY <2>5, <2>7
  <1>. QED
    BY <1>1, <1>3, <1>5 DEF Deeper

(* The peak at a trade, and all the falls from one.                        *)
TopAt(trades, before, i) == TopOf({Equity(trades)[j] : j \in 1..i}, before)
FallAt(trades, before, i) ==
    [lost |-> TopAt(trades, before, i) - Equity(trades)[i], from |-> TopAt(trades, before, i)]
AllFalls(trades, before) ==
    {FallAt(trades, before, i) : i \in {j \in DOMAIN trades : TopAt(trades, before, j) > 0}}
        \cup {NoDrawdown}

(* The peak at a trade is at least what was reached by then and before,    *)
(* and it is one of them.                                                  *)
LEMMA TopAtIs ==
    ASSUME NEW trades \in Seq(Int), NEW before \in Nat, NEW i \in 1..Len(trades)
    PROVE  /\ TopAt(trades, before, i) \in Nat /\ before <= TopAt(trades, before, i)
           /\ Equity(trades)[i] \in Int /\ Equity(trades)[i] <= TopAt(trades, before, i)
           /\ \A b \in Nat : b <= before => TopAt(trades, b, i) <= TopAt(trades, before, i)
  <1> DEFINE reached == {Equity(trades)[j] : j \in 1..i}
  <1>1. 1..i \subseteq 1..Len(trades) /\ i \in 1..i
    OBVIOUS
  <1>2. Equity(trades) \in [1..Len(trades) -> Int] /\ IsFiniteSet(Range(Equity(trades)))
    BY EquityIs
  <1>3. /\ reached \subseteq Range(Equity(trades)) /\ reached \subseteq Int
        /\ Equity(trades)[i] \in reached /\ Equity(trades)[i] \in Int
    BY <1>1, <1>2 DEF Range
  <1>4. IsFiniteSet(reached)
    BY <1>2, <1>3, FS_Subset
  <1>. HIDE DEF reached
  <1>5. \A b \in Nat : /\ TopOf(reached, b) \in reached \cup {b}
                       /\ TopOf(reached, b) \in Int /\ b <= TopOf(reached, b)
                       /\ \A n \in reached : n <= TopOf(reached, b)
    <2>1. TAKE b \in Nat
    <2>2. reached \in SUBSET Int /\ b \in Int
      BY <1>3
    <2>. QED
      BY <1>4, <2>2, TopIs
  <1>6. \A b \in Nat : b <= before => TopOf(reached, b) <= TopOf(reached, before)
    BY <1>5
  <1>7. TopOf(reached, before) \in Nat
    BY <1>5
  <1>. QED
    BY <1>3, <1>5, <1>6, <1>7 DEF TopAt, reached

(* The drawdown is the deepest of the falls.                               *)
LEMMA DrawdownIs ==
    ASSUME NEW trades \in Seq(Int), NEW before \in Nat
    PROVE  /\ AllFalls(trades, before) \subseteq Drawdowns
           /\ DrawdownOf(trades, before) \in AllFalls(trades, before)
           /\ \A e \in AllFalls(trades, before) : ~Deeper(e, DrawdownOf(trades, before))
  <1> DEFINE n == Len(trades)
             J == {j \in DOMAIN trades : TopAt(trades, before, j) > 0}
             falls == [i \in 1..n |-> FallAt(trades, before, i)]
             all == AllFalls(trades, before)
  <1>1. n \in Nat /\ DOMAIN trades = 1..n
    OBVIOUS
  <1>2. \A i \in J : FallAt(trades, before, i) \in Drawdowns
    <2>. TAKE i \in J
    <2>1. /\ TopAt(trades, before, i) \in Nat \ {0} /\ Equity(trades)[i] \in Int
          /\ Equity(trades)[i] <= TopAt(trades, before, i)
      BY <1>1, TopAtIs
    <2>2. TopAt(trades, before, i) - Equity(trades)[i] \in Nat
      BY <2>1
    <2>. QED
      BY <2>1, <2>2 DEF FallAt, Drawdowns
  <1>3. NoDrawdown \in Drawdowns
    BY DEF NoDrawdown, Drawdowns
  <1>4. all \subseteq Drawdowns /\ NoDrawdown \in all
    BY <1>2, <1>3 DEF AllFalls
  <1>5. IsFiniteSet(all)
    <2>1. falls \in Seq(Range(falls)) /\ Len(falls) = n
      BY <1>1 DEF Range
    <2>2. \A x \in Range(falls) : \E k \in 1..Len(falls) : falls[k] = x
      BY <1>1, <2>1 DEF Range
    <2>3. IsFiniteSet(Range(falls))
      BY <2>1, <2>2 DEF IsFiniteSet
    <2>4. all \subseteq Range(falls) \cup {NoDrawdown}
      BY <1>1 DEF AllFalls, Range
    <2>. QED
      BY <2>3, <2>4, FS_AddElement, FS_Subset
  <1> DEFINE R == {p \in Drawdowns \X Drawdowns : ~Deeper(p[1], p[2])}
  <1>6. \A d, e \in Drawdowns : <<d, e>> \in R <=> ~Deeper(d, e)
    OBVIOUS
  <1>7. \A d, e \in Drawdowns : ~Deeper(d, e) \/ ~Deeper(e, d)
    <2>. SUFFICES ASSUME NEW d \in Drawdowns, NEW e \in Drawdowns
                  PROVE  ~Deeper(d, e) \/ ~Deeper(e, d)
      OBVIOUS
    <2>1. d.lost * e.from \in Int /\ e.lost * d.from \in Int
      BY DEF Drawdowns
    <2>. QED
      BY <2>1 DEF Deeper
  <1>8. \A d, e, g \in Drawdowns : ~Deeper(d, e) /\ ~Deeper(e, g) => ~Deeper(d, g)
    BY DeeperOrders
  <1>. HIDE DEF R, all
  <1>9. /\ \A d, e \in all : <<d, e>> \in R \/ <<e, d>> \in R
        /\ \A d, e, g \in all : <<d, e>> \in R /\ <<e, g>> \in R => <<d, g>> \in R
    BY <1>4, <1>6, <1>7, <1>8
  <1>10. \E m \in all : \A e \in all : <<e, m>> \in R
    BY <1>4, <1>5, <1>9, GreatestBy
  <1>11. \E m \in all : \A e \in all : ~Deeper(e, m)
    BY <1>4, <1>6, <1>10
  <1>12. DrawdownOf(trades, before) = CHOOSE d \in all : \A e \in all : ~Deeper(e, d)
    BY DEF DrawdownOf, all, AllFalls, FallAt, TopAt
  <1>. QED
    BY <1>4, <1>11, <1>12 DEF all

(* A higher peak before the trades hides none of what was lost: each fall  *)
(* is then one from a peak as high or higher.                              *)
LEMMA DrawdownDeepens ==
    ASSUME NEW trades \in Seq(Int), NEW before \in Nat,
           NEW d, d = DrawdownOf(trades, 0)
    PROVE  ~Deeper(IF d.lost > d.from THEN [lost |-> 1, from |-> 1] ELSE d,
                   DrawdownOf(trades, before))
  <1> DEFINE share == IF d.lost > d.from THEN [lost |-> 1, from |-> 1] ELSE d
             deepest == DrawdownOf(trades, before)
  <1>1. d \in AllFalls(trades, 0) /\ d \in Drawdowns
    <2>1. 0 \in Nat
      OBVIOUS
    <2>. QED
      BY <2>1, DrawdownIs
  <1>2. share \in Drawdowns
    <2>1. [lost |-> 1, from |-> 1] \in Drawdowns
      BY DEF Drawdowns
    <2>. QED
      BY <1>1, <2>1
  <1>3. /\ deepest \in Drawdowns /\ AllFalls(trades, before) \subseteq Drawdowns
        /\ \A e \in AllFalls(trades, before) : ~Deeper(e, deepest)
    BY DrawdownIs
  <1>4. CASE d = NoDrawdown
    <2>1. share = NoDrawdown /\ NoDrawdown \in AllFalls(trades, before)
      BY <1>4 DEF NoDrawdown, AllFalls
    <2>. HIDE DEF share, deepest
    <2>. QED
      BY <1>3, <2>1 DEF share, deepest
  <1>5. CASE d # NoDrawdown
    <2>1. PICK i \in DOMAIN trades : TopAt(trades, 0, i) > 0 /\ d = FallAt(trades, 0, i)
      BY <1>1, <1>5 DEF AllFalls
    <2>2. i \in 1..Len(trades) /\ 0 \in Nat
      OBVIOUS
    <2> DEFINE e == FallAt(trades, before, i)
    <2>3. PICK a \in Nat, b \in Nat, q \in Int :
             /\ a = TopAt(trades, 0, i) /\ b = TopAt(trades, before, i) /\ q = Equity(trades)[i]
             /\ a <= b /\ q <= a /\ q <= b /\ a > 0
      <3>1. /\ TopAt(trades, 0, i) \in Nat /\ Equity(trades)[i] <= TopAt(trades, 0, i)
            /\ Equity(trades)[i] \in Int
        BY <2>2, TopAtIs
      <3>2. /\ TopAt(trades, before, i) \in Nat
            /\ Equity(trades)[i] <= TopAt(trades, before, i)
            /\ TopAt(trades, 0, i) <= TopAt(trades, before, i)
        BY <2>2, TopAtIs
      <3>. QED
        BY <2>1, <3>1, <3>2
    <2>4. d = [lost |-> a - q, from |-> a] /\ e = [lost |-> b - q, from |-> b]
      BY <2>1, <2>3 DEF FallAt
    <2>5. e \in AllFalls(trades, before)
      BY <2>1, <2>3 DEF AllFalls
    <2>. HIDE DEF e
    <2>6. ~Deeper(share, e)
      <3>1. CASE q < 0
        <4>1. a - q > a
          BY <3>1
        <4>2. share = [lost |-> 1, from |-> 1]
          BY <2>4, <4>1
        <4>3. 1 * b <= (b - q) * 1
          BY <3>1
        <4>. QED
          BY <2>4, <4>2, <4>3 DEF Deeper
      <3>2. CASE q >= 0
        <4>1. ~(a - q > a)
          BY <3>2
        <4>2. share = [lost |-> a - q, from |-> a]
          BY <2>4, <4>1
        <4>3. (a - q) * b <= (b - q) * a
          <5>1. q * a <= q * b
            BY <2>3, <3>2
          <5>2. (a - q) * b = a * b - q * b /\ (b - q) * a = a * b - q * a
            OBVIOUS
          <5>3. PICK u \in Int, v \in Int, w \in Int : u = a * b /\ v = q * b /\ w = q * a
            OBVIOUS
          <5>4. u - v <= u - w
            BY <5>1, <5>3
          <5>. QED
            BY <5>2, <5>3, <5>4
        <4>4. PICK x \in Int, y \in Int : x = a - q /\ y = b - q
          OBVIOUS
        <4>5. x * b <= y * a
          BY <4>3, <4>4
        <4>6. share.lost = x /\ share.from = a /\ e.lost = y /\ e.from = b
          BY <2>4, <4>2, <4>4
        <4>. QED
          BY <4>5, <4>6 DEF Deeper
      <3>. QED
        BY <3>1, <3>2
    <2>7. ~Deeper(e, deepest) /\ e \in Drawdowns
      BY <1>3, <2>5
    <2>. HIDE DEF share, deepest
    <2>8. ~Deeper(share, deepest)
      BY <1>2, <1>3, <2>6, <2>7, DeeperOrders
    <2>. QED
      BY <2>8 DEF share, deepest
  <1>. QED
    BY <1>4, <1>5

-----------------------------------------------------------------------------
(* The tracker of performance: rows                                        *)

(* What is in the database, and the lengths of its batches.                *)
Stored(batches) == FoldFunction(LAMBDA b, all : b \o all, <<>>, batches)
Lengths(batches) == [i \in DOMAIN batches |-> Len(batches[i])]

(* What is stored has the rows of the batches, each as often as they do.   *)
LEMMA StoredIs ==
    ASSUME NEW batches \in Seq(Seq(Nat))
    PROVE  /\ Stored(batches) \in Seq(Nat)
           /\ Range(Stored(batches)) = UNION {Range(batches[i]) : i \in DOMAIN batches}
           /\ Len(Stored(batches)) = SumFunctionOnSet(Lengths(batches), DOMAIN batches)
  <1> DEFINE D == DOMAIN batches
             first(T) == CHOOSE x \in T : TRUE
             F == [p \in D \X Seq(Nat) |-> batches[p[1]] \o p[2]]
             lens == Lengths(batches)
             allRows(T) == UNION {Range(batches[i]) : i \in T}
             Is(it) == it = [T \in SUBSET D |->
                                IF T = {} THEN <<>> ELSE batches[first(T)] \o it[T \ {first(T)}]]
  <1>1. /\ D = 1..Len(batches) /\ IsFiniteSet(D) /\ \A i \in D : batches[i] \in Seq(Nat)
        /\ <<>> \in Seq(Nat)
    BY FS_Interval
  <1>2. F \in [D \X Seq(Nat) -> Seq(Nat)] /\ \A x \in D, v \in Seq(Nat) : F[<<x, v>>] = batches[x] \o v
    <2>1. \A x \in D, v \in Seq(Nat) : batches[x] \o v \in Seq(Nat)
      BY <1>1, ConcatRange
    <2>. HIDE DEF D
    <2>2. \A p \in D \X Seq(Nat) : batches[p[1]] \o p[2] \in Seq(Nat)
      BY <2>1
    <2>. QED
      BY <2>2
  <1>3. \A T \in SUBSET D : T # {} => first(T) \in T /\ first(T) \in D
    OBVIOUS
  <1>4. \A i \in D : lens[i] \in Nat /\ lens[i] \in Int /\ lens[i] = Len(batches[i])
    BY <1>1 DEF Lengths
  <1>. HIDE DEF D, F, first, lens
  <1>5. PICK it \in [SUBSET D -> Seq(Nat)] : FoldsOver(it, D, <<>>, F)
    BY <1>1, <1>2, FoldExists
  <1>6. \A T \in SUBSET D : it[T] = IF T = {} THEN <<>> ELSE batches[first(T)] \o it[T \ {first(T)}]
    BY <1>2, <1>3, <1>5 DEF FoldsOver, first
  <1>7. Is(it)
    BY <1>5, <1>6
  <1>8. Is(CHOOSE q : Is(q))
    BY <1>7
  <1>9. Stored(batches) = (CHOOSE q : Is(q))[D]
    BY DEF Stored, FoldFunction, FoldFunctionOnSet, MapThenFoldSet, D, first
  <1>10. PICK jt : Is(jt) /\ Stored(batches) = jt[D]
    BY <1>8, <1>9
  <1> DEFINE Good(T) == /\ jt[T] \in Seq(Nat) /\ Range(jt[T]) = allRows(T)
                        /\ Len(jt[T]) = SumFunctionOnSet(lens, T)
             Bad == {n \in Nat : \E T \in SUBSET D : Cardinality(T) = n /\ ~Good(T)}
  <1>11. jt[{}] = <<>> /\ \A T \in SUBSET D : T # {} => jt[T] = batches[first(T)] \o jt[T \ {first(T)}]
    BY <1>10
  <1>12. \A s, t \in Seq(Nat) : /\ s \o t \in Seq(Nat) /\ Range(s \o t) = Range(s) \cup Range(t)
                                /\ Len(s \o t) = Len(s) + Len(t)
    BY ConcatRange
  <1>13. Bad = {}
    <2>1. SUFFICES ASSUME Bad # {} PROVE FALSE
      OBVIOUS
    <2>2. PICK n \in Bad : \A k \in Bad : n <= k
      BY <2>1, LeastIs
    <2>3. PICK T \in SUBSET D : Cardinality(T) = n /\ ~Good(T)
      OBVIOUS
    <2>4. Good({})
      <3>1. SumFunctionOnSet(lens, {}) = 0
        BY SumRule, FS_EmptySet
      <3>2. Range(<<>>) = {} /\ allRows({}) = {} /\ Len(<<>>) = 0
        BY DEF Range
      <3>. QED
        BY <1>1, <1>11, <3>1, <3>2
    <2>5. T # {}
      BY <2>3, <2>4
    <2> DEFINE y == first(T)
               rest == T \ {y}
    <2>6. y \in T /\ y \in D /\ jt[T] = batches[y] \o jt[rest] /\ batches[y] \in Seq(Nat)
      BY <1>1, <1>3, <1>11, <2>5
    <2>7. IsFiniteSet(T) /\ n \in Nat /\ rest \in SUBSET D
      BY <1>1, FS_Subset
    <2>. HIDE DEF y
    <2>8. Cardinality(rest) = n - 1 /\ Cardinality(rest) \in Nat /\ ~(n <= n - 1)
      <3>1. Cardinality(rest) = Cardinality(T) - 1
        BY <2>6, <2>7, FS_RemoveElement
      <3>2. IsFiniteSet(rest)
        BY <2>7, FS_Subset
      <3>3. Cardinality(rest) \in Nat
        BY <3>2, FS_CardinalityType
      <3>. QED
        BY <2>3, <2>7, <3>1, <3>3
    <2>9. Good(rest)
      <3>1. n - 1 \notin Bad
        BY <2>2, <2>8
      <3>. QED
        BY <2>7, <2>8, <3>1
    <2>10. SumFunctionOnSet(lens, T) = lens[y] + SumFunctionOnSet(lens, rest)
      <3>1. \A i \in T : lens[i] \in Int
        BY <1>4
      <3>. QED
        BY <2>6, <2>7, <3>1, SumRule
    <2>11. allRows(T) = Range(batches[y]) \cup allRows(rest)
      BY <2>6
    <2>. HIDE DEF rest, allRows
    <2>12. Good(T)
      <3>1. jt[T] \in Seq(Nat) /\ Range(jt[T]) = allRows(T)
        BY <1>12, <2>6, <2>9, <2>11
      <3>2. Len(jt[T]) = Len(batches[y]) + Len(jt[rest])
        BY <1>12, <2>6, <2>9
      <3>3. Len(jt[T]) = SumFunctionOnSet(lens, T)
        BY <1>4, <2>6, <2>9, <2>10, <3>2
      <3>. QED
        BY <3>1, <3>3
    <2>. QED
      BY <2>3, <2>12
  <1>14. Good(D)
    <2>1. Cardinality(D) \in Nat /\ D \in SUBSET D
      BY <1>1, FS_CardinalityType
    <2>. QED
      BY <1>13, <2>1
  <1>. QED
    BY <1>10, <1>14 DEF D, lens

(* A batch that is stored adds its rows.                                   *)
LEMMA StoredGrows ==
    ASSUME NEW batches \in Seq(Seq(Nat)), NEW b \in Seq(Nat)
    PROVE  /\ Range(Stored(Append(batches, b))) = Range(Stored(batches)) \cup Range(b)
           /\ Len(Stored(Append(batches, b))) = Len(Stored(batches)) + Len(b)
           /\ Stored(batches) \in Seq(Nat)
  <1> DEFINE more == Append(batches, b)
             n == Len(batches)
  <1>1. /\ more \in Seq(Seq(Nat)) /\ n \in Nat /\ DOMAIN batches = 1..n /\ DOMAIN more = 1..(n + 1)
        /\ \A i \in 1..n : more[i] = batches[i] /\ batches[i] \in Seq(Nat)
        /\ more[n + 1] = b
    OBVIOUS
  <1>. HIDE DEF more, n
  <1>2. 1..(n + 1) = (1..n) \cup {n + 1} /\ n + 1 \notin 1..n /\ IsFiniteSet(1..n)
    <2>1. 1..(n + 1) = (1..n) \cup {n + 1} /\ n + 1 \notin 1..n
      BY <1>1
    <2>2. IsFiniteSet(1..n)
      <3>1. 1 \in Int /\ n \in Int
        BY <1>1
      <3>. QED
        BY <3>1, FS_Interval
    <2>. QED
      BY <2>1, <2>2
  <1>3. UNION {Range(more[i]) : i \in DOMAIN more} =
           (UNION {Range(batches[i]) : i \in DOMAIN batches}) \cup Range(b)
    BY <1>1, <1>2
  <1>4. SumFunctionOnSet(Lengths(more), DOMAIN more) =
           SumFunctionOnSet(Lengths(batches), DOMAIN batches) + Len(b)
    <2>1. /\ \A i \in 1..n : Lengths(more)[i] = Lengths(batches)[i] /\ Lengths(more)[i] \in Int
          /\ Lengths(more)[n + 1] = Len(b) /\ Len(b) \in Int
      BY <1>1 DEF Lengths
    <2>2. SumFunctionOnSet(Lengths(more), (1..n) \cup {n + 1}) =
             SumFunctionOnSet(Lengths(more), 1..n) + Lengths(more)[n + 1]
      <3>1. PICK S, t : S = 1..n /\ t = n + 1
        OBVIOUS
      <3>2. /\ IsFiniteSet(S) /\ t \notin S /\ Lengths(more)[t] \in Int
            /\ \A i \in S : Lengths(more)[i] \in Int
        BY <1>2, <2>1, <3>1
      <3>3. SumFunctionOnSet(Lengths(more), S \cup {t}) =
               SumFunctionOnSet(Lengths(more), S) + Lengths(more)[t]
        BY <3>2, SumGrows
      <3>. QED
        BY <3>1, <3>3
    <2>3. SumFunctionOnSet(Lengths(more), 1..n) = SumFunctionOnSet(Lengths(batches), 1..n)
      BY <1>2, <2>1, SumOfSame
    <2>. QED
      BY <1>1, <1>2, <2>1, <2>2, <2>3
  <1>. QED
    BY <1>1, <1>3, <1>4, StoredIs DEF more

(* Trades are numbers, rows are counted, the peak is never below zero.     *)
Metrics == [known : BOOLEAN, count : Nat, pnl : Int, wins : Nat, losses : Nat, drawdown : Drawdowns]

PerformanceTypeOK ==
    /\ tradeHistory \in [Symbols -> Seq(Int)] /\ metric \in [Symbols -> Metrics] /\ peak \in Nat
    /\ rowBuffer \in Seq(Nat) /\ insertingRows \in Seq(Nat)
    /\ storedBatches \in Seq(Seq(Nat)) /\ rowsMade \in Nat
    /\ droppedRows \in Seq(Nat) /\ database \in BOOLEAN
    /\ aggregator \in {"off", "on", "stuck"} /\ stopper \in {"none", "flushing", "stuck"}

(* Rows are on their way only while stop() flushes, which found less than  *)
(* a batch of them and left none.                                          *)
FlushInOrder ==
    /\ stopper # "flushing" => insertingRows = <<>>
    /\ stopper = "flushing" => /\ rowBuffer = <<>> /\ aggregator = "on" /\ database
                               /\ Len(insertingRows) < RowBatch

PerformanceInv ==
    /\ PerformanceTypeOK /\ FlushInOrder /\ RowsInOnePlace /\ FullBatchStuck
    /\ DrawdownNotHidden /\ PeakCovers

(* The sizes are numbers, the symbols finitely many.                       *)
LEMMA PerformanceNumbers ==
    /\ IsFiniteSet(Symbols) /\ Pnls \subseteq Int /\ KeepTrades \in Nat \ {0}
    /\ RowBatch \in Nat \ {0} /\ RowLimit \in Nat /\ RowLimit >= RowBatch
  BY PerformanceAssumption

(* Every row is in one place, with what is stored named.                   *)
RowsPlaced ==
    /\ Range(Stored(storedBatches)) \cup Range(insertingRows) \cup Range(rowBuffer)
          \cup Range(droppedRows) = 1..rowsMade
    /\ Len(Stored(storedBatches)) + Len(insertingRows) + Len(rowBuffer) + Len(droppedRows) = rowsMade
    /\ IF database THEN droppedRows = <<>> ELSE Stored(storedBatches) = <<>> /\ insertingRows = <<>>

(* The two say the same of the rows.                                       *)
LEMMA RowsAre == RowsInOnePlace <=> RowsPlaced
  BY DEF RowsInOnePlace, RowsPlaced, Stored

(* Rows that no step touches are where they were.                          *)
LEMMA RowsStay ==
    ASSUME RowsInOnePlace,
           UNCHANGED <<storedBatches, insertingRows, rowBuffer, rowsMade, droppedRows, database>>
    PROVE  RowsInOnePlace'
  <1>1. RowsPlaced'
    BY RowsAre DEF RowsPlaced
  <1>2. RowsInOnePlace' <=> RowsPlaced'
    BY RowsAre, PTL
  <1>. QED
    BY <1>1, <1>2

(* A trade is recorded: its symbol's drawdown is measured from the peak of *)
(* them all, which then covers what the symbol has.                        *)
LEMMA RecordTradeKeeps ==
    ASSUME PerformanceInv, NEW s \in Symbols, NEW pnl \in Pnls, RecordTrade(s, pnl)
    PROVE  PerformanceInv'
  <1> DEFINE all == Append(tradeHistory[s], pnl)
             trades == IF Len(all) > KeepTrades THEN Tail(all) ELSE all
  <1>1. /\ tradeHistory' = [tradeHistory EXCEPT ![s] = trades]
        /\ metric' = [metric EXCEPT ![s] = Measured(trades)]
        /\ peak' = TopOf(Range(Equity(trades)), peak)
        /\ UNCHANGED <<rowBuffer, aggregator, stopper, database, insertingRows, passes, rowsMade,
                       storedBatches, droppedRows>>
    BY DEF RecordTrade
  <1>2. trades \in Seq(Int) /\ trades # <<>>
    <2>1. tradeHistory[s] \in Seq(Int) /\ pnl \in Int /\ KeepTrades \in Nat \ {0}
      BY PerformanceNumbers DEF PerformanceInv, PerformanceTypeOK
    <2>2. all \in Seq(Int) /\ Len(all) \in Nat \ {0} /\ all # <<>>
      <3>1. PICK u : u = tradeHistory[s] /\ u \in Seq(Int)
        BY <2>1
      <3>2. Append(u, pnl) \in Seq(Int)
        BY <2>1, <3>1
      <3>3. Len(Append(u, pnl)) = Len(u) + 1 /\ Len(u) \in Nat
        BY <2>1, <3>1
      <3>4. Len(all) \in Nat \ {0} /\ all \in Seq(Int)
        BY <3>1, <3>2, <3>3
      <3>. QED
        BY <3>4
    <2>. HIDE DEF all
    <2>3. CASE Len(all) > KeepTrades
      <3>1. Tail(all) \in Seq(Int) /\ Len(Tail(all)) = Len(all) - 1
        BY <2>2
      <3>2. Len(Tail(all)) > 0
        BY <2>1, <2>2, <2>3, <3>1
      <3>3. Tail(all) # <<>>
        <4>1. Len(<<>>) = 0
          OBVIOUS
        <4>. QED
          BY <3>2, <4>1
      <3>4. trades = Tail(all)
        BY <2>3
      <3>. QED
        BY <3>1, <3>3, <3>4
    <2>4. CASE ~(Len(all) > KeepTrades)
      BY <2>2, <2>4
    <2>. QED
      BY <2>3, <2>4
  <1>. HIDE DEF trades
  <1>3. /\ TotalPnl(trades) \in Int /\ TotalPnl(trades) \in Range(Equity(trades))
        /\ IsFiniteSet(Range(Equity(trades))) /\ Range(Equity(trades)) \subseteq Int
    BY <1>2, EquityIs
  <1>4. peak \in Nat
    BY DEF PerformanceInv, PerformanceTypeOK
  <1>5. peak' \in Nat /\ peak <= peak' /\ TotalPnl(trades) <= peak'
    BY <1>1, <1>3, <1>4, TopIs
  <1>6. DrawdownOf(trades, peak) \in Drawdowns
    BY <1>2, <1>4, DrawdownIs
  <1>7. Measured(trades) \in Metrics
    <2>1. DOMAIN trades = 1..Len(trades) /\ Len(trades) \in Nat /\ IsFiniteSet(1..Len(trades))
      BY <1>2, FS_Interval
    <2>2. /\ Cardinality({i \in DOMAIN trades : trades[i] > 0}) \in Nat
          /\ Cardinality({i \in DOMAIN trades : trades[i] < 0}) \in Nat
      BY <2>1, FS_Subset, FS_CardinalityType
    <2>. QED
      BY <1>3, <1>6, <2>1, <2>2 DEF Measured, Metrics
  <1>8. Measured(trades).pnl = TotalPnl(trades) /\ Measured(trades).drawdown = DrawdownOf(trades, peak)
    BY DEF Measured
  <1>9. /\ tradeHistory' \in [Symbols -> Seq(Int)] /\ metric' \in [Symbols -> Metrics]
        /\ tradeHistory'[s] = trades /\ metric'[s] = Measured(trades)
        /\ \A u \in Symbols : u # s => tradeHistory'[u] = tradeHistory[u] /\ metric'[u] = metric[u]
    BY <1>1, <1>2, <1>7 DEF PerformanceInv, PerformanceTypeOK
  <1>10. PerformanceTypeOK'
    BY <1>1, <1>5, <1>9 DEF PerformanceInv, PerformanceTypeOK
  <1>11. FlushInOrder' /\ RowsInOnePlace' /\ FullBatchStuck'
    BY <1>1, RowsStay DEF PerformanceInv, FlushInOrder, FullBatchStuck
  <1>12. PeakCovers'
    <2>. SUFFICES ASSUME NEW u \in Symbols PROVE metric'[u].pnl <= peak'
      BY DEF PeakCovers
    <2>1. CASE u = s
      BY <1>5, <1>8, <1>9, <2>1
    <2>2. CASE u # s
      <3>1. metric[u].pnl <= peak /\ metric[u].pnl \in Int
        BY DEF PerformanceInv, PeakCovers, PerformanceTypeOK, Metrics
      <3>. QED
        BY <1>4, <1>5, <1>9, <2>2, <3>1
    <2>. QED
      BY <2>1, <2>2
  <1>13. DrawdownNotHidden'
    <2> DEFINE share(d) == IF d.lost > d.from THEN [lost |-> 1, from |-> 1] ELSE d
    <2>1. \A u \in Symbols : tradeHistory[u] # <<>> =>
             ~Deeper(share(DrawdownOf(tradeHistory[u], 0)), metric[u].drawdown)
      BY DEF PerformanceInv, DrawdownNotHidden
    <2>2. ~Deeper(share(DrawdownOf(trades, 0)), DrawdownOf(trades, peak))
      BY <1>2, <1>4, DrawdownDeepens
    <2>. HIDE DEF share
    <2>3. \A u \in Symbols : tradeHistory'[u] # <<>> =>
             ~Deeper(share(DrawdownOf(tradeHistory'[u], 0)), metric'[u].drawdown)
      <3>. TAKE u \in Symbols
      <3>1. CASE u = s
        BY <1>8, <1>9, <2>2, <3>1
      <3>2. CASE u # s
        BY <1>9, <2>1, <3>2
      <3>. QED
        BY <3>1, <3>2
    <2>. QED
      BY <2>3 DEF DrawdownNotHidden, share
  <1>. QED
    BY <1>10, <1>11, <1>12, <1>13 DEF PerformanceInv

(* A metric after a reset.                                                 *)
Zeroed(m) ==
    [known |-> m.known, count |-> 0, pnl |-> 0, wins |-> 0, losses |-> 0, drawdown |-> m.drawdown]

(* A day's trades are forgotten, its drawdowns are not.                    *)
LEMMA ResetDailyStatsKeeps ==
    ASSUME PerformanceInv, ResetDailyStats
    PROVE  PerformanceInv'
  <1>1. /\ tradeHistory' = [s \in Symbols |-> <<>>] /\ peak' = 0
        /\ metric' = [s \in Symbols |-> Zeroed(metric[s])]
        /\ UNCHANGED <<rowBuffer, aggregator, stopper, database, insertingRows, passes, rowsMade,
                       storedBatches, droppedRows>>
    BY DEF ResetDailyStats, Zeroed
  <1>2. \A s \in Symbols : /\ Zeroed(metric[s]) \in Metrics
                           /\ Zeroed(metric[s]).pnl = 0
    <2> SUFFICES ASSUME NEW s \in Symbols
                 PROVE  /\ Zeroed(metric[s]) \in Metrics
                        /\ Zeroed(metric[s]).pnl = 0
      OBVIOUS
    <2>1. PICK d \in Drawdowns, k \in BOOLEAN : d = metric[s].drawdown /\ k = metric[s].known
      BY DEF PerformanceInv, PerformanceTypeOK, Metrics
    <2> DEFINE zero(x) ==
                 [known |-> x, count |-> 0, pnl |-> 0, wins |-> 0, losses |-> 0, drawdown |-> d]
    <2>2. Zeroed(metric[s]) = zero(k)
      BY <2>1 DEF Zeroed
    <2>3. zero(TRUE) \in Metrics /\ zero(FALSE) \in Metrics
          /\ zero(TRUE).pnl = 0 /\ zero(FALSE).pnl = 0
      BY <2>1 DEF Metrics
    <2>. HIDE DEF zero
    <2>4. CASE k = TRUE
      BY <2>2, <2>3, <2>4
    <2>5. CASE k = FALSE
      BY <2>2, <2>3, <2>5
    <2>. QED
      BY <2>4, <2>5
  <1>3. PerformanceTypeOK'
    <2>1. metric' \in [Symbols -> Metrics]
      BY <1>1, <1>2
    <2>2. tradeHistory' \in [Symbols -> Seq(Int)]
      BY <1>1
    <2>. QED
      BY <1>1, <2>1, <2>2 DEF PerformanceInv, PerformanceTypeOK
  <1>4. FlushInOrder' /\ RowsInOnePlace' /\ FullBatchStuck'
    BY <1>1, RowsStay DEF PerformanceInv, FlushInOrder, FullBatchStuck
  <1>5. PeakCovers'
    <2>1. \A s \in Symbols : metric'[s] = Zeroed(metric[s])
      BY <1>1
    <2>2. \A s \in Symbols : metric'[s].pnl = 0
      BY <1>2, <2>1
    <2>. QED
      BY <1>1, <2>2 DEF PeakCovers
  <1>6. DrawdownNotHidden'
    BY <1>1 DEF DrawdownNotHidden
  <1>. QED
    BY <1>3, <1>4, <1>5, <1>6 DEF PerformanceInv

(* A pass of the loop adds rows after those made before.                   *)
LEMMA AggregateKeeps ==
    ASSUME PerformanceInv, AggregateAllMetrics
    PROVE  PerformanceInv'
  <1> DEFINE withTrades == Cardinality({s \in Symbols : metric[s].known})
             room == RowBatch - Len(rowBuffer)
             joining == IF withTrades >= room /\ withTrades > 0 THEN (IF room > 1 THEN room ELSE 1) ELSE withTrades
             comers == [i \in 1..joining |-> rowsMade + i]
  <1>1. /\ aggregator = "on" /\ stopper = "none"
        /\ rowBuffer' = rowBuffer \o comers /\ rowsMade' = rowsMade + joining
        /\ aggregator' = IF joining > 0 /\ Len(rowBuffer) + joining >= RowBatch THEN "stuck" ELSE "on"
        /\ UNCHANGED <<tradeHistory, metric, peak, stopper, database, insertingRows, storedBatches,
                       droppedRows>>
    BY DEF AggregateAllMetrics
  <1>2. /\ rowBuffer \in Seq(Nat) /\ Len(rowBuffer) \in Nat /\ rowsMade \in Nat
        /\ Len(rowBuffer) < RowBatch
    BY <1>1, PerformanceNumbers DEF PerformanceInv, PerformanceTypeOK, FullBatchStuck
  <1>3. withTrades \in Nat
    <2>1. IsFiniteSet(Symbols)
      BY PerformanceNumbers
    <2>. QED
      BY <2>1, FS_Subset, FS_CardinalityType
  <1>. HIDE DEF withTrades
  <1>4. joining \in Nat
    BY <1>2, <1>3, PerformanceNumbers
  <1>. HIDE DEF joining
  <1>5. /\ comers \in Seq(Nat) /\ Len(comers) = joining
        /\ Range(comers) = (rowsMade + 1)..(rowsMade + joining)
    <2>1. \A i \in 1..joining : rowsMade + i \in Nat
      BY <1>2, <1>4
    <2>2. comers \in Seq(Nat) /\ Len(comers) = joining
      BY <1>4, <2>1
    <2>3. \A r \in (rowsMade + 1)..(rowsMade + joining) :
             r - rowsMade \in 1..joining /\ rowsMade + (r - rowsMade) = r
      BY <1>2, <1>4
    <2>4. Range(comers) = (rowsMade + 1)..(rowsMade + joining)
      BY <1>2, <1>4, <2>3 DEF Range
    <2>. QED
      BY <2>2, <2>4
  <1>. HIDE DEF comers
  <1>6. /\ rowBuffer' \in Seq(Nat) /\ Len(rowBuffer') = Len(rowBuffer) + joining
        /\ Range(rowBuffer') = Range(rowBuffer) \cup ((rowsMade + 1)..(rowsMade + joining))
    BY <1>1, <1>2, <1>5, ConcatRange
  <1>7. rowsMade' \in Nat /\ 1..rowsMade' = (1..rowsMade) \cup ((rowsMade + 1)..(rowsMade + joining))
    BY <1>1, <1>2, <1>4
  <1>8. aggregator' \in {"on", "stuck"} /\ (aggregator' = "stuck" <=> Len(rowBuffer') >= RowBatch)
    BY <1>1, <1>2, <1>4, <1>6, PerformanceNumbers
  <1>9. PerformanceTypeOK'
    BY <1>1, <1>6, <1>7, <1>8 DEF PerformanceInv, PerformanceTypeOK
  <1>10. FlushInOrder'
    BY <1>1 DEF PerformanceInv, FlushInOrder
  <1>11. RowsInOnePlace'
    <2>1. /\ Range(Stored(storedBatches)) \cup Range(insertingRows) \cup Range(rowBuffer)
                \cup Range(droppedRows) = 1..rowsMade
          /\ Len(Stored(storedBatches)) + Len(insertingRows) + Len(rowBuffer) + Len(droppedRows)
                = rowsMade
      BY RowsAre DEF PerformanceInv, RowsPlaced
    <2>2. Len(Stored(storedBatches)) \in Nat /\ Len(insertingRows) \in Nat
          /\ Len(droppedRows) \in Nat
      BY StoredIs DEF PerformanceInv, PerformanceTypeOK
    <2>3. /\ Stored(storedBatches') = Stored(storedBatches) /\ insertingRows' = insertingRows
          /\ droppedRows' = droppedRows
          /\ IF database' THEN droppedRows' = <<>>
             ELSE Stored(storedBatches) = <<>> /\ insertingRows = <<>>
      BY <1>1, RowsAre DEF PerformanceInv, RowsPlaced
    <2>4. Len(Stored(storedBatches)) + Len(insertingRows) + Len(rowBuffer') + Len(droppedRows)
             = rowsMade'
      <3>1. PICK sl \in Nat, il \in Nat, bl \in Nat, dl \in Nat, rm \in Nat, j \in Nat :
               /\ dl = Len(droppedRows)
               /\ sl = Len(Stored(storedBatches)) /\ il = Len(insertingRows) /\ bl = Len(rowBuffer)
               /\ rm = rowsMade /\ j = joining
        BY <1>2, <1>4, <2>2, Zenon
      <3>2. sl + il + bl + dl = rm
        BY <2>1, <3>1, Zenon
      <3>3. sl + il + (bl + j) + dl = rm + j
        BY <3>2
      <3>. QED
        BY <1>1, <1>6, <3>1, <3>3, Zenon
    <2>5. Range(Stored(storedBatches)) \cup Range(insertingRows) \cup Range(rowBuffer')
             \cup Range(droppedRows) = 1..rowsMade'
      BY <1>6, <1>7, <2>1
    <2>6. RowsInOnePlace' <=> RowsPlaced'
      BY RowsAre, PTL
    <2>. QED
      BY <2>3, <2>4, <2>5, <2>6 DEF RowsPlaced
  <1>12. FullBatchStuck'
    BY <1>1, <1>8 DEF PerformanceInv, FullBatchStuck
  <1>13. DrawdownNotHidden' /\ PeakCovers'
    BY <1>1 DEF PerformanceInv, DrawdownNotHidden, PeakCovers
  <1>. QED
    BY <1>9, <1>10, <1>11, <1>12, <1>13 DEF PerformanceInv

(* stop() waits for the lock, finds nothing, or takes the rows to insert.  *)
LEMMA StopTrackerKeeps ==
    ASSUME PerformanceInv, StopTracker
    PROVE  PerformanceInv'
  <1>1. /\ aggregator # "off" /\ stopper = "none"
        /\ UNCHANGED <<tradeHistory, metric, peak, database, passes, rowsMade, storedBatches>>
        /\ \/ /\ aggregator = "stuck" /\ stopper' = "stuck"
              /\ UNCHANGED <<rowBuffer, insertingRows, aggregator, droppedRows>>
           \/ /\ aggregator # "stuck" /\ (rowBuffer = <<>> \/ ~database)
              /\ droppedRows' = droppedRows \o rowBuffer /\ rowBuffer' = <<>>
              /\ aggregator' = "off" /\ UNCHANGED <<insertingRows, stopper>>
           \/ /\ aggregator # "stuck" /\ database /\ stopper' = "flushing"
              /\ insertingRows' = rowBuffer /\ rowBuffer' = <<>>
              /\ UNCHANGED <<aggregator, droppedRows>>
    BY DEF StopTracker
  <1>2. /\ insertingRows = <<>> /\ rowBuffer \in Seq(Nat) /\ insertingRows \in Seq(Nat)
        /\ aggregator \in {"on", "stuck"} /\ Len(rowBuffer) \in Nat
        /\ droppedRows \in Seq(Nat) /\ Len(droppedRows) \in Nat
    BY <1>1 DEF PerformanceInv, FlushInOrder, PerformanceTypeOK
  <1>3. /\ aggregator = "stuck" <=> Len(rowBuffer) >= RowBatch
        /\ \A i \in DOMAIN storedBatches : Len(storedBatches[i]) < RowBatch
    BY DEF PerformanceInv, FullBatchStuck
  <1>4. Len(<<>>) = 0 /\ <<>> \in Seq(Nat) /\ Range(<<>>) = {} /\ RowBatch \in Nat \ {0}
    BY PerformanceNumbers DEF Range
  <1>6. FlushInOrder'
    BY <1>1, <1>2, <1>3, <1>4 DEF FlushInOrder
  <1>7. /\ Range(insertingRows') \cup Range(rowBuffer') \cup Range(droppedRows')
             = Range(insertingRows) \cup Range(rowBuffer) \cup Range(droppedRows)
        /\ Len(insertingRows') + Len(rowBuffer') + Len(droppedRows')
             = Len(insertingRows) + Len(rowBuffer) + Len(droppedRows)
        /\ Len(insertingRows') \in Nat /\ Len(rowBuffer') \in Nat /\ Len(droppedRows') \in Nat
        /\ droppedRows' \in Seq(Nat)
    <2>1. /\ droppedRows \o rowBuffer \in Seq(Nat)
          /\ Range(droppedRows \o rowBuffer) = Range(droppedRows) \cup Range(rowBuffer)
          /\ Len(droppedRows \o rowBuffer) = Len(droppedRows) + Len(rowBuffer)
      BY <1>2, ConcatRange
    <2>2. CASE droppedRows' = droppedRows \o rowBuffer /\ rowBuffer' = <<>> /\ insertingRows' = insertingRows
      BY <1>2, <1>4, <2>1, <2>2
    <2>3. CASE droppedRows' = droppedRows
      BY <1>1, <1>2, <1>4, <2>3
    <2>. QED
      BY <1>1, <2>2, <2>3
  <1>11. IF database' THEN droppedRows' = <<>>
         ELSE Stored(storedBatches') = <<>> /\ insertingRows' = <<>>
    <2>1. /\ database' = database /\ storedBatches' = storedBatches
          /\ IF database THEN droppedRows = <<>>
             ELSE Stored(storedBatches) = <<>> /\ insertingRows = <<>>
      BY <1>1, RowsAre DEF PerformanceInv, RowsPlaced
    <2>2. database => droppedRows' = <<>>
      BY <1>1, <2>1
    <2>3. ~database => insertingRows' = <<>>
      BY <1>1, <2>1
    <2>4. ~database => Stored(storedBatches') = <<>>
      BY <2>1
    <2>. QED
      BY <2>1, <2>2, <2>3, <2>4, Zenon
  <1>5. PerformanceTypeOK'
    BY <1>1, <1>2, <1>4, <1>7 DEF PerformanceInv, PerformanceTypeOK
  <1>8. RowsInOnePlace'
    <2>1. /\ Range(Stored(storedBatches)) \cup Range(insertingRows) \cup Range(rowBuffer)
                \cup Range(droppedRows) = 1..rowsMade
          /\ Len(Stored(storedBatches)) + Len(insertingRows) + Len(rowBuffer) + Len(droppedRows)
                = rowsMade
      BY RowsAre DEF PerformanceInv, RowsPlaced
    <2>2. Len(Stored(storedBatches)) \in Nat /\ Len(insertingRows) \in Nat
      BY <1>2, StoredIs DEF PerformanceInv, PerformanceTypeOK
    <2>3. Len(Stored(storedBatches)) + Len(insertingRows') + Len(rowBuffer') + Len(droppedRows')
             = rowsMade
      <3>1. \A a, b, c, e, x, y, z, r \in Nat :
               a + b + c + e = r /\ x + y + z = b + c + e => a + x + y + z = r
        OBVIOUS
      <3>2. rowsMade \in Nat
        BY DEF PerformanceInv, PerformanceTypeOK
      <3>. QED
        BY <1>2, <1>7, <2>1, <2>2, <3>1, <3>2
    <2>4. Range(Stored(storedBatches)) \cup Range(insertingRows') \cup Range(rowBuffer')
             \cup Range(droppedRows') = 1..rowsMade
      BY <1>7, <2>1
    <2>5. RowsInOnePlace' <=> RowsPlaced'
      BY RowsAre, PTL
    <2>. QED
      BY <1>1, <1>11, <2>3, <2>4, <2>5 DEF RowsPlaced
  <1>9. FullBatchStuck'
    BY <1>1, <1>2, <1>3, <1>4 DEF FullBatchStuck
  <1>10. DrawdownNotHidden' /\ PeakCovers'
    BY <1>1 DEF PerformanceInv, DrawdownNotHidden, PeakCovers
  <1>. QED
    BY <1>5, <1>6, <1>8, <1>9, <1>10 DEF PerformanceInv

(* The rows taken are stored, or go back where there is room for them all. *)
LEMMA FlushEndsKeeps ==
    ASSUME PerformanceInv, FlushEnds
    PROVE  PerformanceInv'
  <1>1. /\ stopper = "flushing" /\ insertingRows' = <<>> /\ stopper' = "none" /\ aggregator' = "off"
        /\ UNCHANGED <<tradeHistory, metric, peak, database, passes, rowsMade, droppedRows>>
        /\ \/ storedBatches' = Append(storedBatches, insertingRows) /\ rowBuffer' = rowBuffer
           \/ rowBuffer' = Restored(insertingRows) /\ storedBatches' = storedBatches
    BY DEF FlushEnds
  <1>2. /\ rowBuffer = <<>> /\ Len(insertingRows) < RowBatch
        /\ insertingRows \in Seq(Nat) /\ Len(insertingRows) \in Nat
        /\ storedBatches \in Seq(Seq(Nat))
        /\ \A i \in DOMAIN storedBatches : Len(storedBatches[i]) < RowBatch
        /\ database /\ droppedRows = <<>>
    BY <1>1, RowsAre DEF PerformanceInv, FlushInOrder, PerformanceTypeOK, FullBatchStuck, RowsPlaced
  <1>3. Len(<<>>) = 0 /\ <<>> \in Seq(Nat) /\ Range(<<>>) = {}
    BY DEF Range
  <1>4. Restored(insertingRows) = insertingRows
    <2>1. Len(insertingRows) <= RowLimit - Len(rowBuffer)
      BY <1>2, <1>3, PerformanceNumbers
    <2>2. rowBuffer \o insertingRows = insertingRows
      BY <1>2
    <2>. QED
      BY <2>1, <2>2 DEF Restored
  <1>5. \/ storedBatches' = Append(storedBatches, insertingRows) /\ rowBuffer' = <<>>
        \/ rowBuffer' = insertingRows /\ storedBatches' = storedBatches
    BY <1>1, <1>2, <1>4
  <1>6. PerformanceTypeOK'
    <2>1. Append(storedBatches, insertingRows) \in Seq(Seq(Nat))
      BY <1>2
    <2>. QED
      BY <1>1, <1>2, <1>3, <1>5, <2>1 DEF PerformanceInv, PerformanceTypeOK
  <1>7. FlushInOrder'
    BY <1>1 DEF FlushInOrder
  <1>8. RowsInOnePlace'
    <2>1. /\ Range(Stored(storedBatches)) \cup Range(insertingRows) = 1..rowsMade
          /\ Len(Stored(storedBatches)) + Len(insertingRows) + 0 = rowsMade
      BY <1>2, <1>3, RowsAre DEF PerformanceInv, RowsPlaced
    <2>2. Len(Stored(storedBatches)) \in Nat
      BY <1>2, StoredIs
    <2>3. /\ Range(Stored(storedBatches')) \cup Range(rowBuffer') = 1..rowsMade
          /\ Len(Stored(storedBatches')) + 0 + Len(rowBuffer') = rowsMade
      <3>1. CASE storedBatches' = Append(storedBatches, insertingRows) /\ rowBuffer' = <<>>
        <4>1. /\ Range(Stored(Append(storedBatches, insertingRows)))
                   = Range(Stored(storedBatches)) \cup Range(insertingRows)
              /\ Len(Stored(Append(storedBatches, insertingRows)))
                   = Len(Stored(storedBatches)) + Len(insertingRows)
          BY <1>2, StoredGrows
        <4>. QED
          BY <1>2, <1>3, <2>1, <2>2, <3>1, <4>1
      <3>2. CASE rowBuffer' = insertingRows /\ storedBatches' = storedBatches
        BY <1>2, <2>1, <2>2, <3>2
      <3>. QED
        BY <1>5, <3>1, <3>2
    <2>4. RowsInOnePlace' <=> RowsPlaced'
      BY RowsAre, PTL
    <2>5. Len(Stored(storedBatches')) + Len(insertingRows') + Len(rowBuffer') + Len(droppedRows')
             = rowsMade'
      <3>1. Len(rowBuffer') \in Nat /\ Len(Stored(storedBatches')) + 0 + Len(rowBuffer') \in Nat
        BY <1>2, <1>3, <1>5, <2>3 DEF PerformanceInv, PerformanceTypeOK
      <3>2. insertingRows' = <<>> /\ droppedRows' = <<>> /\ rowsMade' = rowsMade
        BY <1>1, <1>2
      <3>3. Len(Stored(storedBatches')) + 0 + Len(rowBuffer') + 0
              = Len(Stored(storedBatches')) + 0 + Len(rowBuffer')
        BY <3>1
      <3>. QED
        BY <1>3, <2>3, <3>2, <3>3
    <2>6. Range(Stored(storedBatches')) \cup Range(insertingRows') \cup Range(rowBuffer')
             \cup Range(droppedRows') = 1..rowsMade'
      BY <1>1, <1>2, <1>3, <2>3
    <2>. QED
      BY <1>1, <1>2, <2>4, <2>5, <2>6 DEF RowsPlaced
  <1>9. FullBatchStuck'
    <2>1. Len(rowBuffer') \in Nat /\ Len(rowBuffer') < RowBatch
      BY <1>2, <1>3, <1>5, PerformanceNumbers
    <2>2. \A i \in DOMAIN storedBatches' : Len(storedBatches'[i]) < RowBatch
      <3>1. CASE storedBatches' = Append(storedBatches, insertingRows)
        <4>1. \A i \in DOMAIN Append(storedBatches, insertingRows) :
                 \/ i \in DOMAIN storedBatches
                       /\ Append(storedBatches, insertingRows)[i] = storedBatches[i]
                 \/ Append(storedBatches, insertingRows)[i] = insertingRows
          BY <1>2
        <4>. QED
          BY <1>2, <3>1, <4>1
      <3>2. CASE storedBatches' = storedBatches
        BY <1>2, <3>2
      <3>. QED
        BY <1>5, <3>1, <3>2
    <2>3. ~(Len(rowBuffer') >= RowBatch)
      BY <2>1, PerformanceNumbers
    <2>. QED
      BY <1>1, <2>2, <2>3 DEF FullBatchStuck
  <1>10. DrawdownNotHidden' /\ PeakCovers'
    BY <1>1 DEF PerformanceInv, DrawdownNotHidden, PeakCovers
  <1>. QED
    BY <1>6, <1>7, <1>8, <1>9, <1>10 DEF PerformanceInv

(* The tracker begins without trades and without rows.                     *)
LEMMA InitPerformanceInv == PerformanceInit => PerformanceInv
  <1>. SUFFICES ASSUME PerformanceInit PROVE PerformanceInv
    OBVIOUS
  <1>1. /\ tradeHistory = [s \in Symbols |-> <<>>] /\ peak = 0
        /\ metric = [s \in Symbols |-> Untraded] /\ rowBuffer = <<>> /\ insertingRows = <<>>
        /\ aggregator = "off" /\ stopper = "none" /\ rowsMade = 0 /\ storedBatches = <<>>
        /\ droppedRows = <<>> /\ database \in BOOLEAN
    BY DEF PerformanceInit
  <1>2. Untraded \in Metrics /\ Untraded.pnl = 0
    BY DEF Untraded, Metrics, Drawdowns, NoDrawdown
  <1>3. <<>> \in Seq(Nat) /\ <<>> \in Seq(Seq(Nat)) /\ <<>> \in Seq(Int) /\ Len(<<>>) = 0
        /\ Range(<<>>) = {} /\ 1..0 = {} /\ DOMAIN <<>> = {}
    BY DEF Range
  <1>4. PerformanceTypeOK
    BY <1>1, <1>2, <1>3 DEF PerformanceTypeOK
  <1>5. FlushInOrder /\ FullBatchStuck
    BY <1>1, <1>3, PerformanceNumbers DEF FlushInOrder, FullBatchStuck
  <1>6. RowsInOnePlace
    <2>1. Stored(<<>>) \in Seq(Nat) /\ Range(Stored(<<>>)) = {}
      <3>1. UNION {Range(<<>>[i]) : i \in DOMAIN <<>>} = {}
        BY <1>3
      <3>. QED
        BY <1>3, <3>1, StoredIs
    <2>2. Len(Stored(<<>>)) = SumFunctionOnSet(Lengths(<<>>), {})
      BY <1>3, StoredIs
    <2>3. SumFunctionOnSet(Lengths(<<>>), {}) = 0
      BY FS_EmptySet, SumRule
    <2>4. Stored(<<>>) = <<>>
      BY <2>1, <2>2, <2>3
    <2>. QED
      BY <1>1, <1>3, <2>1, <2>2, <2>3, <2>4, RowsAre DEF RowsPlaced
  <1>7. DrawdownNotHidden /\ PeakCovers
    BY <1>1, <1>2 DEF DrawdownNotHidden, PeakCovers
  <1>. QED
    BY <1>4, <1>5, <1>6, <1>7 DEF PerformanceInv

(* Every step of the tracker keeps its invariant.                          *)
LEMMA PerformanceKeeps ==
    ASSUME PerformanceInv, PerformanceNext \/ UNCHANGED performanceVars
    PROVE  PerformanceInv'
  <1>1. CASE StartTracker \/ UNCHANGED performanceVars
    <2>1. /\ UNCHANGED <<tradeHistory, metric, peak, rowBuffer, stopper, insertingRows, rowsMade,
                         storedBatches, droppedRows, database>>
          /\ aggregator' = aggregator \/ (aggregator = "off" /\ stopper = "none" /\ aggregator' = "on")
      BY <1>1 DEF StartTracker, performanceVars
    <2>2. PerformanceTypeOK'
      BY <2>1 DEF PerformanceInv, PerformanceTypeOK
    <2>3. FlushInOrder' /\ FullBatchStuck'
      BY <2>1 DEF PerformanceInv, FlushInOrder, FullBatchStuck
    <2>4. RowsInOnePlace'
      BY <2>1, RowsStay DEF PerformanceInv
    <2>5. DrawdownNotHidden' /\ PeakCovers'
      BY <2>1 DEF PerformanceInv, DrawdownNotHidden, PeakCovers
    <2>. QED
      BY <2>2, <2>3, <2>4, <2>5 DEF PerformanceInv
  <1>. QED
    BY <1>1, RecordTradeKeeps, ResetDailyStatsKeeps, AggregateKeeps, StopTrackerKeeps,
       FlushEndsKeeps DEF PerformanceNext

(* What is promised of the tracker.                                        *)
LEMMA PerformanceIsSound == PerformanceInv => PerformanceSound
  BY DEF PerformanceInv, PerformanceSound

-----------------------------------------------------------------------------
(* The notifier of trades                                                  *)

(* The tasks whose result Redis has, and a day without failures: neither   *)
(* did a call fail nor a task end with its process.                        *)
Added == {t \in Trades : taskStep[t] \in {"streak", "count", "done"}}
Unharmed == ~failed /\ \A t \in Trades : taskStep[t] # "lost"
ResetPending == \E t \in Trades : taskStep[t] = "reset"

DayCounters == [pnl : Int, streak : Nat, count : Nat]

(* Counts, dates and what a trade earned.                                  *)
NotifierTypeOK ==
    /\ onDate \in Nat /\ resetOn \in Nat \cup {NeverReset} /\ resetOn <= onDate
    /\ restarts \in Nat
    /\ failed \in BOOLEAN /\ wiped \in BOOLEAN /\ mixed \in BOOLEAN
    /\ counters \in DayCounters /\ redis \in DayCounters
    /\ taskStep \in [Trades -> Steps \cup {"none", "done", "lost", "past"}]
    /\ earned \in [Trades -> {1, -1}] /\ told \in [Trades -> DayCounters]
    /\ reported \in [Trades -> {"none", "normal", "high", "urgent"}]

(* One task resets the day, and two at work are mixed.  Whoever resets a   *)
(* day of which something was done is overtaken, or comes after a restart. *)
TasksInOrder ==
    /\ \A t \in Trades : Working(t) => resetOn = onDate
    /\ \A t, u \in Trades : Working(t) /\ Working(u) /\ t # u => mixed
    /\ \A t, u \in Trades : taskStep[t] = "reset" /\ taskStep[u] = "reset" => t = u
    /\ \A t \in Trades : taskStep[t] = "lost" => restarts > 0
    /\ \A t \in Trades : taskStep[t] = "done" /\ resetOn # onDate => restarts > 0
    /\ \A t, u \in Trades : taskStep[t] = "reset" /\ taskStep[u] = "done"
          => mixed \/ restarts > 0
    /\ wiped => mixed \/ restarts > 0

(* Once the day is reset Redis has the tasks that reached it, unless a     *)
(* reset took them.                                                        *)
RedisOfTheDay ==
    Unharmed /\ ~ResetPending /\ resetOn = onDate =>
      /\ redis.count <= Cardinality(OfToday)
      /\ ~wiped => /\ redis.count = Cardinality(OfToday)
                   /\ redis.pnl = SumFunctionOnSet(earned, Added)

(* What memory has besides when one task is at work at a time.             *)
MemoryFollows ==
    Unharmed /\ ~mixed /\ resetOn = onDate =>
      /\ (\A t \in Trades : ~Working(t)) => counters = redis
      /\ \A t \in Trades : /\ taskStep[t] = "reset" => counters = Zeros
                           /\ taskStep[t] = "pnl" => counters = AddPnl(redis, t)
                           /\ taskStep[t] = "streak" => counters = AddStreak(redis, t)
                           /\ taskStep[t] = "count" => counters = AddCount(redis)

(* The last task to reach Redis tells what all of them came to.            *)
LastTells ==
    /\ Unharmed /\ ~ResetPending /\ ~wiped /\ Added # {} =>
          \E t \in Added : told[t].pnl = SumFunctionOnSet(earned, Added)
    /\ \A t \in Trades : taskStep[t] = "done" => reported[t] = Priority(told[t])

NotifierInv ==
    NotifierTypeOK /\ TasksInOrder /\ RedisOfTheDay /\ MemoryFollows /\ LastTells

(* The trades are finitely many, and the limits are numbers.               *)
LEMMA NotifierNumbers ==
    /\ IsFiniteSet(Trades) /\ LossWarning \in Int /\ LossCritical \in Int /\ LongStreak \in Nat
    /\ IsFiniteSet(Added) /\ IsFiniteSet(OfToday)
    /\ Cardinality(OfToday) \in Nat
  <1>1. /\ IsFiniteSet(Trades) /\ LossWarning \in Int /\ LossCritical \in Int /\ LongStreak \in Nat
    BY NotifierAssumption
  <1>2. IsFiniteSet(Added) /\ IsFiniteSet(OfToday)
    BY <1>1, FS_Subset DEF Added, OfToday
  <1>. QED
    BY <1>1, <1>2, FS_CardinalityType

(* The counters keep their types when one of them changes.                 *)
LEMMA DayCountersKeep ==
    ASSUME NEW m \in DayCounters, NotifierTypeOK, NEW t \in Trades
    PROVE  /\ AddPnl(m, t) \in DayCounters /\ AddStreak(m, t) \in DayCounters
           /\ AddCount(m) \in DayCounters /\ Zeros \in DayCounters
           /\ AddPnl(m, t) = [pnl |-> m.pnl + earned[t], streak |-> m.streak, count |-> m.count]
           /\ AddCount(m) = [pnl |-> m.pnl, streak |-> m.streak, count |-> m.count + 1]
           /\ AddStreak(m, t) = [pnl |-> m.pnl, count |-> m.count,
                                 streak |-> AddStreak(m, t).streak]
           /\ AddStreak(m, t).streak = (IF earned[t] < 0 THEN m.streak + 1 ELSE 0)
  <1>1. earned[t] \in Int /\ m.pnl \in Int /\ m.streak \in Nat /\ m.count \in Nat
        /\ m = [pnl |-> m.pnl, streak |-> m.streak, count |-> m.count]
    BY DEF NotifierTypeOK, DayCounters
  <1> DEFINE longer == IF earned[t] < 0 THEN m.streak + 1 ELSE 0
  <1>2. longer \in Nat
    BY <1>1
  <1>3. AddStreak(m, t) = [pnl |-> m.pnl, streak |-> longer, count |-> m.count]
    BY <1>1 DEF AddStreak, DayCounters
  <1>. HIDE DEF longer
  <1>4. AddPnl(m, t) = [pnl |-> m.pnl + earned[t], streak |-> m.streak, count |-> m.count]
    BY <1>1 DEF AddPnl
  <1>5. AddCount(m) = [pnl |-> m.pnl, streak |-> m.streak, count |-> m.count + 1]
    BY <1>1 DEF AddCount
  <1>6. AddPnl(m, t) \in DayCounters /\ AddCount(m) \in DayCounters /\ Zeros \in DayCounters
    BY <1>1, <1>4, <1>5 DEF DayCounters, Zeros
  <1>7. AddStreak(m, t) \in DayCounters
    BY <1>1, <1>2, <1>3 DEF DayCounters
  <1>. QED
    BY <1>3, <1>4, <1>5, <1>6, <1>7 DEF longer

(* A notification begins: the day's first resets it, another adds to what  *)
(* memory has.                                                             *)
LEMMA NotifyTradeKeeps ==
    ASSUME NotifierInv, NEW t \in Trades, NotifyTrade(t)
    PROVE  NotifierInv'
  <1>1. /\ taskStep[t] = "none" /\ mixed' = (mixed \/ \E u \in Trades : Working(u))
        /\ UNCHANGED <<onDate, redis, earned, told, reported, restarts, failed, wiped>>
    BY DEF NotifyTrade
  <1>2. \/ /\ resetOn # onDate /\ counters' = Zeros /\ resetOn' = onDate
           /\ taskStep' = [taskStep EXCEPT ![t] = "reset"]
        \/ /\ resetOn = onDate /\ counters' = AddPnl(counters, t) /\ resetOn' = resetOn
           /\ taskStep' = [taskStep EXCEPT ![t] = "pnl"]
    BY DEF NotifyTrade
  <1>3. /\ taskStep'[t] \in {"reset", "pnl"} /\ resetOn' = onDate
        /\ \A u \in Trades : u # t => taskStep'[u] = taskStep[u]
        /\ taskStep'[t] = "reset" <=> resetOn # onDate
    BY <1>2 DEF NotifierInv, NotifierTypeOK
  <1>4. NotifierTypeOK'
    <2>1. Zeros \in DayCounters /\ AddPnl(counters, t) \in DayCounters
      BY DayCountersKeep DEF NotifierInv, NotifierTypeOK
    <2>2. mixed' \in BOOLEAN
      BY <1>1 DEF NotifierInv, NotifierTypeOK
    <2>3. taskStep' \in [Trades -> Steps \cup {"none", "done", "lost", "past"}]
      BY <1>2 DEF NotifierInv, NotifierTypeOK, Steps
    <2>4. /\ counters' \in DayCounters /\ resetOn' \in Nat \cup {NeverReset}
          /\ resetOn' <= onDate'
      BY <1>1, <1>2, <2>1 DEF NotifierInv, NotifierTypeOK
    <2>. QED
      BY <1>1, <2>2, <2>3, <2>4 DEF NotifierInv, NotifierTypeOK
  <1>5. \A u \in Trades : u # t => (Working(u)' <=> Working(u))
    BY <1>3 DEF Working
  <1>6. TasksInOrder'
    <2>1. \A u \in Trades : taskStep[u] = "reset" => Working(u)
      BY DEF Working, Steps
    <2>2. \A u \in Trades : Working(u) => resetOn = onDate
      BY DEF NotifierInv, TasksInOrder
    <2>3. \A u, v \in Trades : Working(u)' /\ Working(v)' /\ u # v => mixed'
      BY <1>1, <1>5 DEF NotifierInv, TasksInOrder
    <2>4. \A u, v \in Trades : taskStep'[u] = "reset" /\ taskStep'[v] = "reset" => u = v
      BY <1>3, <2>1, <2>2 DEF NotifierInv, TasksInOrder
    <2>5. \A u \in Trades : taskStep'[u] = "lost" => restarts' > 0
      BY <1>1, <1>3 DEF NotifierInv, TasksInOrder
    <2>6. \A u, v \in Trades : taskStep'[u] = "reset" /\ taskStep'[v] = "done"
             => mixed' \/ restarts' > 0
      BY <1>1, <1>3 DEF NotifierInv, TasksInOrder
    <2>7. wiped' => mixed' \/ restarts' > 0
      BY <1>1 DEF NotifierInv, TasksInOrder
    <2>. QED
      BY <1>1, <1>3, <2>3, <2>4, <2>5, <2>6, <2>7 DEF TasksInOrder
  <1>7. Added' = Added /\ OfToday' = OfToday
    BY <1>1, <1>3 DEF Added, OfToday
  <1>8. (Unharmed' => Unharmed) /\ (~ResetPending' => ~ResetPending /\ resetOn = onDate)
    BY <1>1, <1>3 DEF Unharmed, ResetPending
  <1>9. RedisOfTheDay'
    BY <1>1, <1>7, <1>8 DEF NotifierInv, RedisOfTheDay
  <1>10. MemoryFollows'
    <2>1. SUFFICES ASSUME Unharmed', ~mixed' PROVE MemoryFollows'
      BY DEF MemoryFollows
    <2>2. ~mixed /\ \A u \in Trades : ~Working(u)
      BY <1>1, <2>1
    <2>3. \A u \in Trades : u # t => taskStep'[u] \notin Steps
      BY <1>5, <2>2 DEF Working
    <2>4. Working(t)'
      BY <1>3 DEF Working, Steps
    <2>5. taskStep'[t] = "reset" => counters' = Zeros
      BY <1>2, <1>3
    <2>6. taskStep'[t] = "pnl" => counters' = AddPnl(redis, t)'
      <3>1. SUFFICES ASSUME taskStep'[t] = "pnl" PROVE counters' = AddPnl(redis, t)
        BY <1>1 DEF AddPnl
      <3>2. resetOn = onDate /\ counters' = AddPnl(counters, t)
        BY <1>2, <1>3, <3>1
      <3>3. counters = redis
        BY <1>8, <2>1, <2>2, <3>2 DEF NotifierInv, MemoryFollows
      <3>. QED
        BY <3>2, <3>3
    <2>. QED
      BY <1>3, <2>3, <2>4, <2>5, <2>6 DEF MemoryFollows, Steps
  <1>11. LastTells'
    <2>1. \A u \in Trades : taskStep'[u] = "done" => taskStep[u] = "done"
      BY <1>3
    <2>2. \A u \in Trades : taskStep'[u] = "done" => reported'[u] = Priority(told'[u])
      BY <1>1, <2>1 DEF NotifierInv, LastTells
    <2>. QED
      BY <1>1, <1>7, <1>8, <2>2 DEF NotifierInv, LastTells
  <1>. QED
    BY <1>4, <1>6, <1>9, <1>10, <1>11 DEF NotifierInv

(* Redis is reset: what was in it of this day is wiped.                    *)
LEMMA ResetRedisKeeps ==
    ASSUME NotifierInv, NEW t \in Trades, ResetRedis(t)
    PROVE  NotifierInv'
  <1>1. /\ taskStep[t] = "reset" /\ taskStep' = [taskStep EXCEPT ![t] = "pnl"]
        /\ counters' = AddPnl(counters, t)
        /\ wiped' = (wiped \/ \E u \in Trades : taskStep[u] \in {"streak", "count", "done", "lost"})
        /\ UNCHANGED <<onDate, resetOn, earned, told, reported, restarts, mixed>>
        /\ \/ redis' = Zeros /\ failed' = failed
           \/ /\ redis' \in {redis, [redis EXCEPT !.pnl = 0], [redis EXCEPT !.pnl = 0, !.streak = 0]}
              /\ failed' = TRUE
    BY DEF ResetRedis
  <1>2. /\ taskStep'[t] = "pnl" /\ \A u \in Trades : u # t => taskStep'[u] = taskStep[u]
    BY <1>1 DEF NotifierInv, NotifierTypeOK
  <1>3. NotifierTypeOK'
    <2>1. Zeros \in DayCounters /\ AddPnl(counters, t) \in DayCounters
      BY DayCountersKeep DEF NotifierInv, NotifierTypeOK
    <2>2. redis' \in DayCounters
      <3>1. redis \in DayCounters
        BY DEF NotifierInv, NotifierTypeOK
      <3>2. [redis EXCEPT !.pnl = 0] \in DayCounters
        BY <3>1 DEF DayCounters
      <3>3. [redis EXCEPT !.pnl = 0, !.streak = 0] = [[redis EXCEPT !.pnl = 0] EXCEPT !.streak = 0]
        BY <3>1 DEF DayCounters
      <3>4. [[redis EXCEPT !.pnl = 0] EXCEPT !.streak = 0] \in DayCounters
        BY <3>2 DEF DayCounters
      <3>. QED
        BY <1>1, <2>1, <3>1, <3>2, <3>3, <3>4
    <2>3. taskStep' \in [Trades -> Steps \cup {"none", "done", "lost", "past"}]
      BY <1>1 DEF NotifierInv, NotifierTypeOK, Steps
    <2>4. failed' \in BOOLEAN /\ wiped' \in BOOLEAN
      BY <1>1 DEF NotifierInv, NotifierTypeOK
    <2>. QED
      BY <1>1, <2>1, <2>2, <2>3, <2>4 DEF NotifierInv, NotifierTypeOK
  <1>4. \A u \in Trades : Working(u)' <=> Working(u)
    BY <1>1, <1>2 DEF Working, Steps
  <1>5. /\ Working(t) /\ resetOn = onDate
        /\ \A u \in Trades : u # t => taskStep[u] # "reset"
    BY <1>1 DEF NotifierInv, TasksInOrder, Working, Steps
  <1>6. Added' = Added /\ OfToday' = OfToday
    BY <1>1, <1>2 DEF Added, OfToday
  <1>7. Unharmed' => Unharmed /\ redis' = Zeros
    BY <1>1, <1>2 DEF Unharmed
  <1>8. wiped' => mixed \/ restarts > 0
    <2>1. \A u \in Trades : taskStep[u] \in {"streak", "count"} => mixed
      BY <1>1, <1>5 DEF NotifierInv, TasksInOrder, Working, Steps
    <2>2. \A u \in Trades : taskStep[u] \in {"done", "lost"} => mixed \/ restarts > 0
      BY <1>1 DEF NotifierInv, TasksInOrder
    <2>. QED
      BY <1>1, <2>1, <2>2 DEF NotifierInv, TasksInOrder
  <1>9. TasksInOrder'
    BY <1>1, <1>2, <1>4, <1>8 DEF NotifierInv, TasksInOrder
  <1>10. Unharmed' /\ ~wiped' => Added = {} /\ OfToday = {}
    BY <1>1 DEF Added, OfToday
  <1>11. RedisOfTheDay'
    <2>1. SUFFICES ASSUME Unharmed'
                   PROVE  /\ redis'.count <= Cardinality(OfToday)
                          /\ ~wiped' => /\ redis'.count = Cardinality(OfToday)
                                        /\ redis'.pnl = SumFunctionOnSet(earned, Added)
      BY <1>1, <1>6 DEF RedisOfTheDay
    <2>2. redis'.count = 0 /\ redis'.pnl = 0
      BY <1>7, <2>1 DEF Zeros
    <2>3. ~wiped' => Cardinality(OfToday) = 0 /\ SumFunctionOnSet(earned, Added) = 0
      <3>1. Cardinality({}) = 0
        BY FS_EmptySet
      <3>2. SumFunctionOnSet(earned, {}) = 0
        BY FS_EmptySet, SumRule
      <3>. QED
        BY <1>10, <2>1, <3>1, <3>2
    <2>. QED
      BY <2>2, <2>3, NotifierNumbers
  <1>12. MemoryFollows'
    <2>1. SUFFICES ASSUME Unharmed', ~mixed PROVE MemoryFollows'
      BY <1>1 DEF MemoryFollows
    <2>2. \A u \in Trades : u # t => ~Working(u) /\ taskStep'[u] = taskStep[u]
      BY <1>2, <1>5, <2>1 DEF NotifierInv, TasksInOrder
    <2>3. \A u \in Trades : u # t => taskStep'[u] \notin Steps
      BY <2>2 DEF Working
    <2>4. counters = Zeros
      BY <1>1, <1>5, <1>7, <2>1 DEF NotifierInv, MemoryFollows
    <2>5. counters' = AddPnl(redis, t)'
      <3>1. counters' = AddPnl(Zeros, t)
        BY <1>1, <2>4
      <3>2. AddPnl(redis, t)' = AddPnl(Zeros, t)
        BY <1>1, <1>7, <2>1 DEF AddPnl
      <3>. QED
        BY <3>1, <3>2
    <2>. QED
      BY <1>2, <1>4, <1>5, <2>3, <2>5 DEF MemoryFollows, Steps
  <1>13. LastTells'
    <2>1. \A u \in Trades : taskStep'[u] = "done" => taskStep[u] = "done"
      BY <1>2
    <2>2. \A u \in Trades : taskStep'[u] = "done" => reported'[u] = Priority(told'[u])
      BY <1>1, <2>1 DEF NotifierInv, LastTells
    <2>. QED
      BY <1>6, <1>10, <2>2 DEF LastTells
  <1>. QED
    BY <1>3, <1>9, <1>11, <1>12, <1>13 DEF NotifierInv

(* What a step from one call on Redis to the next leaves in order, whoever *)
(* takes it.                                                               *)
LEMMA NextCallFacts ==
    ASSUME NotifierInv, NEW t \in Trades, NEW from \in {"pnl", "streak"},
           NEW to \in {"streak", "count"}, taskStep[t] = from,
           taskStep' = [taskStep EXCEPT ![t] = to],
           UNCHANGED <<onDate, resetOn, earned, reported, restarts, wiped, mixed>>
    PROVE  /\ taskStep'[t] = to /\ \A u \in Trades : u # t => taskStep'[u] = taskStep[u]
           /\ taskStep' \in [Trades -> Steps \cup {"none", "done", "lost", "past"}]
           /\ \A u \in Trades : Working(u)' <=> Working(u)
           /\ Working(t) /\ resetOn = onDate /\ TasksInOrder'
           /\ OfToday' = OfToday /\ (ResetPending' <=> ResetPending)
           /\ ~mixed => \A u \in Trades : u # t => taskStep'[u] \notin Steps
  <1>1. /\ taskStep'[t] = to /\ \A u \in Trades : u # t => taskStep'[u] = taskStep[u]
        /\ taskStep' \in [Trades -> Steps \cup {"none", "done", "lost", "past"}]
    BY DEF NotifierInv, NotifierTypeOK, Steps
  <1>2. \A u \in Trades : Working(u)' <=> Working(u)
    BY <1>1 DEF Working, Steps
  <1>3. Working(t) /\ resetOn = onDate
    BY DEF NotifierInv, TasksInOrder, Working, Steps
  <1>4. TasksInOrder'
    BY <1>1, <1>2 DEF NotifierInv, TasksInOrder
  <1>5. OfToday' = OfToday /\ (ResetPending' <=> ResetPending)
    BY <1>1 DEF OfToday, ResetPending
  <1>6. ~mixed => \A u \in Trades : u # t => taskStep'[u] \notin Steps
    BY <1>1, <1>3 DEF NotifierInv, TasksInOrder, Working
  <1>. QED
    BY <1>1, <1>2, <1>3, <1>4, <1>5, <1>6

(* The result goes to Redis, and what Redis says is told.                  *)
LEMMA UpdatePnlKeeps ==
    ASSUME NotifierInv, NEW t \in Trades, UpdatePnl(t)
    PROVE  NotifierInv'
  <1> DEFINE answeredIs == [counters EXCEPT !.pnl = redis.pnl + earned[t]]
  <1>1. /\ taskStep[t] = "pnl" /\ taskStep' = [taskStep EXCEPT ![t] = "streak"]
        /\ UNCHANGED <<onDate, resetOn, earned, reported, restarts, wiped, mixed>>
        /\ \/ /\ redis' = AddPnl(redis, t) /\ failed' = failed
              /\ counters' = AddStreak(answeredIs, t)
              /\ told' = [told EXCEPT ![t].pnl = answeredIs.pnl]
           \/ /\ redis' = redis /\ failed' = TRUE
              /\ counters' = AddStreak(counters, t)
              /\ told' = [told EXCEPT ![t].pnl = counters.pnl]
    BY DEF UpdatePnl
  <1>2. /\ taskStep'[t] = "streak" /\ \A u \in Trades : u # t => taskStep'[u] = taskStep[u]
        /\ taskStep' \in [Trades -> Steps \cup {"none", "done", "lost", "past"}]
        /\ \A u \in Trades : Working(u)' <=> Working(u)
        /\ Working(t) /\ resetOn = onDate /\ TasksInOrder'
        /\ OfToday' = OfToday /\ (ResetPending' <=> ResetPending)
        /\ ~mixed => \A u \in Trades : u # t => taskStep'[u] \notin Steps
    BY <1>1, NextCallFacts
  <1>3. /\ answeredIs = [pnl |-> redis.pnl + earned[t], streak |-> counters.streak,
                         count |-> counters.count]
        /\ answeredIs \in DayCounters /\ answeredIs.pnl = redis.pnl + earned[t]
        /\ redis \in DayCounters /\ counters \in DayCounters
        /\ redis.pnl \in Int /\ redis.count \in Nat /\ earned[t] \in Int
        /\ told \in [Trades -> DayCounters]
    BY DEF NotifierInv, NotifierTypeOK, DayCounters
  <1>. HIDE DEF answeredIs
  <1>4. /\ AddPnl(redis, t) \in DayCounters /\ AddStreak(answeredIs, t) \in DayCounters
        /\ AddStreak(counters, t) \in DayCounters
        /\ AddPnl(redis, t) = [pnl |-> redis.pnl + earned[t], streak |-> redis.streak,
                               count |-> redis.count]
    BY <1>3, DayCountersKeep DEF NotifierInv
  <1>5. /\ told' \in [Trades -> DayCounters]
        /\ \A u \in Trades : u # t => told'[u] = told[u]
        /\ told'[t].pnl \in {answeredIs.pnl, counters.pnl}
        /\ ~failed' => told'[t].pnl = answeredIs.pnl
    <2>1. \A p \in Int : [told EXCEPT ![t].pnl = p] \in [Trades -> DayCounters]
      BY <1>3 DEF DayCounters
    <2>2. answeredIs.pnl \in Int /\ counters.pnl \in Int
      BY <1>3 DEF DayCounters
    <2>3. \A p \in Int : /\ [told EXCEPT ![t].pnl = p][t].pnl = p
                         /\ \A u \in Trades : u # t => [told EXCEPT ![t].pnl = p][u] = told[u]
      BY <1>3 DEF DayCounters
    <2>. QED
      BY <1>1, <2>1, <2>2, <2>3
  <1>6. NotifierTypeOK'
    <2>1. redis' \in DayCounters /\ counters' \in DayCounters
      BY <1>1, <1>3, <1>4
    <2>2. failed' \in BOOLEAN
      BY <1>1 DEF NotifierInv, NotifierTypeOK
    <2>. QED
      BY <1>1, <1>2, <1>5, <2>1, <2>2 DEF NotifierInv, NotifierTypeOK
  <1>7. Added' = Added \cup {t} /\ t \notin Added
    BY <1>1, <1>2 DEF Added
  <1>8. Unharmed' => Unharmed /\ redis' = AddPnl(redis, t) /\ counters' = AddStreak(answeredIs, t)
                     /\ told'[t].pnl = redis.pnl + earned[t]
    <2>1. ~failed' => /\ ~failed /\ redis' = AddPnl(redis, t) /\ counters' = AddStreak(answeredIs, t)
                      /\ told'[t].pnl = answeredIs.pnl
      BY <1>1, <1>5
    <2>2. (\A u \in Trades : taskStep'[u] # "lost") => \A u \in Trades : taskStep[u] # "lost"
      BY <1>1, <1>2
    <2>. QED
      BY <1>3, <2>1, <2>2 DEF Unharmed
  <1>9. SumFunctionOnSet(earned, Added \cup {t}) = SumFunctionOnSet(earned, Added) + earned[t]
    <2>1. IsFiniteSet(Added) /\ \A u \in Added : earned[u] \in Int
      BY NotifierNumbers DEF NotifierInv, NotifierTypeOK, Added
    <2>. QED
      BY <1>3, <1>7, <2>1, SumGrows
  <1>10. Unharmed' /\ ~ResetPending' /\ ~wiped' =>
            redis.pnl + earned[t] = SumFunctionOnSet(earned, Added \cup {t})
    BY <1>1, <1>2, <1>8, <1>9 DEF NotifierInv, RedisOfTheDay
  <1>11. RedisOfTheDay'
    <2>1. Unharmed' => redis'.count = redis.count /\ redis'.pnl = redis.pnl + earned[t]
      BY <1>4, <1>8
    <2>. QED
      BY <1>1, <1>2, <1>7, <1>8, <1>10, <2>1 DEF NotifierInv, RedisOfTheDay
  <1>12. MemoryFollows'
    <2>1. SUFFICES ASSUME Unharmed', ~mixed PROVE MemoryFollows'
      BY <1>1 DEF MemoryFollows
    <2>2. counters = AddPnl(redis, t)
      BY <1>1, <1>2, <1>8, <2>1 DEF NotifierInv, MemoryFollows
    <2>3. answeredIs = AddPnl(redis, t)
      BY <1>3, <1>4, <2>2
    <2>4. counters' = AddStreak(redis, t)'
      BY <1>1, <1>8, <2>1, <2>3 DEF AddStreak
    <2>. QED
      BY <1>2, <2>1, <2>4, <1>1 DEF MemoryFollows, Steps
  <1>13. LastTells'
    <2>1. \A u \in Trades : taskStep'[u] = "done" => taskStep[u] = "done" /\ u # t
      BY <1>1, <1>2
    <2>2. \A u \in Trades : taskStep'[u] = "done" => reported'[u] = Priority(told'[u])
      BY <1>1, <1>5, <2>1 DEF NotifierInv, LastTells
    <2>3. Unharmed' /\ ~ResetPending' /\ ~wiped' =>
             t \in Added' /\ told'[t].pnl = SumFunctionOnSet(earned, Added')
      BY <1>7, <1>8, <1>10
    <2>. QED
      BY <1>1, <2>2, <2>3 DEF LastTells
  <1>. QED
    BY <1>2, <1>6, <1>11, <1>12, <1>13 DEF NotifierInv

(* The streak goes to Redis, and what Redis says is told.                  *)
LEMMA UpdateLossStreakKeeps ==
    ASSUME NotifierInv, NEW t \in Trades, UpdateLossStreak(t)
    PROVE  NotifierInv'
  <1> DEFINE answeredIs == [counters EXCEPT !.streak = AddStreak(redis, t).streak]
  <1>1. /\ taskStep[t] = "streak" /\ taskStep' = [taskStep EXCEPT ![t] = "count"]
        /\ UNCHANGED <<onDate, resetOn, earned, reported, restarts, wiped, mixed>>
        /\ \/ /\ redis' = AddStreak(redis, t) /\ failed' = failed
              /\ counters' = AddCount(answeredIs)
              /\ told' = [told EXCEPT ![t].streak = answeredIs.streak]
           \/ /\ redis' = redis /\ failed' = TRUE
              /\ counters' = AddCount(counters)
              /\ told' = [told EXCEPT ![t].streak = counters.streak]
    BY DEF UpdateLossStreak
  <1>2. /\ taskStep'[t] = "count" /\ \A u \in Trades : u # t => taskStep'[u] = taskStep[u]
        /\ taskStep' \in [Trades -> Steps \cup {"none", "done", "lost", "past"}]
        /\ \A u \in Trades : Working(u)' <=> Working(u)
        /\ Working(t) /\ resetOn = onDate /\ TasksInOrder'
        /\ OfToday' = OfToday /\ (ResetPending' <=> ResetPending)
        /\ ~mixed => \A u \in Trades : u # t => taskStep'[u] \notin Steps
    BY <1>1, NextCallFacts
  <1>3. /\ redis \in DayCounters /\ counters \in DayCounters /\ told \in [Trades -> DayCounters]
    BY DEF NotifierInv, NotifierTypeOK
  <1>4. /\ AddStreak(redis, t) \in DayCounters
        /\ AddStreak(redis, t) = [pnl |-> redis.pnl, count |-> redis.count,
                                  streak |-> AddStreak(redis, t).streak]
    BY <1>3, DayCountersKeep DEF NotifierInv
  <1>5. AddStreak(redis, t).streak \in Nat
    BY <1>4 DEF DayCounters
  <1>6. answeredIs \in DayCounters /\ answeredIs.streak \in Nat
        /\ (counters = AddStreak(redis, t) => answeredIs = counters)
    BY <1>3, <1>4, <1>5 DEF DayCounters
  <1>. HIDE DEF answeredIs
  <1>7. AddCount(answeredIs) \in DayCounters /\ AddCount(counters) \in DayCounters
    BY <1>3, <1>6, DayCountersKeep DEF NotifierInv
  <1>8. /\ told' \in [Trades -> DayCounters]
        /\ \A u \in Trades : told'[u].pnl = told[u].pnl /\ (u # t => told'[u] = told[u])
    <2>1. \A n \in Nat : [told EXCEPT ![t].streak = n] \in [Trades -> DayCounters]
      BY <1>3 DEF DayCounters
    <2>2. counters.streak \in Nat
      BY <1>3 DEF DayCounters
    <2>3. \A n \in Nat : \A u \in Trades :
             /\ [told EXCEPT ![t].streak = n][u].pnl = told[u].pnl
             /\ u # t => [told EXCEPT ![t].streak = n][u] = told[u]
      BY <1>3 DEF DayCounters
    <2>. QED
      BY <1>1, <1>6, <2>1, <2>2, <2>3
  <1>9. NotifierTypeOK'
    <2>1. redis' \in DayCounters /\ counters' \in DayCounters
      BY <1>1, <1>3, <1>4, <1>7
    <2>2. failed' \in BOOLEAN
      BY <1>1 DEF NotifierInv, NotifierTypeOK
    <2>. QED
      BY <1>1, <1>2, <1>8, <2>1, <2>2 DEF NotifierInv, NotifierTypeOK
  <1>10. Added' = Added
    BY <1>1, <1>2 DEF Added
  <1>11. Unharmed' => Unharmed /\ redis' = AddStreak(redis, t) /\ counters' = AddCount(answeredIs)
    <2>1. ~failed' => ~failed /\ redis' = AddStreak(redis, t) /\ counters' = AddCount(answeredIs)
      BY <1>1
    <2>2. (\A u \in Trades : taskStep'[u] # "lost") => \A u \in Trades : taskStep[u] # "lost"
      BY <1>1, <1>2
    <2>. QED
      BY <2>1, <2>2 DEF Unharmed
  <1>12. RedisOfTheDay'
    <2>1. Unharmed' => redis'.count = redis.count /\ redis'.pnl = redis.pnl
      BY <1>4, <1>11
    <2>. QED
      BY <1>1, <1>2, <1>10, <1>11, <2>1 DEF NotifierInv, RedisOfTheDay
  <1>13. MemoryFollows'
    <2>1. SUFFICES ASSUME Unharmed', ~mixed PROVE MemoryFollows'
      BY <1>1 DEF MemoryFollows
    <2>2. counters = AddStreak(redis, t)
      BY <1>1, <1>2, <1>11, <2>1 DEF NotifierInv, MemoryFollows
    <2>3. counters' = AddCount(redis')
      BY <1>6, <1>11, <2>1, <2>2
    <2>4. counters' = AddCount(redis)'
      BY <2>3 DEF AddCount
    <2>. QED
      BY <1>1, <1>2, <2>1, <2>4 DEF MemoryFollows, Steps
  <1>14. LastTells'
    <2>1. \A u \in Trades : taskStep'[u] = "done" => taskStep[u] = "done" /\ u # t
      BY <1>1, <1>2
    <2>2. \A u \in Trades : taskStep'[u] = "done" => reported'[u] = Priority(told'[u])
      BY <1>1, <1>8, <2>1 DEF NotifierInv, LastTells
    <2>3. Added \subseteq Trades
      BY DEF Added
    <2>4. Unharmed' /\ ~ResetPending' /\ ~wiped' /\ Added # {} =>
             \E u \in Added : told'[u].pnl = SumFunctionOnSet(earned, Added)
      BY <1>1, <1>2, <1>8, <1>11, <2>3 DEF NotifierInv, LastTells
    <2>. QED
      BY <1>1, <1>10, <2>2, <2>4 DEF LastTells
  <1>. QED
    BY <1>2, <1>9, <1>12, <1>13, <1>14 DEF NotifierInv

(* The trade is counted and its message sent.                              *)
LEMMA IncrementKeeps ==
    ASSUME NotifierInv, NEW t \in Trades, IncrementTradeCount(t)
    PROVE  NotifierInv'
  <1>1. /\ taskStep[t] = "count" /\ taskStep' = [taskStep EXCEPT ![t] = "done"]
        /\ reported' = [reported EXCEPT ![t] = Priority(told[t])]
        /\ UNCHANGED <<onDate, resetOn, earned, told, restarts, wiped, mixed>>
        /\ \/ /\ redis' = AddCount(redis) /\ failed' = failed
              /\ counters' = [counters EXCEPT !.count = redis.count + 1]
           \/ redis' = redis /\ counters' = counters /\ failed' = TRUE
    BY DEF IncrementTradeCount
  <1>2. /\ taskStep'[t] = "done" /\ \A u \in Trades : u # t => taskStep'[u] = taskStep[u]
        /\ taskStep' \in [Trades -> Steps \cup {"none", "done", "lost", "past"}]
    BY <1>1 DEF NotifierInv, NotifierTypeOK
  <1>3. /\ Working(t) /\ ~Working(t)' /\ resetOn = onDate
        /\ \A u \in Trades : u # t => (Working(u)' <=> Working(u))
    BY <1>1, <1>2 DEF NotifierInv, TasksInOrder, Working, Steps
  <1>4. /\ redis \in DayCounters /\ counters \in DayCounters
        /\ AddCount(redis) \in DayCounters
        /\ AddCount(redis) = [pnl |-> redis.pnl, streak |-> redis.streak, count |-> redis.count + 1]
        /\ redis.count \in Nat
    BY DayCountersKeep DEF NotifierInv, NotifierTypeOK, DayCounters
  <1>5. /\ [counters EXCEPT !.count = redis.count + 1] \in DayCounters
        /\ counters = AddCount(redis) =>
              [counters EXCEPT !.count = redis.count + 1] = AddCount(redis)
    BY <1>4 DEF DayCounters
  <1>6. /\ reported' \in [Trades -> {"none", "normal", "high", "urgent"}]
        /\ reported'[t] = Priority(told[t])
        /\ \A u \in Trades : u # t => reported'[u] = reported[u]
    <2>1. Priority(told[t]) \in {"normal", "high", "urgent"}
      BY DEF Priority
    <2>. QED
      BY <1>1, <2>1 DEF NotifierInv, NotifierTypeOK
  <1>7. NotifierTypeOK'
    <2>1. redis' \in DayCounters /\ counters' \in DayCounters
      BY <1>1, <1>4, <1>5
    <2>2. failed' \in BOOLEAN
      BY <1>1 DEF NotifierInv, NotifierTypeOK
    <2>. QED
      BY <1>1, <1>2, <1>6, <2>1, <2>2 DEF NotifierInv, NotifierTypeOK
  <1>8. \A u \in Trades : taskStep[u] = "reset" => u # t /\ mixed
    BY <1>1, <1>3 DEF NotifierInv, TasksInOrder, Working, Steps
  <1>9. TasksInOrder'
    <2>1. \A u \in Trades : Working(u)' => resetOn' = onDate'
      BY <1>1, <1>3
    <2>2. \A u, v \in Trades : Working(u)' /\ Working(v)' /\ u # v => mixed'
      BY <1>1, <1>3 DEF NotifierInv, TasksInOrder
    <2>3. \A u, v \in Trades : taskStep'[u] = "reset" /\ taskStep'[v] = "reset" => u = v
      BY <1>2 DEF NotifierInv, TasksInOrder
    <2>4. \A u \in Trades : taskStep'[u] = "lost" => restarts' > 0
      BY <1>1, <1>2 DEF NotifierInv, TasksInOrder
    <2>5. \A u, v \in Trades : taskStep'[u] = "reset" /\ taskStep'[v] = "done"
             => mixed' \/ restarts' > 0
      BY <1>1, <1>2, <1>8
    <2>6. wiped' => mixed' \/ restarts' > 0
      BY <1>1 DEF NotifierInv, TasksInOrder
    <2>. QED
      BY <1>1, <1>3, <2>1, <2>2, <2>3, <2>4, <2>5, <2>6 DEF TasksInOrder
  <1>10. Added' = Added /\ OfToday' = OfToday \cup {t} /\ t \notin OfToday
    BY <1>1, <1>2 DEF Added, OfToday
  <1>11. Cardinality(OfToday \cup {t}) = Cardinality(OfToday) + 1 /\ Cardinality(OfToday) \in Nat
    BY <1>10, NotifierNumbers, FS_AddElement
  <1>12. /\ Unharmed' => /\ Unharmed /\ redis' = AddCount(redis)
                         /\ counters' = [counters EXCEPT !.count = redis.count + 1]
         /\ ~ResetPending' => ~ResetPending
    <2>1. ~failed' => /\ ~failed /\ redis' = AddCount(redis)
                      /\ counters' = [counters EXCEPT !.count = redis.count + 1]
      BY <1>1
    <2>2. (\A u \in Trades : taskStep'[u] # "lost") => \A u \in Trades : taskStep[u] # "lost"
      BY <1>1, <1>2
    <2>3. ~ResetPending' => ~ResetPending
      BY <1>1, <1>2 DEF ResetPending
    <2>. QED
      BY <2>1, <2>2, <2>3 DEF Unharmed
  <1>13. RedisOfTheDay'
    <2>1. Unharmed' => redis'.count = redis.count + 1 /\ redis'.pnl = redis.pnl
      BY <1>4, <1>12
    <2>2. SUFFICES ASSUME Unharmed', ~ResetPending'
                   PROVE  /\ redis'.count <= Cardinality(OfToday \cup {t})
                          /\ ~wiped => /\ redis'.count = Cardinality(OfToday \cup {t})
                                       /\ redis'.pnl = SumFunctionOnSet(earned, Added)
      BY <1>1, <1>10 DEF RedisOfTheDay
    <2>3. /\ redis.count <= Cardinality(OfToday)
          /\ ~wiped => /\ redis.count = Cardinality(OfToday)
                       /\ redis.pnl = SumFunctionOnSet(earned, Added)
      BY <1>3, <1>12, <2>2 DEF NotifierInv, RedisOfTheDay
    <2>. QED
      BY <1>4, <1>11, <2>1, <2>2, <2>3
  <1>14. MemoryFollows'
    <2>1. SUFFICES ASSUME Unharmed', ~mixed PROVE MemoryFollows'
      BY <1>1 DEF MemoryFollows
    <2>2. counters = AddCount(redis)
      BY <1>1, <1>3, <1>12, <2>1 DEF NotifierInv, MemoryFollows
    <2>3. counters' = redis'
      BY <1>5, <1>12, <2>1, <2>2
    <2>4. \A u \in Trades : u # t => ~Working(u)
      BY <1>3, <2>1 DEF NotifierInv, TasksInOrder
    <2>5. \A u \in Trades : taskStep'[u] \notin Steps
      BY <1>2, <2>4 DEF Working, Steps
    <2>. QED
      BY <2>3, <2>5 DEF MemoryFollows, Steps
  <1>15. LastTells'
    <2>1. \A u \in Trades : taskStep'[u] = "done" => reported'[u] = Priority(told'[u])
      BY <1>1, <1>2, <1>6 DEF NotifierInv, LastTells
    <2>. QED
      BY <1>1, <1>10, <1>12, <2>1 DEF NotifierInv, LastTells
  <1>. QED
    BY <1>7, <1>9, <1>13, <1>14, <1>15 DEF NotifierInv

(* A new process: the day is begun again by its first trade.               *)
LEMMA RestartNotifierKeeps ==
    ASSUME NotifierInv, RestartNotifier
    PROVE  NotifierInv'
  <1>1. /\ restarts' = restarts + 1 /\ counters' = Zeros /\ resetOn' = NeverReset
        /\ taskStep' = [t \in Trades |-> IF Working(t) THEN "lost" ELSE taskStep[t]]
        /\ UNCHANGED <<onDate, redis, earned, told, reported, failed, wiped, mixed>>
    BY DEF RestartNotifier
  <1>2. \A t \in Trades : /\ taskStep'[t] = IF Working(t) THEN "lost" ELSE taskStep[t]
                          /\ ~Working(t)'
    BY <1>1 DEF Working, Steps
  <1>3. restarts' \in Nat /\ restarts' > 0 /\ onDate \in Nat /\ resetOn' # onDate
    BY <1>1 DEF NotifierInv, NotifierTypeOK, NeverReset
  <1>4. NotifierTypeOK'
    <2>1. Zeros \in DayCounters
      BY DEF Zeros, DayCounters
    <2>2. taskStep' \in [Trades -> Steps \cup {"none", "done", "lost", "past"}]
      BY <1>1 DEF NotifierInv, NotifierTypeOK
    <2>3. resetOn' \in Nat \cup {NeverReset} /\ resetOn' <= onDate
      BY <1>1, <1>3 DEF NeverReset
    <2>. QED
      BY <1>1, <1>3, <2>1, <2>2, <2>3 DEF NotifierInv, NotifierTypeOK
  <1>5. TasksInOrder'
    BY <1>2, <1>3 DEF TasksInOrder, Working, Steps
  <1>6. RedisOfTheDay' /\ MemoryFollows'
    BY <1>1, <1>3 DEF RedisOfTheDay, MemoryFollows
  <1>7. LastTells'
    <2>1. \A t \in Trades : taskStep'[t] = "done" => taskStep[t] = "done"
      BY <1>2
    <2>2. \A t \in Trades : taskStep'[t] = "done" => reported'[t] = Priority(told'[t])
      BY <1>1, <2>1 DEF NotifierInv, LastTells
    <2>3. Unharmed' => Unharmed /\ \A t \in Trades : taskStep'[t] = taskStep[t]
      BY <1>1, <1>2 DEF Unharmed
    <2>4. Unharmed' => Added' = Added /\ (ResetPending' <=> ResetPending)
      BY <2>3 DEF Added, ResetPending
    <2>. QED
      BY <1>1, <2>2, <2>3, <2>4 DEF NotifierInv, LastTells
  <1>. QED
    BY <1>4, <1>5, <1>6, <1>7 DEF NotifierInv

(* The next day has no trades yet.                                         *)
LEMMA NextDateKeeps ==
    ASSUME NotifierInv, NextDate
    PROVE  NotifierInv'
  <1>1. /\ onDate' = onDate + 1 /\ \A t \in Trades : ~Working(t)
        /\ taskStep' = [t \in Trades |-> IF taskStep[t] = "none" THEN "none" ELSE "past"]
        /\ restarts' = 0 /\ failed' = FALSE /\ wiped' = FALSE /\ mixed' = FALSE
        /\ UNCHANGED <<counters, resetOn, redis, earned, told, reported>>
    BY DEF NextDate
  <1>2. \A t \in Trades : taskStep'[t] \in {"none", "past"}
    BY <1>1
  <1>3. resetOn' # onDate' /\ onDate' \in Nat /\ resetOn' <= onDate'
    BY <1>1 DEF NotifierInv, NotifierTypeOK, NeverReset
  <1>4. NotifierTypeOK'
    <2>1. taskStep' \in [Trades -> Steps \cup {"none", "done", "lost", "past"}]
      BY <1>1
    <2>. QED
      BY <1>1, <1>3, <2>1 DEF NotifierInv, NotifierTypeOK
  <1>5. TasksInOrder'
    BY <1>1, <1>2 DEF TasksInOrder, Working, Steps
  <1>6. RedisOfTheDay' /\ MemoryFollows'
    BY <1>3 DEF RedisOfTheDay, MemoryFollows
  <1>7. LastTells'
    <2>1. Added' = {}
      BY <1>2 DEF Added
    <2>. QED
      BY <1>2, <2>1 DEF LastTells
  <1>. QED
    BY <1>4, <1>5, <1>6, <1>7 DEF NotifierInv

(* Every step of the notifier keeps its invariant.                         *)
LEMMA NotifierKeeps ==
    ASSUME NotifierInv, NotifierNext \/ UNCHANGED notifierVars
    PROVE  NotifierInv'
  <1>1. CASE UNCHANGED notifierVars
    <2>1. /\ onDate' = onDate /\ counters' = counters /\ resetOn' = resetOn /\ redis' = redis
          /\ taskStep' = taskStep /\ earned' = earned /\ told' = told /\ reported' = reported
          /\ restarts' = restarts /\ failed' = failed /\ wiped' = wiped /\ mixed' = mixed
      BY <1>1 DEF notifierVars
    <2>2. NotifierTypeOK'
      BY <2>1 DEF NotifierInv, NotifierTypeOK
    <2>3. TasksInOrder'
      BY <2>1 DEF NotifierInv, TasksInOrder, Working
    <2>4. /\ Added' = Added /\ OfToday' = OfToday /\ (Unharmed' <=> Unharmed)
          /\ (ResetPending' <=> ResetPending)
      BY <2>1 DEF Added, OfToday, Unharmed, ResetPending
    <2>5. RedisOfTheDay' /\ LastTells'
      BY <2>1, <2>4 DEF NotifierInv, RedisOfTheDay, LastTells
    <2>6. MemoryFollows'
      BY <2>1, <2>4 DEF NotifierInv, MemoryFollows, Working, AddPnl, AddStreak, AddCount
    <2>. QED
      BY <2>2, <2>3, <2>5, <2>6 DEF NotifierInv
  <1>. QED
    BY <1>1, NotifyTradeKeeps, ResetRedisKeeps, UpdatePnlKeeps, UpdateLossStreakKeeps,
       IncrementKeeps, RestartNotifierKeeps, NextDateKeeps DEF NotifierNext

(* The notifier begins with no trade told.                                 *)
LEMMA InitNotifierInv == NotifierInit => NotifierInv
  <1>. SUFFICES ASSUME NotifierInit PROVE NotifierInv
    OBVIOUS
  <1>1. Zeros \in DayCounters
    BY DEF Zeros, DayCounters
  <1>2. \A t \in Trades : taskStep[t] = "none"
    BY DEF NotifierInit
  <1>3. NotifierTypeOK
    <2>1. /\ onDate \in Nat /\ resetOn \in Nat \cup {NeverReset} /\ resetOn <= onDate
          /\ restarts \in Nat /\ failed \in BOOLEAN /\ wiped \in BOOLEAN /\ mixed \in BOOLEAN
      <3>1. onDate = 0 /\ resetOn = -1 /\ restarts = 0
        BY DEF NotifierInit, NeverReset
      <3>2. failed = FALSE /\ wiped = FALSE /\ mixed = FALSE
        BY DEF NotifierInit
      <3>3. onDate \in Nat /\ resetOn \in {NeverReset} /\ resetOn <= onDate /\ restarts \in Nat
        BY <3>1 DEF NeverReset
      <3>. QED
        BY <3>2, <3>3, Zenon
    <2>2. /\ counters \in DayCounters /\ redis \in DayCounters /\ earned \in [Trades -> {1, -1}]
      BY <1>1 DEF NotifierInit
    <2>3. /\ taskStep \in [Trades -> Steps \cup {"none", "done", "lost", "past"}]
          /\ told \in [Trades -> DayCounters]
          /\ reported \in [Trades -> {"none", "normal", "high", "urgent"}]
      BY <1>1 DEF NotifierInit
    <2>. QED
      BY <2>1, <2>2, <2>3 DEF NotifierTypeOK
  <1>4. TasksInOrder
    BY <1>2 DEF NotifierInit, TasksInOrder, Working, Steps
  <1>5. resetOn # onDate
    BY DEF NotifierInit, NeverReset
  <1>6. RedisOfTheDay /\ MemoryFollows
    BY <1>5 DEF RedisOfTheDay, MemoryFollows
  <1>7. LastTells
    <2>1. Added = {}
      BY <1>2 DEF Added
    <2>. QED
      BY <1>2, <2>1 DEF LastTells
  <1>. QED
    BY <1>3, <1>4, <1>6, <1>7 DEF NotifierInv

(* When all is quiet, what the invariant says of the tasks that reached    *)
(* Redis it says of those that are done.                                   *)
LEMMA NotifierFollows ==
    ASSUME NotifierInv
    PROVE  NotifierSound
  <1>1. Quiet => /\ Added = OfToday /\ ~ResetPending /\ \A t \in Trades : ~Working(t)
                 /\ \A t \in Trades : taskStep[t] # "lost"
    BY DEF Quiet, Added, OfToday, ResetPending, Working, Steps
  <1>2. SumOf(OfToday) = SumFunctionOnSet(earned, OfToday)
    BY SumOfIs
  <1>3. wiped => mixed \/ restarts > 0
    BY DEF NotifierInv, TasksInOrder
  <1>4. redis.count \in Nat /\ restarts \in Nat /\ Cardinality(OfToday) \in Nat
    BY NotifierNumbers DEF NotifierInv, NotifierTypeOK, DayCounters
  <1>5. CountersOfTheDay
    BY <1>1, <1>2, <1>3, <1>4
       DEF NotifierInv, RedisOfTheDay, MemoryFollows, CountersOfTheDay, Unharmed
  <1>6. TakenByResets
    BY <1>1, <1>2, <1>3, <1>4
       DEF NotifierInv, RedisOfTheDay, MemoryFollows, TakenByResets, Unharmed
  <1>7. LossReported
    <2>1. SUFFICES ASSUME Quiet, ~failed, ~wiped, OfToday # {}, SumOf(OfToday) <= LossCritical
                   PROVE  \E t \in OfToday : reported[t] = "urgent"
      BY DEF LossReported
    <2>2. PICK t \in OfToday : told[t].pnl = SumOf(OfToday)
      BY <1>1, <1>2, <2>1 DEF NotifierInv, LastTells, Unharmed
    <2>3. reported[t] = Priority(told[t])
      BY DEF NotifierInv, LastTells, OfToday
    <2>4. Priority(told[t]) = "urgent"
      BY <2>1, <2>2 DEF Priority
    <2>. QED
      BY <2>3, <2>4
  <1>. QED
    BY <1>5, <1>6, <1>7 DEF NotifierSound

-----------------------------------------------------------------------------
(* The queue of alerts                                                     *)
(*                                                                         *)
(* A message that has never been doubled is in one place at a time, and    *)
(* each of its deliveries has raised its count of tries; so the limit of   *)
(* the tries is one of the deliveries as well.                             *)

Alerts == [id : Messages, tries : Nat]

QueueTypeOK ==
    /\ tradingDay \in BOOLEAN /\ again \in BOOLEAN /\ enqueued \subseteq Messages
    /\ pending \in Seq(Alerts) /\ putAside \in Seq(Alerts)
    /\ looping \in {"idle", "sending", "sleeping", "aside"}
    /\ taken \in Alerts \cup {NoMessage}
    /\ looping = "idle" <=> taken = NoMessage
    /\ delivered \in [Messages -> Nat]
    /\ delay \in Nat /\ answered \in Nat
    /\ lostMessages \in Nat /\ doubled \in Nat /\ redisFaults \in Nat

(* The delays that come before the last allowed try.                       *)
Slept == {RetryDelays[i] : i \in 1..Min({MaxAttempts - 1, Len(RetryDelays)})}

(* What is tried again may be, and what is put aside has been tried.       *)
TakenInOrder ==
    /\ looping \in {"sending", "sleeping"} => taken.tries < MaxAttempts
    /\ looping = "aside" => taken.tries >= MaxAttempts /\ delay = 0
    /\ looping = "sleeping" => \E d \in Slept : delay <= d

(* Of a message that was never doubled there is one copy to send, and it   *)
(* has been tried as often as it was delivered.                            *)
CountsDeliveries ==
    doubled = 0 =>
      /\ \A i, j \in DOMAIN pending : pending[i].id = pending[j].id => i = j
      /\ \A i \in DOMAIN pending :
            /\ pending[i].id # taken.id /\ pending[i].id \in enqueued
            /\ delivered[pending[i].id] <= pending[i].tries
      /\ taken # NoMessage =>
            taken.id \in enqueued /\ delivered[taken.id] <= taken.tries
      /\ \A m \in Messages : /\ delivered[m] <= MaxAttempts
                             /\ m \notin enqueued => delivered[m] = 0

QueueInv ==
    /\ QueueTypeOK /\ CopiesAccounted /\ TakenInOrder /\ CountsDeliveries
    /\ \A i \in DOMAIN pending : pending[i].tries < MaxAttempts
    /\ \A i \in DOMAIN putAside : putAside[i].tries >= MaxAttempts

(* The limits of the queue are numbers, and no message is none.            *)
LEMMA QueueNumbers ==
    /\ MaxAttempts \in Nat \ {0} /\ RetryDelays \in Seq(Nat \ {0}) /\ Len(RetryDelays) \in Nat \ {0}
    /\ \A i \in 1..Len(RetryDelays) : RetryDelays[i] \in Nat
    /\ NoMessage \notin Alerts /\ IsFiniteSet(Messages)
  <1>1. RetryDelays \in Seq(Nat \ {0}) /\ RetryDelays # <<>>
    BY QueueAssumption
  <1>2. NoMessage \notin Alerts
    BY QueueAssumption DEF NoMessage, Alerts
  <1>. QED
    BY <1>1, <1>2, QueueAssumption

(* The ends of a list.                                                     *)
LEMMA EndsOf ==
    ASSUME NEW T, NEW s \in Seq(T), NEW x \in T
    PROVE  /\ <<x>> \o s \in Seq(T) /\ Len(<<x>> \o s) = Len(s) + 1 /\ DOMAIN s = 1..Len(s)
           /\ Len(s) \in Nat
           /\ \A i \in 1..Len(s) + 1 :
                 (<<x>> \o s)[i] = IF i = 1 THEN x ELSE s[i - 1]
           /\ s # <<>> => /\ Front(s) \in Seq(T) /\ Len(Front(s)) = Len(s) - 1
                          /\ Last(s) \in T /\ Len(s) \in 1..Len(s)
                          /\ \A i \in 1..Len(s) - 1 : Front(s)[i] = s[i]
  <1>1. <<x>> \in Seq(T) /\ Len(<<x>>) = 1 /\ <<x>>[1] = x
    OBVIOUS
  <1>2. s # <<>> => Len(s) \in Nat \ {0} /\ s[Len(s)] \in T
    OBVIOUS
  <1>3. ASSUME s # <<>> PROVE Front(s) \in Seq(T) /\ Len(Front(s)) = Len(s) - 1
    <2> DEFINE n == Len(s) - 1
    <2>1. n \in Nat /\ n <= Len(s)
      BY <1>2, <1>3
    <2>. HIDE DEF n
    <2>2. SubSeq(s, 1, n) \in Seq(T) /\ Len(SubSeq(s, 1, n)) = n
      BY <2>1
    <2>. QED
      BY <2>2 DEF Front, n
  <1>4. s # <<>> => \A i \in 1..Len(s) - 1 : Front(s)[i] = s[i]
    BY <1>2 DEF Front
  <1>. QED
    BY <1>1, <1>2, <1>3, <1>4 DEF Last

(* A delay that is slept is one of those before the last allowed try.      *)
LEMMA DelayIsSlept ==
    ASSUME NEW m \in Alerts, 0 < m.tries, m.tries < MaxAttempts
    PROVE  DelayOf(m) \in Slept /\ DelayOf(m) \in Nat
  <1> DEFINE a == MaxAttempts - 1
             n == Len(RetryDelays)
             at == IF m.tries <= n THEN m.tries ELSE n
  <1>1. a \in Nat /\ n \in Nat \ {0} /\ m.tries \in 1..a /\ at \in 1..n /\ at <= a
    BY QueueNumbers DEF Alerts
  <1>2. Min({a, n}) \in {a, n} /\ Min({a, n}) <= a /\ Min({a, n}) <= n
    <2>1. {a, n} \in SUBSET Nat /\ {a, n} # {}
      BY <1>1
    <2>. QED
      BY <2>1, LeastIs
  <1>3. at \in 1..Min({a, n})
    BY <1>1, <1>2
  <1>4. DelayOf(m) = RetryDelays[at] /\ RetryDelays[at] \in Nat
    BY <1>1, QueueNumbers DEF DelayOf
  <1>. QED
    BY <1>3, <1>4 DEF Slept

(* What is slept is at most the longest of them.                           *)
LEMMA SleptAtMost ==
    ASSUME NEW e \in Nat, \E d \in Slept : e <= d
    PROVE  e <= Max(Slept)
  <1> DEFINE n == Min({MaxAttempts - 1, Len(RetryDelays)})
  <1>1. n \in Nat /\ n <= Len(RetryDelays)
    <2>1. {MaxAttempts - 1, Len(RetryDelays)} \in SUBSET Nat
      BY QueueNumbers
    <2>2. /\ Min({MaxAttempts - 1, Len(RetryDelays)}) \in {MaxAttempts - 1, Len(RetryDelays)}
          /\ Min({MaxAttempts - 1, Len(RetryDelays)}) <= Len(RetryDelays)
      BY <2>1, LeastIs
    <2>. QED
      BY <2>1, <2>2
  <1>. HIDE DEF n
  <1>2. \A i \in 1..n : RetryDelays[i] \in Nat
    BY <1>1, QueueNumbers
  <1>3. Slept = {RetryDelays[i] : i \in 1..n}
    BY DEF Slept, n
  <1>4. Slept \in SUBSET Nat
    BY <1>2, <1>3
  <1>5. IsFiniteSet(Slept)
    <2> DEFINE w == [i \in 1..n |-> RetryDelays[i]]
    <2>1. w \in Seq(Slept) /\ Len(w) = n
      BY <1>1, <1>3
    <2>2. \A d \in Slept : \E i \in 1..Len(w) : w[i] = d
      BY <1>3, <2>1
    <2>. QED
      BY <2>1, <2>2 DEF IsFiniteSet
  <1>6. PICK d \in Slept : e <= d
    OBVIOUS
  <1>7. Max(Slept) \in Slept /\ d <= Max(Slept)
    BY <1>4, <1>5, <1>6, LastIs
  <1>8. d \in Nat /\ Max(Slept) \in Nat
    BY <1>4, <1>7
  <1>9. \A x, y, z \in Nat : x <= y /\ y <= z => x <= z
    OBVIOUS
  <1>. QED
    BY <1>6, <1>7, <1>8, <1>9

(* The next try of what was taken.                                         *)
LEMMA StartRetryFacts ==
    ASSUME NEW m \in Alerts, StartRetry(Requeued(m))
    PROVE  /\ taken' = [id |-> m.id, tries |-> m.tries + 1] /\ taken' \in Alerts
           /\ taken' # NoMessage
           /\ looping' \in {"sleeping", "aside"} /\ delay' \in Nat
           /\ looping' = "sleeping" => taken'.tries < MaxAttempts /\ delay' \in Slept
           /\ looping' = "aside" => taken'.tries >= MaxAttempts /\ delay' = 0
  <1>1. m.id \in Messages /\ m.tries \in Nat /\ m = [id |-> m.id, tries |-> m.tries]
    BY DEF Alerts
  <1>2. Requeued(m) = [id |-> m.id, tries |-> m.tries + 1] /\ Requeued(m) \in Alerts
    BY <1>1 DEF Requeued, Alerts
  <1>3. Requeued(m).tries = m.tries + 1 /\ 0 < m.tries + 1
    BY <1>1, <1>2
  <1>4. ~(Requeued(m).tries >= MaxAttempts) =>
           DelayOf(Requeued(m)) \in Slept /\ DelayOf(Requeued(m)) \in Nat
    BY <1>1, <1>2, <1>3, DelayIsSlept, QueueNumbers
  <1>5. taken' = Requeued(m) /\ taken' # NoMessage
    BY <1>2, QueueNumbers DEF StartRetry
  <1>. QED
    BY <1>1, <1>2, <1>3, <1>4, <1>5, QueueNumbers DEF StartRetry

(* What the invariant says of the state it is in.                          *)
LEMMA QueueState ==
    ASSUME QueueInv
    PROVE  /\ pending \in Seq(Alerts) /\ putAside \in Seq(Alerts) /\ enqueued \in SUBSET Messages
           /\ Len(pending) \in Nat /\ Len(putAside) \in Nat /\ Cardinality(enqueued) \in Nat
           /\ IsFiniteSet(enqueued)
           /\ DOMAIN pending = 1..Len(pending) /\ DOMAIN putAside = 1..Len(putAside)
           /\ \A i \in 1..Len(pending) : pending[i] \in Alerts
           /\ answered \in Nat /\ lostMessages \in Nat /\ doubled \in Nat /\ redisFaults \in Nat
           /\ delay \in Nat /\ delivered \in [Messages -> Nat]
           /\ \A a \in Alerts : /\ a.id \in Messages /\ a.tries \in Nat /\ a # NoMessage
                                /\ a.id # NoMessage.id
           /\ looping # "idle" => taken \in Alerts
           /\ looping = "idle" => taken = NoMessage
  <1>1. pending \in Seq(Alerts) /\ putAside \in Seq(Alerts) /\ enqueued \in SUBSET Messages
    BY DEF QueueInv, QueueTypeOK
  <1>2. IsFiniteSet(enqueued) /\ Cardinality(enqueued) \in Nat
    BY <1>1, QueueNumbers, FS_Subset, FS_CardinalityType
  <1>3. \A a \in Alerts : a.id \in Messages /\ a.tries \in Nat /\ a # NoMessage
                          /\ a.id # NoMessage.id
    BY QueueNumbers, QueueAssumption DEF Alerts, NoMessage
  <1>4. \A i \in 1..Len(pending) : pending[i] \in Alerts
    BY <1>1
  <1>. QED
    BY <1>1, <1>2, <1>3, <1>4 DEF QueueInv, QueueTypeOK

(* Its counts, alone.                                                      *)
LEMMA QueueCounts ==
    ASSUME QueueInv
    PROVE  /\ Len(pending) \in Nat /\ Len(putAside) \in Nat /\ Cardinality(enqueued) \in Nat
           /\ answered \in Nat /\ lostMessages \in Nat /\ doubled \in Nat /\ redisFaults \in Nat
           /\ delay \in Nat
  BY QueueState

(* A message that comes, for the first time.                               *)
LEMMA EnqueueKeeps ==
    ASSUME QueueInv, NEW m \in Messages, Enqueue(m)
    PROVE  QueueInv'
  <1> DEFINE x == [id |-> m, tries |-> 0]
  <1>1. /\ m \notin enqueued /\ pending' = <<x>> \o pending /\ enqueued' = enqueued \cup {m}
        /\ redisFaults' \in {redisFaults, redisFaults + 1}
        /\ UNCHANGED <<tradingDay, putAside, looping, taken, delay, again, delivered, answered,
                       lostMessages, doubled>>
    BY DEF Enqueue
  <1>2. x \in Alerts /\ x.id = m /\ x.tries = 0
    BY DEF Alerts
  <1>. HIDE DEF x
  <1>3. /\ pending' \in Seq(Alerts) /\ Len(pending') = Len(pending) + 1
        /\ DOMAIN pending' = 1..Len(pending) + 1
        /\ \A i \in 1..Len(pending) + 1 : pending'[i] = IF i = 1 THEN x ELSE pending[i - 1]
    <2>1. pending \in Seq(Alerts)
      BY QueueState
    <2>2. /\ <<x>> \o pending \in Seq(Alerts) /\ Len(<<x>> \o pending) = Len(pending) + 1
          /\ \A i \in 1..Len(pending) + 1 :
                (<<x>> \o pending)[i] = IF i = 1 THEN x ELSE pending[i - 1]
      BY <1>2, <2>1, EndsOf
    <2>. QED
      BY <1>1, <2>2
  <1>4. Cardinality(enqueued') = Cardinality(enqueued) + 1
    BY <1>1, QueueState, FS_AddElement
  <1>5. QueueTypeOK'
    <2>1. redisFaults' \in Nat
      BY <1>1, QueueState
    <2>. QED
      BY <1>1, <1>3, <2>1 DEF QueueInv, QueueTypeOK
  <1>6. CopiesAccounted'
    <2>1. Cardinality(enqueued') + doubled = Len(pending') + Len(putAside)
             + (IF taken = NoMessage THEN 0 ELSE 1) + answered + lostMessages
      <3>1. Cardinality(enqueued) + doubled = Len(pending) + Len(putAside)
               + (IF taken = NoMessage THEN 0 ELSE 1) + answered + lostMessages
        BY DEF QueueInv, CopiesAccounted
      <3>2. PICK c, d, l, a, i, n, o \in Nat :
               /\ c = Cardinality(enqueued) /\ d = doubled /\ l = Len(pending)
               /\ a = Len(putAside) /\ i = (IF taken = NoMessage THEN 0 ELSE 1)
               /\ n = answered /\ o = lostMessages
        BY QueueCounts
      <3>3. c + d = l + a + i + n + o
        BY <3>1, <3>2
      <3>4. (c + 1) + d = (l + 1) + a + i + n + o
        BY <3>3
      <3>5. Cardinality(enqueued') = c + 1 /\ Len(pending') = l + 1
        BY <1>3, <1>4, <3>2
      <3>. QED
        BY <3>2, <3>4, <3>5
    <2>2. lostMessages + doubled <= redisFaults'
      BY <1>1, QueueState DEF QueueInv, CopiesAccounted
    <2>. QED
      BY <1>1, <2>1, <2>2 DEF CopiesAccounted
  <1>7. TakenInOrder'
    BY <1>1 DEF QueueInv, TakenInOrder, Slept
  <1>8. CountsDeliveries'
    <2>1. SUFFICES ASSUME doubled = 0 PROVE CountsDeliveries'
      BY <1>1 DEF CountsDeliveries
    <2>2. \A i \in 1..Len(pending) : /\ pending[i].id # taken.id /\ pending[i].id \in enqueued
                                     /\ delivered[pending[i].id] <= pending[i].tries
      BY <2>1, QueueState DEF QueueInv, CountsDeliveries
    <2>3. m # taken.id
      BY <1>1, <1>2, <2>1, QueueState DEF QueueInv, CountsDeliveries
    <2>4. \A i \in 1..Len(pending) + 1 : i # 1 => i - 1 \in 1..Len(pending)
      BY QueueState
    <2>5. \A i \in 1..Len(pending) + 1 :
             /\ pending'[i].id # taken.id /\ pending'[i].id \in enqueued'
             /\ delivered[pending'[i].id] <= pending'[i].tries
      BY <1>1, <1>2, <1>3, <2>1, <2>2, <2>3, <2>4, QueueState DEF QueueInv, CountsDeliveries
    <2>6. \A i, j \in 1..Len(pending) + 1 : pending'[i].id = pending'[j].id => i = j
      <3>1. \A i, j \in 1..Len(pending) : pending[i].id = pending[j].id => i = j
        BY <2>1, QueueState DEF QueueInv, CountsDeliveries
      <3>2. \A i \in 1..Len(pending) : pending[i].id # m
        BY <1>1, <2>2
      <3>3. SUFFICES ASSUME NEW i \in 1..Len(pending) + 1, NEW j \in 1..Len(pending) + 1,
                            pending'[i].id = pending'[j].id
                     PROVE  i = j
        OBVIOUS
      <3>4. /\ pending'[i].id = IF i = 1 THEN m ELSE pending[i - 1].id
            /\ pending'[j].id = IF j = 1 THEN m ELSE pending[j - 1].id
        BY <1>2, <1>3
      <3>5. i # 1 /\ j # 1 => i - 1 = j - 1
        BY <2>4, <3>1, <3>3, <3>4
      <3>6. i = 1 <=> j = 1
        BY <2>4, <3>2, <3>3, <3>4
      <3>7. Len(pending) \in Nat
        BY QueueState
      <3>. QED
        BY <3>5, <3>6, <3>7
    <2>. QED
      BY <1>1, <1>3, <2>1, <2>5, <2>6 DEF QueueInv, CountsDeliveries
  <1>9. \A i \in DOMAIN pending' : pending'[i].tries < MaxAttempts
    <2>1. \A i \in 1..Len(pending) : pending[i].tries < MaxAttempts
      BY QueueState DEF QueueInv
    <2>2. \A i \in 1..Len(pending) + 1 : i # 1 => i - 1 \in 1..Len(pending)
      BY QueueState
    <2>3. \A i \in 1..Len(pending) + 1 : pending'[i].tries < MaxAttempts
      <3>1. SUFFICES ASSUME NEW i \in 1..Len(pending) + 1 PROVE pending'[i].tries < MaxAttempts
        OBVIOUS
      <3>2. CASE i = 1
        <4>1. pending'[i] = x
          BY <1>3, <3>2
        <4>. QED
          BY <1>2, <4>1, QueueNumbers
      <3>3. CASE i # 1
        BY <1>3, <2>1, <2>2, <3>3
      <3>. QED
        BY <3>2, <3>3
    <2>. QED
      BY <1>3, <2>3
  <1>. QED
    BY <1>1, <1>5, <1>6, <1>7, <1>8, <1>9 DEF QueueInv

(* The oldest alert is taken, or lost on the way.                          *)
LEMMA DequeueKeeps ==
    ASSUME QueueInv, Dequeue
    PROVE  QueueInv'
  <1>1. /\ looping = "idle" /\ pending # <<>> /\ pending' = Front(pending)
        /\ \/ /\ looping' = "sending" /\ taken' = Last(pending)
              /\ UNCHANGED <<lostMessages, redisFaults>>
           \/ /\ looping' = "idle" /\ taken' = taken
              /\ redisFaults' = redisFaults + 1 /\ lostMessages' = lostMessages + 1
        /\ UNCHANGED <<tradingDay, putAside, delay, again, enqueued, delivered, answered, doubled>>
    BY DEF Dequeue
  <1>2. taken = NoMessage /\ pending \in Seq(Alerts)
    BY <1>1, QueueState
  <1>3. /\ pending' \in Seq(Alerts) /\ Len(pending') = Len(pending) - 1
        /\ DOMAIN pending' = 1..Len(pending) - 1
        /\ \A i \in 1..Len(pending) - 1 : pending'[i] = pending[i] /\ i \in 1..Len(pending)
        /\ Len(pending) \in 1..Len(pending)
        /\ Last(pending) = pending[Len(pending)] /\ Last(pending) \in Alerts
    <2>0. PICK x \in Alerts : x = Last(pending)
      BY <1>1, <1>2 DEF Last
    <2>1. /\ Front(pending) \in Seq(Alerts) /\ Len(Front(pending)) = Len(pending) - 1
          /\ Len(pending) \in 1..Len(pending)
          /\ \A i \in 1..Len(pending) - 1 : Front(pending)[i] = pending[i]
      BY <1>1, <1>2, <2>0, EndsOf
    <2>2. \A i \in 1..Len(pending) - 1 : i \in 1..Len(pending)
      BY QueueState
    <2>. QED
      BY <1>1, <2>0, <2>1, <2>2 DEF Last
  <1>4. /\ taken' \in Alerts \cup {NoMessage} /\ (looping' = "idle" <=> taken' = NoMessage)
        /\ looping' \in {"idle", "sending"}
        /\ lostMessages' \in Nat /\ redisFaults' \in Nat
    BY <1>1, <1>2, <1>3, QueueState
  <1>5. QueueTypeOK'
    BY <1>1, <1>3, <1>4 DEF QueueInv, QueueTypeOK
  <1>6. CopiesAccounted'
    <2>1. Cardinality(enqueued) + doubled = Len(pending) + Len(putAside) + answered + lostMessages
      BY <1>2, QueueState DEF QueueInv, CopiesAccounted
    <2>2. lostMessages + doubled <= redisFaults
      BY DEF QueueInv, CopiesAccounted
    <2>3. Cardinality(enqueued) + doubled = Len(pending') + Len(putAside)
             + (IF taken' = NoMessage THEN 0 ELSE 1) + answered + lostMessages'
      <3>1. /\ Len(pending') = Len(pending) - 1 /\ Len(pending) \in Nat /\ Len(putAside) \in Nat
            /\ answered \in Nat /\ lostMessages \in Nat
        BY <1>3, QueueState
      <3>2. \/ taken' # NoMessage /\ lostMessages' = lostMessages
            \/ taken' = NoMessage /\ lostMessages' = lostMessages + 1
        BY <1>1, <1>2, <1>3, QueueState
      <3>. QED
        BY <2>1, <3>1, <3>2
    <2>4. lostMessages' + doubled <= redisFaults'
      BY <1>1, <2>2, QueueState
    <2>. QED
      BY <1>1, <2>3, <2>4 DEF CopiesAccounted
  <1>7. TakenInOrder'
    <2>1. Last(pending).tries < MaxAttempts
      BY <1>3, QueueState DEF QueueInv
    <2>. QED
      BY <1>1, <2>1 DEF TakenInOrder
  <1>8. CountsDeliveries'
    <2>1. SUFFICES ASSUME doubled = 0 PROVE CountsDeliveries'
      BY <1>1 DEF CountsDeliveries
    <2>2. /\ \A i, j \in 1..Len(pending) : pending[i].id = pending[j].id => i = j
          /\ \A i \in 1..Len(pending) : /\ pending[i].id \in enqueued
                                        /\ delivered[pending[i].id] <= pending[i].tries
      BY <2>1, QueueState DEF QueueInv, CountsDeliveries
    <2>3. \A i \in 1..Len(pending) - 1 : pending[i].id # Last(pending).id
      <3>1. \A n \in Nat : \A i \in 1..n - 1 : i # n
        OBVIOUS
      <3>2. \A i \in 1..Len(pending) - 1 : i # Len(pending)
        BY <3>1, QueueState
      <3>. QED
        BY <1>3, <2>2, <3>2
    <2>4. \A i \in 1..Len(pending) - 1 : pending[i].id # NoMessage.id
      BY <1>3, QueueState
    <2>5. taken' # NoMessage => taken' = Last(pending)
      BY <1>1, <1>2
    <2>6. \A i \in 1..Len(pending) - 1 : pending'[i].id # taken'.id
      BY <1>3, <2>3, <2>4, <2>5
    <2>7. \A i, j \in 1..Len(pending) - 1 : pending'[i].id = pending'[j].id => i = j
      BY <1>3, <2>2
    <2>8. \A i \in 1..Len(pending) - 1 : /\ pending'[i].id \in enqueued
                                         /\ delivered[pending'[i].id] <= pending'[i].tries
      BY <1>3, <2>2
    <2>9. taken' # NoMessage => taken'.id \in enqueued /\ delivered[taken'.id] <= taken'.tries
      BY <1>3, <2>2, <2>5
    <2>10. \A m \in Messages : delivered[m] <= MaxAttempts /\ (m \notin enqueued => delivered[m] = 0)
      BY <2>1 DEF QueueInv, CountsDeliveries
    <2>. QED
      BY <1>1, <1>3, <2>6, <2>7, <2>8, <2>9, <2>10 DEF CountsDeliveries
  <1>9. \A i \in DOMAIN pending' : pending'[i].tries < MaxAttempts
    BY <1>3, QueueState DEF QueueInv
  <1>. QED
    BY <1>1, <1>5, <1>6, <1>7, <1>8, <1>9 DEF QueueInv

(* The message is sent, and is done or tried again.                        *)
LEMMA SendKeeps ==
    ASSUME QueueInv, Send
    PROVE  QueueInv'
  <1> DEFINE rest == IF taken' = NoMessage THEN 0 ELSE 1
  <1>1. /\ looping = "sending" /\ taken \in Alerts /\ taken.tries < MaxAttempts /\ again' = FALSE
        /\ UNCHANGED <<tradingDay, pending, putAside, enqueued, lostMessages, doubled, redisFaults>>
    BY QueueState DEF Send, QueueInv, TakenInOrder
  <1>2. \/ /\ looping' = "idle" /\ taken' = NoMessage /\ UNCHANGED delay /\ answered' = answered + 1
        \/ StartRetry(Requeued(taken)) /\ UNCHANGED answered
    BY DEF Send
  <1>3. /\ taken.id \in Messages
        /\ \/ delivered' = [delivered EXCEPT ![taken.id] = @ + 1]
           \/ delivered' = delivered
    BY <1>1, QueueState DEF Send
  <1>4. /\ delivered' \in [Messages -> Nat]
        /\ \A m \in Messages : m # taken.id => delivered'[m] = delivered[m]
        /\ delivered'[taken.id] \in {delivered[taken.id], delivered[taken.id] + 1}
    BY <1>3, QueueState
  <1>5. /\ taken' \in Alerts \cup {NoMessage} /\ (looping' = "idle" <=> taken' = NoMessage)
        /\ looping' \in {"idle", "sleeping", "aside"} /\ delay' \in Nat /\ answered' \in Nat
        /\ taken' # NoMessage => taken'.id = taken.id /\ taken'.tries = taken.tries + 1
        /\ answered' + rest = answered + 1
        /\ looping' = "sleeping" => taken'.tries < MaxAttempts /\ delay' \in Slept
        /\ looping' = "aside" => taken'.tries >= MaxAttempts /\ delay' = 0
    <2>1. CASE StartRetry(Requeued(taken)) /\ UNCHANGED answered
      BY <1>1, <2>1, StartRetryFacts, QueueState
    <2>2. CASE looping' = "idle" /\ taken' = NoMessage /\ UNCHANGED delay /\ answered' = answered + 1
      BY <2>2, QueueState
    <2>. QED
      BY <1>2, <2>1, <2>2
  <1>. HIDE DEF rest
  <1>6. QueueTypeOK'
    BY <1>1, <1>4, <1>5 DEF QueueInv, QueueTypeOK
  <1>7. CopiesAccounted'
    <2>1. taken # NoMessage
      BY <1>1, QueueState
    <2>2. Cardinality(enqueued) + doubled = Len(pending) + Len(putAside) + 1 + answered + lostMessages
      BY <2>1 DEF QueueInv, CopiesAccounted
    <2>3. Cardinality(enqueued) + doubled = Len(pending) + Len(putAside)
             + rest + answered' + lostMessages
      <3>1. rest \in Nat
        BY DEF rest
      <3>2. answered' \in Nat /\ answered' + rest = answered + 1
        BY <1>5
      <3>3. /\ Len(pending) \in Nat /\ Len(putAside) \in Nat /\ answered \in Nat
            /\ lostMessages \in Nat /\ Cardinality(enqueued) + doubled \in Nat
        BY QueueCounts
      <3>4. PICK ec \in Nat, pc \in Nat, ac \in Nat, wc \in Nat, wn \in Nat, lc \in Nat, rc \in Nat :
               /\ ec = Cardinality(enqueued) + doubled /\ pc = Len(pending) /\ ac = Len(putAside)
               /\ wc = answered /\ wn = answered' /\ lc = lostMessages /\ rc = rest
        BY <3>1, <3>2, <3>3, Zenon
      <3>5. ec = pc + ac + 1 + wc + lc /\ wn + rc = wc + 1
        BY <2>2, <3>2, <3>4, Zenon
      <3>6. ec = pc + ac + rc + wn + lc
        BY <3>5
      <3>. QED
        BY <3>4, <3>6, Zenon
    <2>. QED
      BY <1>1, <2>3 DEF QueueInv, CopiesAccounted, rest
  <1>8. TakenInOrder'
    <2>1. looping' = "sleeping" => delay' <= delay' /\ delay' \in Slept
      BY <1>5
    <2>. QED
      BY <1>5, <2>1 DEF TakenInOrder, Slept
  <1>9. CountsDeliveries'
    <2>1. SUFFICES ASSUME doubled = 0 PROVE CountsDeliveries'
      BY <1>1 DEF CountsDeliveries
    <2>2. /\ \A i, j \in DOMAIN pending : pending[i].id = pending[j].id => i = j
          /\ \A i \in DOMAIN pending : /\ pending[i] \in Alerts /\ pending[i].id \in Messages
                                       /\ pending[i].id # taken.id /\ pending[i].id \in enqueued
                                       /\ delivered[pending[i].id] <= pending[i].tries
          /\ taken.id \in enqueued /\ delivered[taken.id] <= taken.tries
          /\ \A m \in Messages : delivered[m] <= MaxAttempts /\ (m \notin enqueued => delivered[m] = 0)
      BY <1>1, <2>1, QueueState DEF QueueInv, CountsDeliveries
    <2>3. /\ delivered[taken.id] \in Nat /\ taken.tries \in Nat /\ MaxAttempts \in Nat
      BY <1>1, <1>3, QueueState, QueueNumbers
    <2>4. delivered'[taken.id] <= taken.tries + 1 /\ delivered'[taken.id] <= MaxAttempts
      BY <1>1, <1>4, <2>2, <2>3
    <2>5. \A i \in DOMAIN pending : /\ pending[i].id # taken'.id
                                    /\ delivered'[pending[i].id] <= pending[i].tries
      BY <1>4, <1>5, <2>2, QueueState
    <2>6. taken' # NoMessage => taken'.id \in enqueued /\ delivered'[taken'.id] <= taken'.tries
      BY <1>5, <2>2, <2>4
    <2>7. \A m \in Messages : /\ delivered'[m] <= MaxAttempts
                              /\ m \notin enqueued => delivered'[m] = 0
      BY <1>4, <2>2, <2>4
    <2>. QED
      BY <1>1, <2>2, <2>5, <2>6, <2>7 DEF CountsDeliveries
  <1>. QED
    BY <1>1, <1>6, <1>7, <1>8, <1>9 DEF QueueInv

(* What CountsDeliveries says of the alerts that wait.                     *)
PendingCounted ==
    /\ \A i, j \in DOMAIN pending : pending[i].id = pending[j].id => i = j
    /\ \A i \in DOMAIN pending : /\ pending[i].id \in enqueued /\ pending[i].id \in Messages
                                 /\ delivered[pending[i].id] <= pending[i].tries

(* What was taken goes to one of the lists.                                *)
LEMMA PushFacts ==
    ASSUME QueueInv, Push, UNCHANGED <<enqueued, delivered>>
    PROVE  /\ taken \in Alerts
           /\ pending' \in Seq(Alerts) /\ putAside' \in Seq(Alerts)
           /\ Len(pending') + Len(putAside') = Len(pending) + Len(putAside) + 1
           /\ \A i \in DOMAIN pending' : pending'[i].tries < MaxAttempts
           /\ \A i \in DOMAIN putAside' : putAside'[i].tries >= MaxAttempts
           /\ doubled = 0 => PendingCounted'
  <1>1. taken \in Alerts /\ pending \in Seq(Alerts) /\ putAside \in Seq(Alerts)
    BY QueueState DEF Push
  <1>2. \/ /\ pending' = <<taken>> \o pending /\ putAside' = putAside
           /\ taken.tries < MaxAttempts
        \/ /\ putAside' = <<taken>> \o putAside /\ pending' = pending
           /\ taken.tries >= MaxAttempts
    BY DEF Push, QueueInv, TakenInOrder
  <1>3. \A n \in Nat : \A i \in 1..n + 1 : i # 1 => i - 1 \in 1..n
    OBVIOUS
  <1>4. /\ \A i \in 1..Len(pending) : pending[i].tries < MaxAttempts
        /\ \A i \in 1..Len(putAside) : putAside[i].tries >= MaxAttempts
    BY QueueState DEF QueueInv
  <1>5. doubled = 0 =>
          /\ \A i, j \in 1..Len(pending) : pending[i].id = pending[j].id => i = j
          /\ \A i \in 1..Len(pending) : /\ pending[i].id \in enqueued /\ pending[i].id \in Messages
                                        /\ pending[i].id # taken.id
                                        /\ delivered[pending[i].id] <= pending[i].tries
          /\ taken.id \in enqueued /\ taken.id \in Messages /\ delivered[taken.id] <= taken.tries
    BY <1>1, QueueState DEF QueueInv, CountsDeliveries
  <1>6. CASE /\ pending' = <<taken>> \o pending /\ putAside' = putAside
             /\ taken.tries < MaxAttempts
    <2>1. /\ pending' \in Seq(Alerts) /\ Len(pending') = Len(pending) + 1
          /\ DOMAIN pending' = 1..Len(pending) + 1 /\ Len(pending) \in Nat
          /\ \A i \in 1..Len(pending) + 1 : pending'[i] = IF i = 1 THEN taken ELSE pending[i - 1]
      BY <1>1, <1>6, EndsOf
    <2>2. \A i \in 1..Len(pending) + 1 : i # 1 => i - 1 \in 1..Len(pending)
      BY <1>3, <2>1
    <2>3. \A i \in DOMAIN pending' : pending'[i].tries < MaxAttempts
      BY <1>4, <1>6, <2>1, <2>2
    <2>4. ASSUME doubled = 0 PROVE PendingCounted'
      <3>1. \A i \in DOMAIN pending' :
               /\ pending'[i].id \in enqueued /\ pending'[i].id \in Messages
               /\ delivered[pending'[i].id] <= pending'[i].tries
        BY <1>5, <2>1, <2>2, <2>4
      <3>2. ASSUME NEW i \in 1..Len(pending) + 1, NEW j \in 1..Len(pending) + 1,
                   pending'[i].id = pending'[j].id
            PROVE  i = j
        <4>1. /\ pending'[i].id = IF i = 1 THEN taken.id ELSE pending[i - 1].id
              /\ pending'[j].id = IF j = 1 THEN taken.id ELSE pending[j - 1].id
          BY <2>1
        <4>2. i # 1 /\ j # 1 => i - 1 = j - 1
          BY <1>5, <2>2, <2>4, <3>2, <4>1
        <4>3. i = 1 <=> j = 1
          BY <1>5, <2>2, <2>4, <3>2, <4>1
        <4>. QED
          BY <2>1, <4>2, <4>3
      <3>. QED
        BY <2>1, <3>1, <3>2 DEF PendingCounted
    <2>5. Len(pending') + Len(putAside') = Len(pending) + Len(putAside) + 1
      BY <1>6, <2>1, QueueState
    <2>. QED
      BY <1>1, <1>4, <1>6, <2>1, <2>3, <2>4, <2>5, QueueState
  <1>7. CASE /\ putAside' = <<taken>> \o putAside /\ pending' = pending
             /\ taken.tries >= MaxAttempts
    <2>1. /\ putAside' \in Seq(Alerts) /\ Len(putAside') = Len(putAside) + 1
          /\ DOMAIN putAside' = 1..Len(putAside) + 1 /\ Len(putAside) \in Nat
          /\ \A i \in 1..Len(putAside) + 1 :
                putAside'[i] = IF i = 1 THEN taken ELSE putAside[i - 1]
      BY <1>1, <1>7, EndsOf
    <2>2. \A i \in 1..Len(putAside) + 1 : i # 1 => i - 1 \in 1..Len(putAside)
      BY <1>3, <2>1
    <2>3. \A i \in DOMAIN putAside' : putAside'[i].tries >= MaxAttempts
      BY <1>4, <1>7, <2>1, <2>2
    <2>4. Len(pending') + Len(putAside') = Len(pending) + Len(putAside) + 1
      BY <1>7, <2>1, QueueState
    <2>5. doubled = 0 => PendingCounted'
      BY <1>5, <1>7, QueueState DEF PendingCounted
    <2>. QED
      BY <1>1, <1>4, <1>7, <2>1, <2>3, <2>4, <2>5, QueueState
  <1>. QED
    BY <1>2, <1>6, <1>7

(* A copy that is pushed is pending, or put aside after its last try.      *)
LEMMA PushDoneKeeps ==
    ASSUME QueueInv, PushDone
    PROVE  QueueInv'
  <1>1. /\ Push /\ looping' = "idle" /\ taken' = NoMessage /\ again' = FALSE
        /\ UNCHANGED <<tradingDay, delay, enqueued, delivered, answered, lostMessages, doubled,
                       redisFaults>>
    BY DEF PushDone
  <1>2. /\ taken \in Alerts /\ taken # NoMessage
        /\ pending' \in Seq(Alerts) /\ putAside' \in Seq(Alerts)
        /\ Len(pending') + Len(putAside') = Len(pending) + Len(putAside) + 1
        /\ Len(pending') \in Nat /\ Len(putAside') \in Nat
        /\ \A i \in DOMAIN pending' : pending'[i].tries < MaxAttempts
        /\ \A i \in DOMAIN putAside' : putAside'[i].tries >= MaxAttempts
        /\ doubled = 0 => PendingCounted'
    BY <1>1, PushFacts, QueueState
  <1>3. QueueTypeOK'
    BY <1>1, <1>2 DEF QueueInv, QueueTypeOK
  <1>4. CopiesAccounted'
    <2>1. Cardinality(enqueued) + doubled = Len(pending) + Len(putAside) + 1 + answered + lostMessages
      BY <1>2 DEF QueueInv, CopiesAccounted
    <2>2. Cardinality(enqueued) + doubled = Len(pending') + Len(putAside') + 0 + answered + lostMessages
      BY <1>2, <2>1, QueueState
    <2>. QED
      BY <1>1, <2>2 DEF QueueInv, CopiesAccounted
  <1>5. CountsDeliveries'
    <2>1. SUFFICES ASSUME doubled = 0 PROVE CountsDeliveries'
      BY <1>1 DEF CountsDeliveries
    <2>2. PendingCounted'
      BY <1>2, <2>1
    <2>3. NoMessage.id \notin Messages
      BY QueueAssumption DEF NoMessage
    <2>. QED
      BY <1>1, <2>1, <2>2, <2>3 DEF PendingCounted, QueueInv, CountsDeliveries
  <1>6. TakenInOrder'
    BY <1>1 DEF TakenInOrder
  <1>. QED
    BY <1>2, <1>3, <1>4, <1>5, <1>6 DEF QueueInv

(* The push fails, and leads to another try or to nothing.                 *)
LEMMA PushLostKeeps ==
    ASSUME QueueInv, PushLost
    PROVE  QueueInv'
  <1>1. /\ looping \in {"sleeping", "aside"} /\ delay = 0 /\ redisFaults' = redisFaults + 1
        /\ UNCHANGED <<tradingDay, enqueued, delivered, answered>>
    BY DEF PushLost
  <1>2. PICK stored \in BOOLEAN :
          /\ IF stored THEN Push ELSE UNCHANGED <<pending, putAside>>
          /\ IF ~again
             THEN /\ StartRetry(Requeued(taken)) /\ again' = TRUE
                  /\ doubled' = doubled + (IF stored THEN 1 ELSE 0) /\ UNCHANGED lostMessages
             ELSE /\ looping' = "idle" /\ taken' = NoMessage /\ again' = FALSE
                  /\ lostMessages' = lostMessages + (IF stored THEN 0 ELSE 1)
                  /\ UNCHANGED <<delay, doubled>>
    BY DEF PushLost
  <1> DEFINE more == IF stored THEN 1 ELSE 0
             rest == IF taken' = NoMessage THEN 0 ELSE 1
  <1>3. taken \in Alerts /\ taken # NoMessage
    BY <1>1, QueueState
  <1>4. /\ pending' \in Seq(Alerts) /\ putAside' \in Seq(Alerts)
        /\ Len(pending') \in Nat /\ Len(putAside') \in Nat
        /\ Len(pending') + Len(putAside') = Len(pending) + Len(putAside) + more
        /\ \A i \in DOMAIN pending' : pending'[i].tries < MaxAttempts
        /\ \A i \in DOMAIN putAside' : putAside'[i].tries >= MaxAttempts
        /\ doubled = 0 => PendingCounted'
    <2>1. CASE stored
      BY <1>1, <1>2, <2>1, PushFacts
    <2>2. CASE ~stored
      <3>1. pending' = pending /\ putAside' = putAside
        BY <1>2, <2>2
      <3>2. doubled = 0 => PendingCounted'
        BY <1>1, <3>1, QueueState DEF PendingCounted, QueueInv, CountsDeliveries
      <3>. QED
        BY <2>2, <3>1, <3>2, QueueState DEF QueueInv
    <2>. QED
      BY <2>1, <2>2
  <1>5. /\ taken' \in Alerts \cup {NoMessage} /\ (looping' = "idle" <=> taken' = NoMessage)
        /\ looping' \in {"idle", "sleeping", "aside"} /\ delay' \in Nat /\ again' \in BOOLEAN
        /\ taken' # NoMessage => taken'.id = taken.id /\ taken'.tries = taken.tries + 1
        /\ looping' = "sleeping" => taken'.tries < MaxAttempts /\ delay' \in Slept
        /\ looping' = "aside" => taken'.tries >= MaxAttempts /\ delay' = 0
        /\ lostMessages' \in Nat /\ doubled' \in Nat
        /\ lostMessages' + doubled' <= lostMessages + doubled + 1
        /\ more + lostMessages' + rest + doubled =
              1 + lostMessages + doubled'
        /\ taken' # NoMessage => doubled' = doubled + more
        /\ taken' = NoMessage => doubled' = doubled
    <2>1. CASE ~again
      <3>1. /\ StartRetry(Requeued(taken)) /\ again' = TRUE
            /\ doubled' = doubled + more /\ lostMessages' = lostMessages
        BY <1>2, <2>1
      <3>2. /\ taken' = [id |-> taken.id, tries |-> taken.tries + 1] /\ taken' \in Alerts
            /\ taken' # NoMessage
            /\ looping' \in {"sleeping", "aside"} /\ delay' \in Nat
            /\ looping' = "sleeping" => taken'.tries < MaxAttempts /\ delay' \in Slept
            /\ looping' = "aside" => taken'.tries >= MaxAttempts /\ delay' = 0
        BY <1>3, <3>1, StartRetryFacts
      <3>3. /\ doubled \in Nat /\ lostMessages \in Nat /\ more \in {0, 1}
            /\ doubled' \in Nat /\ lostMessages' \in Nat
        BY <3>1, QueueCounts
      <3>4. /\ lostMessages' + doubled' <= lostMessages + doubled + 1
            /\ more + lostMessages' + 1 + doubled = 1 + lostMessages + doubled'
        <4> HIDE DEF more
        <4>. QED
          BY <3>1, <3>3
      <3>5. rest = 1
        BY <3>2
      <3>6. looping' # "idle"
        BY <3>2
      <3> HIDE DEF more, rest
      <3>. QED
        BY <3>1, <3>2, <3>3, <3>4, <3>5, <3>6
    <2>2. CASE again
      <3>1. /\ looping' = "idle" /\ taken' = NoMessage /\ again' = FALSE /\ delay' = delay
            /\ lostMessages' = lostMessages + (IF stored THEN 0 ELSE 1) /\ doubled' = doubled
        BY <1>2, <2>2
      <3>2. /\ delay \in Nat /\ lostMessages' \in Nat /\ doubled \in Nat /\ lostMessages \in Nat
            /\ more + lostMessages' = 1 + lostMessages
            /\ lostMessages' + doubled <= lostMessages + doubled + 1
        BY <3>1, QueueCounts
      <3>3. rest = 0 /\ more + lostMessages' + rest + doubled = 1 + lostMessages + doubled'
        BY <3>1, <3>2
      <3>. QED
        BY <3>1, <3>2, <3>3
    <2>. QED
      BY <2>1, <2>2
  <1>6. more \in {0, 1} /\ rest \in {0, 1}
    OBVIOUS
  <1>. HIDE DEF more, rest
  <1>7. QueueTypeOK'
    <2>1. redisFaults' \in Nat
      BY <1>1, QueueCounts
    <2>. QED
      BY <1>1, <1>4, <1>5, <2>1 DEF QueueInv, QueueTypeOK
  <1>8. CopiesAccounted'
    <2>1. /\ Cardinality(enqueued) + doubled =
               Len(pending) + Len(putAside) + 1 + answered + lostMessages
          /\ lostMessages + doubled <= redisFaults
      BY <1>3 DEF QueueInv, CopiesAccounted
    <2>2. Cardinality(enqueued) + doubled' = Len(pending') + Len(putAside')
             + rest + answered + lostMessages'
      <3>1. /\ lostMessages' \in Nat /\ doubled' \in Nat
            /\ more + lostMessages' + rest + doubled = 1 + lostMessages + doubled'
        BY <1>5
      <3>2. /\ Len(pending') \in Nat /\ Len(putAside') \in Nat
            /\ Len(pending') + Len(putAside') = Len(pending) + Len(putAside) + more
        BY <1>4
      <3>3. more \in Nat /\ rest \in Nat
        BY <1>6
      <3>4. /\ Len(pending) \in Nat /\ Len(putAside) \in Nat /\ answered \in Nat
            /\ lostMessages \in Nat /\ Cardinality(enqueued) \in Nat /\ doubled \in Nat
        BY QueueCounts
      <3>5. PICK ec \in Nat, dc \in Nat, dn \in Nat, pc \in Nat, pn \in Nat, ac \in Nat, an \in Nat,
                 wc \in Nat, lc \in Nat, ln \in Nat, mc \in Nat, rc \in Nat :
               /\ ec = Cardinality(enqueued) /\ dc = doubled /\ dn = doubled'
               /\ pc = Len(pending) /\ pn = Len(pending') /\ ac = Len(putAside) /\ an = Len(putAside')
               /\ wc = answered /\ lc = lostMessages /\ ln = lostMessages' /\ mc = more /\ rc = rest
        BY <3>1, <3>2, <3>3, <3>4, Zenon
      <3>6. /\ ec + dc = pc + ac + 1 + wc + lc /\ pn + an = pc + ac + mc
            /\ mc + ln + rc + dc = 1 + lc + dn
        BY <2>1, <3>1, <3>2, <3>5, Zenon
      <3>7. ec + dn = pn + an + rc + wc + ln
        BY <3>6
      <3>. QED
        BY <3>5, <3>7, Zenon
    <2>3. lostMessages' + doubled' <= redisFaults'
      <3>1. /\ lostMessages \in Nat /\ doubled \in Nat /\ redisFaults \in Nat
            /\ lostMessages' \in Nat /\ doubled' \in Nat
        BY <1>5, QueueCounts
      <3>2. PICK ln \in Nat, dn \in Nat : ln = lostMessages' /\ dn = doubled'
        BY <3>1
      <3>3. /\ lostMessages + doubled <= redisFaults
            /\ ln + dn <= lostMessages + doubled + 1
        BY <1>5, <2>1, <3>2, Zenon
      <3>4. ln + dn <= redisFaults + 1
        BY <3>1, <3>3
      <3>. QED
        BY <1>1, <3>2, <3>4, Zenon
    <2>. QED
      BY <1>1, <2>2, <2>3 DEF CopiesAccounted, rest
  <1>9. TakenInOrder'
    <2>1. looping' = "sleeping" => delay' <= delay' /\ delay' \in Slept
      BY <1>5
    <2>. QED
      BY <1>5, <2>1 DEF TakenInOrder, Slept
  <1>10. CountsDeliveries'
    <2>1. SUFFICES ASSUME doubled' = 0 PROVE CountsDeliveries'
      BY DEF CountsDeliveries
    <2>2. doubled = 0 /\ (taken' # NoMessage => more = 0)
      <3>1. /\ taken' # NoMessage => doubled' = doubled + more
            /\ taken' = NoMessage => doubled' = doubled
        BY <1>5
      <3>. QED
        BY <1>6, <2>1, <3>1, QueueCounts
    <2>3. PendingCounted'
      BY <1>4, <2>2
    <2>4. NoMessage.id \notin Messages
      BY QueueAssumption DEF NoMessage
    <2>5. \A i \in DOMAIN pending' : pending'[i].id # taken'.id
      <3>1. CASE taken' = NoMessage
        BY <2>3, <2>4, <3>1 DEF PendingCounted
      <3>2. CASE taken' # NoMessage
        <4>1. pending' = pending
          BY <1>2, <2>2, <3>2 DEF more
        <4>2. taken'.id = taken.id
          BY <1>5, <3>2
        <4>. QED
          BY <2>2, <4>1, <4>2 DEF QueueInv, CountsDeliveries
      <3>. QED
        BY <3>1, <3>2
    <2>6. taken' # NoMessage => taken'.id \in enqueued /\ delivered[taken'.id] <= taken'.tries
      <3>1. taken.id \in enqueued /\ delivered[taken.id] <= taken.tries
        BY <1>3, <2>2 DEF QueueInv, CountsDeliveries
      <3>2. taken.id \in Messages /\ taken.tries \in Nat /\ delivered[taken.id] \in Nat
        BY <1>3, QueueState
      <3>. QED
        BY <1>5, <3>1, <3>2
    <2>. QED
      BY <1>1, <2>2, <2>3, <2>5, <2>6 DEF PendingCounted, QueueInv, CountsDeliveries
  <1>. QED
    BY <1>4, <1>7, <1>8, <1>9, <1>10 DEF QueueInv

(* Every step of the queue keeps its invariant.                            *)
LEMMA QueueKeeps == QueueInv /\ [QueueNext]_queueVars => QueueInv'
  <1> SUFFICES ASSUME QueueInv, [QueueNext]_queueVars PROVE QueueInv'
    OBVIOUS
  <1>1. CASE SleepOn
    <2>1. /\ looping = "sleeping" /\ delay > 0 /\ delay' = delay - 1
          /\ UNCHANGED <<tradingDay, pending, putAside, looping, taken, again, enqueued, delivered,
                         answered, lostMessages, doubled, redisFaults>>
      BY <1>1 DEF SleepOn
    <2>2. delay' \in Nat
      BY <2>1, QueueState
    <2>3. PICK d \in Slept : delay <= d
      BY <2>1 DEF QueueInv, TakenInOrder
    <2>4. d \in Nat
      <3>1. {MaxAttempts - 1, Len(RetryDelays)} \in SUBSET Nat
        BY QueueNumbers
      <3>2. /\ Min({MaxAttempts - 1, Len(RetryDelays)}) \in Nat
            /\ Min({MaxAttempts - 1, Len(RetryDelays)}) <= Len(RetryDelays)
        BY <3>1, LeastIs
      <3>. QED
        BY <3>2, QueueNumbers DEF Slept
    <2>5. delay' <= d
      BY <2>1, <2>3, <2>4, QueueState
    <2>6. TakenInOrder'
      BY <2>1, <2>5 DEF QueueInv, TakenInOrder, Slept
    <2>. QED
      BY <2>1, <2>2, <2>6 DEF QueueInv, QueueTypeOK, CopiesAccounted, CountsDeliveries
  <1>2. CASE RestartLoop
    <2>1. /\ taken # NoMessage /\ redisFaults' = redisFaults + 1
          /\ looping' = "idle" /\ taken' = NoMessage /\ delay' = 0 /\ again' = FALSE
          /\ lostMessages' = lostMessages + 1
          /\ UNCHANGED <<tradingDay, pending, putAside, enqueued, delivered, answered, doubled>>
      BY <1>2 DEF RestartLoop
    <2>2. QueueTypeOK'
      <3>1. redisFaults' \in Nat /\ lostMessages' \in Nat /\ delay' \in Nat
        BY <2>1, QueueCounts
      <3>. QED
        BY <2>1, <3>1 DEF QueueInv, QueueTypeOK
    <2>3. CopiesAccounted'
      <3>1. /\ Cardinality(enqueued) + doubled =
                 Len(pending) + Len(putAside) + 1 + answered + lostMessages
            /\ lostMessages + doubled <= redisFaults
        BY <2>1 DEF QueueInv, CopiesAccounted
      <3>2. /\ Cardinality(enqueued) + doubled =
                 Len(pending) + Len(putAside) + 0 + answered + lostMessages'
            /\ lostMessages' + doubled <= redisFaults'
        <4>1. PICK c, d, l, a, n, o, f \in Nat :
                 /\ c = Cardinality(enqueued) /\ d = doubled /\ l = Len(pending)
                 /\ a = Len(putAside) /\ n = answered /\ o = lostMessages /\ f = redisFaults
          BY QueueCounts
        <4>2. c + d = l + a + 1 + n + o /\ o + d <= f
          BY <3>1, <4>1
        <4>3. c + d = l + a + 0 + n + (o + 1) /\ (o + 1) + d <= f + 1
          BY <4>2
        <4>. QED
          BY <2>1, <4>1, <4>3
      <3>. QED
        BY <2>1, <3>2 DEF CopiesAccounted
    <2>4. NoMessage.id \notin Messages
      BY QueueAssumption DEF NoMessage
    <2>5. CountsDeliveries'
      BY <2>1, <2>4, QueueState DEF QueueInv, CountsDeliveries
    <2>. QED
      BY <2>1, <2>2, <2>3, <2>5 DEF QueueInv, TakenInOrder
  <1>3. CASE DayTurns \/ UNCHANGED queueVars
    <2>1. /\ tradingDay' \in BOOLEAN
          /\ UNCHANGED <<pending, putAside, looping, taken, delay, again, enqueued, delivered,
                         answered, lostMessages, doubled, redisFaults>>
      BY <1>3 DEF DayTurns, queueVars, QueueInv, QueueTypeOK
    <2>. QED
      BY <2>1 DEF QueueInv, QueueTypeOK, CopiesAccounted, TakenInOrder, Slept, CountsDeliveries
  <1>. QED
    BY <1>1, <1>2, <1>3, EnqueueKeeps, DequeueKeeps, SendKeeps, PushDoneKeeps, PushLostKeeps
       DEF QueueNext

(* An empty queue.                                                         *)
LEMMA InitQueueInv == QueueInit => QueueInv
  <1> SUFFICES ASSUME QueueInit PROVE QueueInv
    OBVIOUS
  <1>1. QueueTypeOK
    <2>1. <<>> \in Seq(Alerts) /\ [m \in Messages |-> 0] \in [Messages -> Nat]
      OBVIOUS
    <2>. QED
      BY <2>1 DEF QueueInit, QueueTypeOK
  <1>2. Cardinality(enqueued) = 0
    BY FS_EmptySet DEF QueueInit
  <1>. QED
    BY <1>1, <1>2, QueueNumbers
       DEF QueueInit, QueueInv, CopiesAccounted, TakenInOrder, CountsDeliveries

(* What is promised of the queue.                                          *)
LEMMA QueueIsSound == QueueInv => QueueSound
  <1> SUFFICES ASSUME QueueInv PROVE QueueSound
    OBVIOUS
  <1>1. TriesLimited
    BY DEF QueueInv, CountsDeliveries, TriesLimited
  <1>2. LastDelayUnused
    <2>1. looping = "sleeping" => delay <= Max(Slept)
      BY SleptAtMost, QueueState DEF QueueInv, TakenInOrder
    <2>. QED
      BY <2>1 DEF QueueInv, TakenInOrder, LastDelayUnused, Slept
  <1>. QED
    BY <1>1, <1>2 DEF QueueInv, QueueSound

-----------------------------------------------------------------------------
(* What the operators are told of.  The detector, the tracker, the         *)
(* notifier and the queue share nothing, so their invariants hold together. *)
MonitoringInv == AnomalyInv /\ PerformanceInv /\ NotifierInv /\ QueueInv

(* Each of the four keeps its invariant whatever the others do.            *)
THEOREM MonitoringInvariant == Spec => []MonitoringInv
  <1>1. Init => MonitoringInv
    BY InitAnomalyInv, InitPerformanceInv, InitNotifierInv, InitQueueInv
       DEF Init, SupportInit, MonitoringInv
  <1>2. MonitoringInv /\ [Next]_componentVars => MonitoringInv'
    <2>1. [Next]_componentVars => /\ AnomalyNext \/ UNCHANGED anomalyVars
                                  /\ PerformanceNext \/ UNCHANGED performanceVars
                                  /\ NotifierNext \/ UNCHANGED notifierVars
                                  /\ [QueueNext]_queueVars
      BY DEF Next, componentVars, supportVars, BrokerPart, CandlePart, BackfillPart,
             BacktestPart, ContractPart, WorkbenchPart, SupportPart, SupportNext, AnomalyPart,
             PerformancePart, NotifierPart, QueuePart, LagPart, SnapshotPart, TokenPart
    <2>. QED
      BY <2>1, AnomalyKeeps, PerformanceKeeps, NotifierKeeps, QueueKeeps DEF MonitoringInv
  <1>. QED
    BY <1>1, <1>2, PTL DEF Spec

(* Alerts are raised once and resolved by what raised them, the tracker's  *)
(* rows are each in one place and its drawdowns those of the trades, the   *)
(* day's counters are those of the trades told unless a reset overtook one, *)
(* and an alert is tried no more often than the queue's limit.             *)
THEOREM MonitoringIsSound == Spec => []MonitoringSound
  <1>1. MonitoringInv => MonitoringSound
    BY AnomaliesFollow, PerformanceIsSound, NotifierFollows, QueueIsSound
       DEF MonitoringInv, MonitoringSound
  <1>. QED
    BY <1>1, MonitoringInvariant, PTL

-----------------------------------------------------------------------------
(* The calendar of contracts                                               *)

(* A month's number is its year and its place in it.                       *)
LEMMA MonthIs ==
    ASSUME NEW n \in Nat
    PROVE  /\ YearOf(n) \in Nat /\ MonthOf(n) \in 1..12
           /\ n = MonthNumber(YearOf(n), MonthOf(n))
  BY DEF YearOf, MonthOf, MonthNumber

LEMMA NumberIs ==
    ASSUME NEW y \in Nat, NEW m \in 1..12
    PROVE  /\ MonthNumber(y, m) \in Nat
           /\ YearOf(MonthNumber(y, m)) = y /\ MonthOf(MonthNumber(y, m)) = m
  BY DEF YearOf, MonthOf, MonthNumber

(* When a month of a year begins.                                          *)
Begins(y, m) == 365 * (y - 2000) + (y - 2000 + 3) \div 4 + DaysBefore[m]
                + (IF (y - 2000) % 4 = 0 /\ m > 2 THEN 1 ELSE 0)

LEMMA FirstIsBegin ==
    ASSUME NEW n \in Nat
    PROVE  FirstOf(n) = Begins(YearOf(n), MonthOf(n)) /\ FirstOf(n) \in Int
  <1>1. PICK y \in Nat, m \in 1..12 : y = YearOf(n) /\ m = MonthOf(n)
    BY MonthIs
  <1>2. FirstOf(n) = Begins(y, m)
    BY <1>1 DEF FirstOf, Begins, LeapYear
  <1>3. DaysBefore[m] \in Int
    BY DEF DaysBefore
  <1>4. Begins(y, m) \in Int
    BY <1>3 DEF Begins
  <1>. QED
    BY <1>1, <1>2, <1>4

(* A month has 28 days to 31.                                              *)
LEMMA MonthLength ==
    ASSUME NEW n \in Nat
    PROVE  /\ FirstOf(n) \in Int /\ FirstOf(n + 1) \in Int
           /\ FirstOf(n) + 28 <= FirstOf(n + 1) /\ FirstOf(n + 1) <= FirstOf(n) + 31
  <1>1. PICK y \in Nat, m \in 1..12 : y = YearOf(n) /\ m = MonthOf(n) /\ n = 12 * y + m - 1
    BY MonthIs DEF MonthNumber
  <1>2. /\ FirstOf(n) = Begins(y, m) /\ FirstOf(n) \in Int /\ FirstOf(n + 1) \in Int
        /\ FirstOf(n + 1) = Begins(YearOf(n + 1), MonthOf(n + 1))
    BY <1>1, FirstIsBegin
  <1>3. CASE m = 12
    <2>1. n + 1 = MonthNumber(y + 1, 1) /\ y + 1 \in Nat /\ 1 \in 1..12
      BY <1>1, <1>3 DEF MonthNumber
    <2>2. FirstOf(n + 1) = Begins(y + 1, 1)
      BY <1>2, <2>1, NumberIs
    <2>3. DaysBefore[1] = 0 /\ DaysBefore[12] = 334
      BY DEF DaysBefore
    <2>. QED
      BY <1>2, <1>3, <2>2, <2>3 DEF Begins
  <1>4. CASE m # 12
    <2>1. n + 1 = MonthNumber(y, m + 1) /\ m + 1 \in 1..12
      BY <1>1, <1>4 DEF MonthNumber
    <2>2. FirstOf(n + 1) = Begins(y, m + 1)
      BY <1>2, <2>1, NumberIs
    <2>3. /\ DaysBefore[m] \in Int /\ DaysBefore[m + 1] \in Int
          /\ m # 2 => DaysBefore[m + 1] - DaysBefore[m] \in 30..31
          /\ m = 2 => DaysBefore[m + 1] - DaysBefore[m] = 28
      BY <1>4 DEF DaysBefore
    <2>. QED
      BY <1>2, <1>4, <2>2, <2>3 DEF Begins
  <1>. QED
    BY <1>3, <1>4

(* Months follow each other.                                               *)
LEMMA MonthsApart ==
    ASSUME NEW m \in Nat, NEW k \in Nat
    PROVE  FirstOf(m) + 28 * k <= FirstOf(m + k)
  <1> DEFINE Bad == {j \in Nat : ~(FirstOf(m) + 28 * j <= FirstOf(m + j))}
  <1>1. SUFFICES ASSUME Bad # {} PROVE FALSE
    OBVIOUS
  <1>2. PICK j \in Bad : \A i \in Bad : j <= i
    <2>1. Bad \in SUBSET Nat
      OBVIOUS
    <2>. HIDE DEF Bad
    <2>. QED
      BY <1>1, <2>1, LeastIs
  <1>3. j # 0
    <2>1. m + 0 = m /\ FirstOf(m) \in Int
      BY MonthLength
    <2>. QED
      BY <2>1
  <1>4. PICK h \in Nat : j = h + 1
    <2>1. j - 1 \in Nat /\ j = (j - 1) + 1
      BY <1>3
    <2>. QED
      BY <2>1
  <1>5. FirstOf(m) + 28 * h <= FirstOf(m + h)
    <2>1. h \notin Bad
      <3>. HIDE DEF Bad
      <3>. QED
        BY <1>2, <1>4
    <2>. QED
      BY <2>1
  <1>6. /\ FirstOf(m) \in Int /\ FirstOf(m + h) \in Int /\ FirstOf(m + h + 1) \in Int
        /\ FirstOf(m + h) + 28 <= FirstOf(m + h + 1)
    <2>1. m + h \in Nat
      OBVIOUS
    <2>. QED
      BY <2>1, MonthLength
  <1>7. m + h + 1 = m + j
    BY <1>4
  <1>. QED
    BY <1>4, <1>5, <1>6, <1>7

LEMMA MonthsInOrder ==
    ASSUME NEW m \in Nat, NEW n \in Nat, m < n
    PROVE  /\ FirstOf(m) \in Int /\ FirstOf(n) \in Int /\ FirstOf(m + 1) \in Int
           /\ FirstOf(m) + 28 <= FirstOf(n) /\ FirstOf(m + 1) <= FirstOf(n)
  <1>1. PICK k \in Nat : n = (m + 1) + k
    <2>1. n - (m + 1) \in Nat /\ n = (m + 1) + (n - (m + 1))
      OBVIOUS
    <2>. QED
      BY <2>1
  <1>2. FirstOf(m + 1) + 28 * k <= FirstOf(n)
    BY <1>1, MonthsApart
  <1>3. FirstOf(n) \in Int
    BY MonthLength
  <1>. QED
    BY <1>2, <1>3, MonthLength

(* The second Thursday is one, and in the second week.                     *)
LEMMA ThursdayIs ==
    ASSUME NEW n \in Nat
    PROVE  /\ SecondThursday(n) \in FirstOf(n) + 7..FirstOf(n) + 13
           /\ Weekday(SecondThursday(n)) = 3 /\ FirstOf(n) \in Int /\ SecondThursday(n) \in Int
           /\ ExpiryDate(n) = SecondThursday(n)
  <1>1. PICK f \in Int : f = FirstOf(n)
    BY FirstIsBegin
  <1>2. PICK w \in 0..6 : w = Weekday(f) /\ w = (f + 5) % 7
    <2>1. (f + 5) % 7 \in 0..6
      OBVIOUS
    <2>. QED
      BY <2>1 DEF Weekday
  <1>3. (3 - w) % 7 \in 0..6 /\ (3 - w) % 7 = (IF w <= 3 THEN 3 - w ELSE 7 - w + 3)
    OBVIOUS
  <1>4. PICK s \in 0..6 : s = (3 - w) % 7 /\ s = (IF w <= 3 THEN 3 - w ELSE 7 - w + 3)
    BY <1>3
  <1>5. SecondThursday(n) = f + s + 7 /\ ExpiryDate(n) = f + s + 7
    BY <1>1, <1>2, <1>4 DEF SecondThursday, ExpiryDate
  <1>6. (f + s + 7 + 5) % 7 = 3
    BY <1>2, <1>4
  <1>. QED
    BY <1>1, <1>5, <1>6 DEF Weekday

(* Two expiries in a row are four weeks apart or five.                     *)
LEMMA ExpiriesApart ==
    ASSUME NEW n \in Nat
    PROVE  SecondThursday(n + 1) - SecondThursday(n) \in {28, 35}
  <1>1. PICK f, g, s, t \in Int : /\ f = FirstOf(n) /\ g = FirstOf(n + 1)
                                  /\ s = SecondThursday(n) /\ t = SecondThursday(n + 1)
    <2>1. n + 1 \in Nat
      OBVIOUS
    <2>2. /\ FirstOf(n) \in Int /\ SecondThursday(n) \in Int
          /\ FirstOf(n + 1) \in Int /\ SecondThursday(n + 1) \in Int
      BY <2>1, ThursdayIs
    <2>. QED
      BY <2>2
  <1>2. f + 28 <= g /\ g <= f + 31
    BY <1>1, MonthLength
  <1>3. s \in f + 7..f + 13 /\ t \in g + 7..g + 13 /\ (s + 5) % 7 = 3 /\ (t + 5) % 7 = 3
    <2>1. n + 1 \in Nat
      OBVIOUS
    <2>. QED
      BY <1>1, <2>1, ThursdayIs DEF Weekday
  <1>4. t - s \in 22..37
    BY <1>2, <1>3
  <1>5. PICK d \in 22..37 : d = t - s
    BY <1>4
  <1>6. d % 7 = 0
    BY <1>3, <1>5
  <1>7. d \in {28, 35}
    BY <1>6
  <1>. QED
    BY <1>1, <1>5, <1>7
(* The month is that of the day, of the years the contracts are defined    *)
(* for.                                                                    *)
CalendarInv ==
    /\ month \in Nat /\ MonthNumber(2000, 1) <= month /\ month <= MonthNumber(2098, 12)
    /\ date \in Int /\ FirstOf(month) <= date /\ date < FirstOf(month + 1)

LEMMA CalendarBegins == ContractsInit => CalendarInv
  <1>. SUFFICES ASSUME ContractsInit PROVE CalendarInv
    OBVIOUS
  <1>1. FirstYear \in 2000..2098
    BY ContractsAssumption
  <1>2. /\ month \in Nat /\ MonthNumber(2000, 1) <= month /\ month <= MonthNumber(2098, 12)
    BY <1>1 DEF ContractsInit, MonthNumber
  <1>3. date = FirstOf(month) /\ date \in Int /\ date < FirstOf(month + 1)
    BY <1>2, MonthLength DEF ContractsInit
  <1>. QED
    BY <1>2, <1>3 DEF CalendarInv

LEMMA CalendarGoesOn == CalendarInv /\ [Midnight]_contractVars => CalendarInv'
  <1>1. ASSUME CalendarInv, Midnight PROVE CalendarInv'
    <2>1. /\ month \in Nat /\ MonthNumber(2000, 1) <= month /\ month <= MonthNumber(2098, 12)
          /\ date \in Int /\ FirstOf(month) <= date /\ date < FirstOf(month + 1)
      BY <1>1 DEF CalendarInv
    <2>2. /\ date + 1 < FirstOf(MonthNumber(LastYear + 1, 1)) /\ date' = date + 1
          /\ month' = IF date' = FirstOf(month + 1) THEN month + 1 ELSE month
      BY <1>1 DEF Midnight
    <2>3. FirstOf(month) \in Int /\ FirstOf(month + 1) \in Int
      BY <2>1, MonthLength
    <2>4. CASE date' = FirstOf(month + 1)
      <3>1. month' = month + 1 /\ month + 1 \in Nat /\ MonthNumber(2000, 1) <= month + 1
        BY <2>1, <2>2, <2>4 DEF MonthNumber
      <3>2. date' < FirstOf(month' + 1) /\ date' \in Int /\ FirstOf(month') <= date'
        BY <2>1, <2>2, <2>4, <3>1, MonthLength
      <3>3. month + 1 <= MonthNumber(2098, 12)
        <4>1. SUFFICES ASSUME ~(month + 1 <= MonthNumber(2098, 12)) PROVE FALSE
          OBVIOUS
        <4>2. PICK k \in Nat : k = MonthNumber(LastYear + 1, 1) /\ k <= month + 1
          <5>1. LastYear \in 2000..2098
            BY ContractsAssumption
          <5>2. MonthNumber(LastYear + 1, 1) \in Nat /\ MonthNumber(LastYear + 1, 1) <= month + 1
            BY <2>1, <4>1, <5>1 DEF MonthNumber
          <5>. QED
            BY <5>2
        <4>3. FirstOf(k) <= FirstOf(month + 1) /\ FirstOf(k) \in Int
          <5>1. CASE k = month + 1
            BY <2>3, <5>1
          <5>2. CASE k < month + 1
            BY <3>1, <5>2, MonthsInOrder
          <5>. QED
            BY <2>1, <4>2, <5>1, <5>2
        <4>. QED
          BY <2>1, <2>2, <2>3, <2>4, <4>2, <4>3
      <3>. QED
        BY <3>1, <3>2, <3>3 DEF CalendarInv
    <2>5. CASE date' # FirstOf(month + 1)
      <3>1. month' = month
        BY <2>2, <2>5
      <3>2. date' \in Int /\ FirstOf(month) <= date' /\ date' < FirstOf(month + 1)
        BY <2>1, <2>2, <2>3, <2>5
      <3>. QED
        BY <2>1, <3>1, <3>2 DEF CalendarInv
    <2>. QED
      BY <2>4, <2>5
  <1>2. ASSUME CalendarInv, UNCHANGED contractVars PROVE CalendarInv'
    BY <1>2 DEF CalendarInv, contractVars
  <1>. QED
    BY <1>1, <1>2

(* The contract of the front month is this month's until it expires.       *)
TradedMonth == IF date <= SecondThursday(month) THEN month ELSE month + 1

LEMMA TradedMonthIs ==
    ASSUME CalendarInv
    PROVE  /\ TradedMonth \in Nat /\ TradedMonth \in {month, month + 1}
           /\ \A n \in Nat : SecondThursday(n) >= date <=> n >= TradedMonth
  <1>1. /\ month \in Nat /\ date \in Int /\ FirstOf(month) <= date /\ date < FirstOf(month + 1)
    BY DEF CalendarInv
  <1>2. TradedMonth \in Nat /\ TradedMonth \in {month, month + 1}
    BY <1>1 DEF TradedMonth
  <1>3. ASSUME NEW n \in Nat PROVE SecondThursday(n) >= date <=> n >= TradedMonth
    <2>1. PICK f, g, s \in Int : f = FirstOf(n) /\ g = FirstOf(month) /\ s = SecondThursday(n)
                                 /\ s \in f + 7..f + 13
      BY <1>1, ThursdayIs
    <2>2. CASE n < month
      <3>1. f + 28 <= g
        BY <1>1, <2>1, <2>2, MonthsInOrder
      <3>2. ~(s >= date)
        BY <1>1, <2>1, <3>1
      <3>3. ~(n >= TradedMonth)
        BY <1>1, <1>2, <2>2
      <3>. QED
        BY <2>1, <3>2, <3>3
    <2>3. CASE n = month
      BY <1>1, <2>1, <2>3 DEF TradedMonth
    <2>4. CASE n > month
      <3>1. FirstOf(month + 1) <= f
        <4>1. CASE n = month + 1
          BY <2>1, <4>1
        <4>2. CASE n # month + 1
          BY <1>1, <2>1, <2>4, <4>2, MonthsInOrder
        <4>. QED
          BY <4>1, <4>2
      <3>2. s >= date
        BY <1>1, <2>1, <3>1, MonthLength
      <3>3. n >= TradedMonth
        BY <1>1, <1>2, <2>4
      <3>. QED
        BY <2>1, <3>2, <3>3
    <2>. QED
      BY <1>1, <2>2, <2>3, <2>4
  <1>. QED
    BY <1>2, <1>3

LEMMA LeastOf ==
    ASSUME NEW S \in SUBSET Nat, NEW m \in S, \A x \in S : m <= x
    PROVE  Min(S) = m
  <1>1. Min(S) \in S /\ Min(S) <= m
    BY LeastIs
  <1>2. Min(S) \in Nat /\ m \in Nat /\ m <= Min(S)
    BY <1>1
  <1>. QED
    BY <1>1, <1>2

LEMMA FrontAndBack ==
    ASSUME CalendarInv
    PROVE  /\ FrontMonth = TradedMonth /\ BackMonth = TradedMonth + 1
           /\ Candidates = MonthNumber(YearOf(month), 1)..MonthNumber(YearOf(month) + 1, 12)
           /\ Candidates \subseteq Nat
  <1>1. PICK y, m \in Nat : /\ y = YearOf(month) /\ month = m /\ 12 * y <= m /\ m <= 12 * y + 11
    <2>1. month \in Nat
      BY DEF CalendarInv
    <2>2. PICK k \in 1..12 : k = MonthOf(month) /\ YearOf(month) \in Nat
                            /\ month = MonthNumber(YearOf(month), k)
      BY <2>1, MonthIs
    <2>3. 12 * YearOf(month) <= month /\ month <= 12 * YearOf(month) + 11
      BY <2>1, <2>2 DEF MonthNumber
    <2>. QED
      BY <2>1, <2>2, <2>3
  <1>2. Candidates = 12 * y..12 * y + 23
    BY <1>1 DEF Candidates, MonthNumber
  <1>3. TradedMonth \in Nat /\ TradedMonth >= m /\ TradedMonth <= m + 1
    BY <1>1, TradedMonthIs
  <1>4. {n \in Candidates : SecondThursday(n) >= date} = TradedMonth..12 * y + 23
    <2>1. \A n \in Candidates : n \in Nat
      BY <1>2
    <2>2. \A n \in Candidates : SecondThursday(n) >= date <=> n >= TradedMonth
      BY <2>1, TradedMonthIs
    <2>. QED
      BY <1>1, <1>2, <1>3, <2>2
  <1>5. FrontMonth = TradedMonth
    <2>1. TradedMonth..12 * y + 23 \in SUBSET Nat /\ TradedMonth \in TradedMonth..12 * y + 23
          /\ \A n \in TradedMonth..12 * y + 23 : TradedMonth <= n
      BY <1>1, <1>3
    <2>2. Min(TradedMonth..12 * y + 23) = TradedMonth
      BY <2>1, LeastOf
    <2>. QED
      BY <1>4, <2>2 DEF FrontMonth
  <1>6. BackMonth = TradedMonth + 1
    <2>1. {n \in Candidates : n > FrontMonth} = TradedMonth + 1..12 * y + 23
      BY <1>1, <1>2, <1>3, <1>5
    <2>2. TradedMonth + 1..12 * y + 23 \in SUBSET Nat /\ TradedMonth + 1 \in TradedMonth + 1..12 * y + 23
          /\ \A n \in TradedMonth + 1..12 * y + 23 : TradedMonth + 1 <= n
      BY <1>1, <1>3
    <2>3. Min(TradedMonth + 1..12 * y + 23) = TradedMonth + 1
      BY <2>2, LeastOf
    <2>. QED
      BY <2>1, <2>3 DEF BackMonth
  <1>7. Candidates \subseteq Nat
    BY <1>1, <1>2
  <1>. QED
    BY <1>5, <1>6, <1>7 DEF Candidates

(* The real-time and the historical side name the same contracts.          *)
LEMMA SidesAgree == CalendarInv => SameContracts
  <1>. SUFFICES ASSUME CalendarInv PROVE SameContracts
    OBVIOUS
  <1>1. /\ month \in Nat /\ month >= 24000 /\ TradedMonth \in Nat /\ TradedMonth >= month /\ TradedMonth <= month + 1
    BY TradedMonthIs DEF CalendarInv, MonthNumber
  <1>2. \A n \in Nat : date <= ExpiryDate(n) <=> n >= TradedMonth
    <2>1. ASSUME NEW n \in Nat PROVE date <= ExpiryDate(n) <=> n >= TradedMonth
      <3>1. ExpiryDate(n) = SecondThursday(n) /\ SecondThursday(n) \in Int /\ date \in Int
        BY ThursdayIs DEF CalendarInv
      <3>2. SecondThursday(n) >= date <=> n >= TradedMonth
        BY TradedMonthIs
      <3>. QED
        BY <3>1, <3>2
    <2>. QED
      BY <2>1
  <1>3. ActiveMonths = TradedMonth..month + 11
    BY <1>1, <1>2 DEF ActiveMonths
  <1>4. Min(ActiveMonths) = TradedMonth
    <2>1. TradedMonth..month + 11 \in SUBSET Nat /\ TradedMonth \in TradedMonth..month + 11
          /\ \A n \in TradedMonth..month + 11 : TradedMonth <= n
      BY <1>1
    <2>. QED
      BY <1>3, <2>1, LeastOf
  <1>5. Min(ActiveMonths \ {TradedMonth}) = TradedMonth + 1
    <2>1. ActiveMonths \ {TradedMonth} = TradedMonth + 1..month + 11
      BY <1>1, <1>3
    <2>2. TradedMonth + 1..month + 11 \in SUBSET Nat /\ TradedMonth + 1 \in TradedMonth + 1..month + 11
          /\ \A n \in TradedMonth + 1..month + 11 : TradedMonth + 1 <= n
      BY <1>1
    <2>. QED
      BY <2>1, <2>2, LeastOf
  <1> DEFINE listed == MonthsInRange(date, month, date, month)
  <1>6. listed = {n \in month - 1..month + 12 : ListingStart(n) <= date /\ ExpiryDate(n) >= date}
    BY DEF MonthsInRange
  <1>7. TradedMonth \in listed
    <2>1. TradedMonth - 6 \in Nat /\ TradedMonth - 6 < month /\ TradedMonth \in month - 1..month + 12
      BY <1>1
    <2>2. /\ FirstOf(TradedMonth - 6) + 28 <= FirstOf(month) /\ FirstOf(month) <= date
          /\ FirstOf(TradedMonth - 6) \in Int /\ FirstOf(month) \in Int /\ date \in Int
      BY <1>1, <2>1, MonthsInOrder DEF CalendarInv
    <2>3. ListingStart(TradedMonth) <= date
      BY <2>2 DEF ListingStart, ListingMonths
    <2>4. ExpiryDate(TradedMonth) = SecondThursday(TradedMonth) /\ SecondThursday(TradedMonth) >= date
      BY <1>1, TradedMonthIs, ThursdayIs
    <2>. QED
      BY <1>6, <2>1, <2>3, <2>4
  <1>8. listed \subseteq ActiveMonths
    <2>1. SUFFICES ASSUME NEW n \in month - 1..month + 12, ListingStart(n) <= date, ExpiryDate(n) >= date
                   PROVE  n \in ActiveMonths
      BY <1>6
    <2>2. n \in Nat /\ n - 6 \in Nat
      BY <1>1, <2>1
    <2>3. n >= TradedMonth
      <3>1. ExpiryDate(n) = SecondThursday(n)
        BY <2>2, ThursdayIs
      <3>. QED
        BY <2>1, <2>2, <3>1, TradedMonthIs
    <2>4. n <= month + 11
      <3>1. SUFFICES ASSUME n - 6 > month PROVE FALSE
        BY <1>1, <2>2
      <3>2. FirstOf(month + 1) <= FirstOf(n - 6) /\ FirstOf(n - 6) \in Int
        <4>1. CASE n - 6 = month + 1
          BY <2>2, <4>1, MonthLength
        <4>2. CASE n - 6 # month + 1
          BY <1>1, <2>2, <3>1, <4>2, MonthsInOrder
        <4>. QED
          BY <4>1, <4>2
      <3>3. FirstOf(n - 6) <= date
        BY <2>1 DEF ListingStart, ListingMonths
      <3>4. date < FirstOf(month + 1) /\ date \in Int /\ FirstOf(month + 1) \in Int
        BY MonthLength DEF CalendarInv
      <3>. QED
        BY <3>2, <3>3, <3>4
    <2>. QED
      BY <1>1, <1>3, <2>2, <2>3, <2>4
  <1>. QED
    BY <1>4, <1>5, <1>7, <1>8, FrontAndBack DEF SameContracts

(* The collector's calculation is wrong between an expiry and the 15th.    *)
LEMMA RoughIsLate == CalendarInv => RoughAtMostExpired
  <1>. SUFFICES ASSUME CalendarInv PROVE RoughAtMostExpired
    OBVIOUS
  <1>1. PICK f, d, s, m \in Int :
           /\ f = FirstOf(month) /\ d = date /\ s = SecondThursday(month) /\ m = month
           /\ s \in f + 7..f + 13
    BY ThursdayIs DEF CalendarInv
  <1>2. FrontMonth = IF d <= s THEN m ELSE m + 1
    BY <1>1, FrontAndBack DEF TradedMonth
  <1>3. DayOfMonth = d - f + 1 /\ RoughFront = IF DayOfMonth > 15 THEN m + 1 ELSE m
    BY <1>1 DEF DayOfMonth, RoughFront
  <1>. QED
    BY <1>1, <1>2, <1>3 DEF RoughAtMostExpired
(* When the months begin that the properties name.                         *)
LEMMA BeginsAt ==
    ASSUME NEW y \in 2000..2098, NEW m \in 1..12
    PROVE  FirstOf(MonthNumber(y, m)) = Begins(y, m) /\ MonthNumber(y, m) \in Nat
  <1>1. y \in Nat
    OBVIOUS
  <1>2. /\ MonthNumber(y, m) \in Nat
        /\ YearOf(MonthNumber(y, m)) = y /\ MonthOf(MonthNumber(y, m)) = m
    BY <1>1 DEF YearOf, MonthOf, MonthNumber
  <1>3. PICK n \in Nat : n = MonthNumber(y, m)
    BY <1>2
  <1>4. FirstOf(n) = Begins(y, m)
    BY <1>2, <1>3, FirstIsBegin
  <1>. QED
    BY <1>3, <1>4

(* A code says which month of the twenties it is.                          *)
LEMMA CodesRead == CalendarInv => CodesOfTheirMonth
  <1>. SUFFICES ASSUME CalendarInv, NEW n \in ActiveMonths, YearOf(n) \in 2020..2029
                PROVE  ParseCode(MakeCode(n)) = n
    BY DEF CodesOfTheirMonth
  <1>1. n \in Nat
    <2>1. month \in Nat /\ n \in month..month + 11
      BY DEF ActiveMonths, CalendarInv
    <2>. QED
      BY <2>1
  <1>2. PICK y \in 2020..2029, m \in 1..12 :
           y = YearOf(n) /\ m = MonthOf(n) /\ n = MonthNumber(y, m)
    BY <1>1, MonthIs
  <1>3. MakeCode(n) = <<y % 10, m>>
    BY <1>2 DEF MakeCode
  <1>4. ParseCode(MakeCode(n)) = MonthNumber(2020 + (y % 10), m)
    BY <1>3 DEF ParseCode
  <1>5. 2020 + (y % 10) = y
    OBVIOUS
  <1>6. MonthNumber(2020 + (y % 10), m) = MonthNumber(y, m)
    BY <1>5 DEF MonthNumber
  <1>7. MonthNumber(2020 + (y % 10), m) = n
    BY <1>2, <1>6
  <1>. QED
    BY <1>4, <1>7

(* The codes valid are those from the front month on.                      *)
LEMMA ValidOnes == CalendarInv => ValidFromFront
  <1>. SUFFICES ASSUME CalendarInv PROVE ValidFromFront
    OBVIOUS
  <1>1. ASSUME NEW n \in Candidates
        PROVE  ValidCode(KrxCode(n)) <=> n >= FrontMonth
    <2>1. PICK y \in 2000..2098 : y = YearOf(month)
      <3>1. month \in Nat /\ YearOf(month) \in 2000..2098
        BY DEF CalendarInv, YearOf, MonthNumber
      <3>. QED
        BY <3>1
    <2>2. n \in Nat /\ n \in 12 * y..12 * y + 23
      BY <2>1, FrontAndBack DEF MonthNumber
    <2>3. PICK x \in 2000..2099, m \in 1..12 : x = YearOf(n) /\ m = MonthOf(n) /\ n = MonthNumber(x, m)
      <3>1. YearOf(n) \in 2000..2099
        BY <2>2 DEF YearOf
      <3>. QED
        BY <2>2, <3>1, MonthIs
    <2>4. KrxCode(n) = <<x % 100, m>> /\ 2000 + (x % 100) = x
      BY <2>3 DEF KrxCode
    <2>5. ValidCode(KrxCode(n)) <=> SecondThursday(n) >= date
      <3>1. MonthNumber(2000 + (x % 100), m) = MonthNumber(x, m)
        BY <2>4 DEF MonthNumber
      <3>2. MonthNumber(2000 + (x % 100), m) = n
        BY <2>3, <3>1
      <3>3. ValidCode(KrxCode(n)) <=> SecondThursday(MonthNumber(2000 + (x % 100), m)) >= date
        BY <2>4 DEF ValidCode
      <3>. QED
        BY <3>2, <3>3
    <2>. QED
      BY <2>2, <2>5, FrontAndBack, TradedMonthIs
  <1>2. PICK n \in Nat : n = TradedMonth /\ n = FrontMonth /\ BackMonth = n + 1
    BY FrontAndBack, TradedMonthIs
  <1>3. /\ month \in Nat /\ date \in Int /\ FirstOf(month) <= date /\ n \in {month, month + 1}
        /\ SecondThursday(month) >= date <=> month >= n
    BY <1>2, TradedMonthIs DEF CalendarInv
  <1>4. PICK f, s, t, u \in Int :
           /\ f = FirstOf(month) /\ s = SecondThursday(month) /\ s \in f + 7..f + 13
           /\ t = SecondThursday(n) /\ u = SecondThursday(n + 1)
    <2>1. n + 1 \in Nat
      OBVIOUS
    <2>. QED
      BY <1>3, <2>1, ThursdayIs
  <1>5. t >= date
    BY <1>2, <1>4, TradedMonthIs
  <1>6. u - t \in {28, 35}
    BY <1>4, ExpiriesApart
  <1>7. t <= date + 34
    <2>1. CASE n = month
      BY <1>3, <1>4, <2>1
    <2>2. CASE n = month + 1
      <3>1. t - s \in {28, 35}
        BY <1>3, <1>4, <2>2, ExpiriesApart
      <3>2. ~(s >= date)
        BY <1>3, <1>4, <2>2
      <3>. QED
        BY <1>3, <1>4, <3>1, <3>2
    <2>. QED
      BY <1>3, <2>1, <2>2
  <1>8. DaysToExpiry(FrontMonth) \in 0..34 /\ DaysToExpiry(BackMonth) \in 28..69
    BY <1>2, <1>3, <1>4, <1>5, <1>6, <1>7 DEF DaysToExpiry
  <1>. QED
    BY <1>1, <1>8 DEF ValidFromFront

(* Going back a number of days goes through all of them.                   *)
LEMMA DaysGoneThrough ==
    ASSUME CalendarInv, NEW k \in {0, 7, 40}
    PROVE  PastTradingDays(k) = {d \in date - k..date : TradingDay(d)}
  <1>1. PICK start \in Int : start = date - k
    BY DEF CalendarInv
  <1>2. /\ month \in Nat /\ month >= 24000 /\ date \in Int
        /\ FirstOf(month) <= date /\ date < FirstOf(month + 1)
    BY DEF CalendarInv, MonthNumber
  <1> DEFINE Before == {n \in month - k..month : FirstOf(n) <= start}
  <1>3. Before # {}
    <2>1. month - 2 \in Nat /\ month - 1 \in Nat
      BY <1>2
    <2>2. /\ FirstOf(month - 2) \in Int /\ FirstOf(month - 1) \in Int /\ FirstOf(month) \in Int
          /\ FirstOf(month - 2) + 28 <= FirstOf(month - 1)
          /\ FirstOf(month - 1) + 28 <= FirstOf(month)
      BY <1>2, <2>1, MonthsInOrder
    <2>3. CASE k = 0
      <3>1. month \in Before
        BY <1>1, <1>2, <2>3
      <3>. QED
        BY <3>1
    <2>4. CASE k = 7
      <3>1. month - 1 \in Before
        BY <1>1, <1>2, <2>2, <2>4
      <3>. QED
        BY <3>1
    <2>5. CASE k = 40
      <3>1. month - 2 \in Before
        BY <1>1, <1>2, <2>2, <2>5
      <3>. QED
        BY <3>1
    <2>. QED
      BY <2>3, <2>4, <2>5
  <1>4. Before \in SUBSET (0..month)
    BY <1>2
  <1>5. PICK first \in Before : first = Max(Before)
    <2>1. month \in Nat
      BY <1>2
    <2>. HIDE DEF Before
    <2>2. Max(Before) \in Before
      BY <1>3, <1>4, <2>1, GreatestIs
    <2>. QED
      BY <2>2
  <1>6. first \in Nat /\ first <= month /\ FirstOf(first) <= start /\ FirstOf(first) \in Int
    BY <1>2, <1>5, FirstIsBegin
  <1>7. PastTradingDays(k) = UNION {WeekdaysOf(n) \cap start..date : n \in first..month}
    BY <1>1, <1>5 DEF PastTradingDays, TradingDaysIn
  <1>8. \A d \in PastTradingDays(k) : d \in start..date /\ TradingDay(d)
    BY <1>7 DEF WeekdaysOf
  <1>9. ASSUME NEW d \in start..date, TradingDay(d)
        PROVE  d \in PastTradingDays(k)
    <2> DEFINE Began == {n \in first..month : FirstOf(n) <= d}
    <2>1. first \in Began /\ Began \in SUBSET (0..month)
      BY <1>1, <1>2, <1>6
    <2>2. PICK n \in Began : \A x \in Began : x <= n
      <3>1. month \in Nat /\ Began # {}
        BY <1>2, <2>1
      <3>. HIDE DEF Began
      <3>2. Max(Began) \in Began /\ \A x \in Began : x <= Max(Began)
        BY <2>1, <3>1, GreatestIs
      <3>. QED
        BY <3>2
    <2>3. n \in first..month /\ n \in Nat /\ FirstOf(n) <= d
      BY <1>6, <2>2
    <2>4. FirstOf(n) \in Int /\ FirstOf(n + 1) \in Int
      BY <2>3, MonthLength
    <2>5. d < FirstOf(n + 1)
      <3>1. CASE n = month
        BY <1>1, <1>2, <2>4, <3>1
      <3>2. CASE n # month
        <4>1. n + 1 \in first..month /\ ~(n + 1 <= n)
          BY <1>2, <1>6, <2>3, <3>2
        <4>2. n + 1 \notin Began
          <5>. HIDE DEF Began
          <5>. QED
            BY <2>2, <4>1
        <4>. QED
          BY <1>1, <2>4, <4>1, <4>2
      <3>. QED
        BY <3>1, <3>2
    <2>6. d \in WeekdaysOf(n)
      BY <1>1, <1>9, <2>3, <2>4, <2>5 DEF WeekdaysOf
    <2>. QED
      BY <1>7, <1>9, <2>3, <2>6
  <1>. QED
    BY <1>1, <1>8, <1>9

(* The holidays in the second week of a month.                             *)
LEMMA HolidaysInTheWeek ==
    ASSUME NEW y \in 2024..2026, NEW h \in HolidaysOf[y]
    PROVE  /\ h[1] \in 1..12 /\ h[2] \in 1..31
           /\ h[2] \in 8..14 =>
                 \/ y = 2024 /\ h[1] = 2 /\ h[2] \in 9..12
                 \/ y = 2024 /\ h[1] = 4 /\ h[2] = 10
                 \/ y = 2024 /\ h[1] = 10 /\ h[2] = 9
                 \/ y = 2025 /\ h[1] = 10
                 \/ y = 2026 /\ h[1] = 10 /\ h[2] = 9
  <1>1. CASE y = 2024
    <2>1. h \in {<<1, 1>>, <<2, 9>>, <<2, 10>>, <<2, 11>>, <<2, 12>>, <<3, 1>>,
                 <<4, 10>>, <<5, 5>>, <<5, 6>>, <<5, 15>>, <<6, 6>>, <<8, 15>>,
                 <<9, 16>>, <<9, 17>>, <<9, 18>>, <<10, 3>>, <<10, 9>>, <<12, 25>>}
      BY <1>1 DEF HolidaysOf
    <2>. QED
      BY <1>1, <2>1
  <1>2. CASE y = 2025
    <2>1. h \in {<<1, 1>>, <<1, 28>>, <<1, 29>>, <<1, 30>>, <<3, 1>>, <<3, 3>>,
                 <<5, 5>>, <<5, 6>>, <<6, 6>>, <<8, 15>>, <<10, 3>>, <<10, 5>>,
                 <<10, 6>>, <<10, 7>>, <<10, 8>>, <<10, 9>>, <<12, 25>>}
      BY <1>2 DEF HolidaysOf
    <2>. QED
      BY <1>2, <2>1
  <1>3. CASE y = 2026
    <2>1. h \in {<<1, 1>>, <<2, 16>>, <<2, 17>>, <<2, 18>>, <<3, 1>>, <<3, 2>>,
                 <<5, 5>>, <<5, 24>>, <<6, 6>>, <<8, 15>>, <<9, 24>>, <<9, 25>>,
                 <<9, 26>>, <<10, 3>>, <<10, 9>>, <<12, 25>>}
      BY <1>3 DEF HolidaysOf
    <2>. QED
      BY <1>3, <2>1
  <1>. QED
    BY <1>1, <1>2, <1>3

(* A day of expiry without trading is that of October 2025.                *)
LEMMA ExpiryWithoutTrading ==
    ASSUME CalendarInv, ~TradingDay(SecondThursday(month))
    PROVE  month = MonthNumber(2025, 10)
  <1>1. PICK s, f \in Int : /\ s = SecondThursday(month) /\ f = FirstOf(month) /\ Weekday(s) = 3
                            /\ s \in f + 7..f + 13
    BY ThursdayIs DEF CalendarInv
  <1>2. s \in Holidays
    BY <1>1 DEF TradingDay
  <1>3. PICK y \in 2024..2026 : s \in {DayOf(y, h[1], h[2]) : h \in HolidaysOf[y]}
    BY <1>2 DEF Holidays, HolidaysOf
  <1>4. PICK h \in HolidaysOf[y] : s = DayOf(y, h[1], h[2])
    BY <1>3
  <1>5. PICK m \in 1..12, d \in 1..31 : m = h[1] /\ d = h[2]
    BY HolidaysInTheWeek
  <1>6. PICK n \in Nat, g \in Int : n = MonthNumber(y, m) /\ g = FirstOf(n) /\ g = Begins(y, m)
    <2>1. MonthNumber(y, m) \in Nat /\ y \in 2000..2098
      BY DEF MonthNumber
    <2>2. FirstOf(MonthNumber(y, m)) \in Int /\ FirstOf(MonthNumber(y, m)) = Begins(y, m)
      BY <2>1, BeginsAt, FirstIsBegin
    <2>. QED
      BY <2>1, <2>2
  <1>7. s = g + d - 1
    BY <1>4, <1>5, <1>6 DEF DayOf
  <1>8. month = n
    <2>1. month \in Nat
      BY DEF CalendarInv
    <2>2. CASE month < n
      <3>1. FirstOf(month) + 28 <= FirstOf(n)
        BY <2>1, <2>2, MonthsInOrder
      <3>2. f + 28 <= g
        BY <1>1, <1>6, <3>1
      <3>. QED
        BY <1>1, <1>7, <3>2
    <2>3. CASE n < month
      <3>1. FirstOf(n) + 28 <= FirstOf(month)
        BY <2>1, <2>3, MonthsInOrder
      <3>2. g + 28 <= f
        BY <1>1, <1>6, <3>1
      <3>. QED
        BY <1>1, <1>7, <3>2
    <2>. QED
      BY <2>1, <2>2, <2>3
  <1>9. d \in 8..14 /\ (g + d + 4) % 7 = 3
    <2>1. f = g
      <3>1. f = FirstOf(month) /\ g = FirstOf(n)
        BY <1>1, <1>6
      <3>. QED
        BY <1>8, <3>1
    <2>2. s + 5 = g + d + 4 /\ d \in 8..14
      BY <1>1, <1>7, <2>1
    <2>3. (s + 5) % 7 = 3
      BY <1>1 DEF Weekday
    <2>. QED
      BY <2>2, <2>3
  <1>10. DaysBefore[2] = 31 /\ DaysBefore[4] = 90 /\ DaysBefore[10] = 273
    BY DEF DaysBefore
  <1>11. \/ y = 2024 /\ m = 2 /\ d \in 9..12
         \/ y = 2024 /\ m = 4 /\ d = 10
         \/ y = 2024 /\ m = 10 /\ d = 9
         \/ y = 2025 /\ m = 10
         \/ y = 2026 /\ m = 10 /\ d = 9
    BY <1>5, <1>9, HolidaysInTheWeek
  <1>12. CASE y = 2024 /\ m = 2 /\ d \in 9..12
    BY <1>6, <1>9, <1>10, <1>12 DEF Begins
  <1>13. CASE y = 2024 /\ m = 4 /\ d = 10
    BY <1>6, <1>9, <1>10, <1>13 DEF Begins
  <1>14. CASE (y = 2024 \/ y = 2026) /\ m = 10 /\ d = 9
    BY <1>6, <1>9, <1>10, <1>14 DEF Begins
  <1>15. CASE y = 2025 /\ m = 10
    BY <1>6, <1>8, <1>15
  <1>. QED
    BY <1>11, <1>12, <1>13, <1>14, <1>15

LEMMA CalendarAgrees == CalendarInv => ContractsAgree
  <1>1. CalendarInv => CalendarSound
    <2>. SUFFICES ASSUME CalendarInv PROVE CalendarSound
      OBVIOUS
    <2>1. \A k \in {0, 7, 40} : PastTradingDays(k) = {d \in date - k..date : TradingDay(d)}
      BY DaysGoneThrough
    <2>2. ~TradingDay(SecondThursday(month)) => month = MonthNumber(2025, 10)
      BY ExpiryWithoutTrading
    <2>. QED
      BY <2>1, <2>2 DEF CalendarSound
  <1>. QED
    BY <1>1, SidesAgree, RoughIsLate, CodesRead, ValidOnes DEF ContractsAgree

(* Every day of the years that the bounds name.                            *)
THEOREM ContractsInvariant == (ContractsSpec => []CalendarInv) /\ (Spec => []CalendarInv)
  <1>1. ContractsInit => CalendarInv
    BY CalendarBegins
  <1>2. CalendarInv /\ [Midnight]_contractVars => CalendarInv'
    BY CalendarGoesOn
  <1>3. Init => ContractsInit
    BY DEF Init
  <1>4. [Next]_componentVars => [Midnight]_contractVars
    BY DEF Next, componentVars, BrokerPart, CandlePart, BackfillPart, BacktestPart,
           ContractPart, WorkbenchPart, SupportPart
  <1>. QED
    BY <1>1, <1>2, <1>3, <1>4, PTL DEF ContractsSpec, Spec

(* futures_code.py, historical/futures.py and calendar.py: on every day of *)
(* any years from 2000 to 2098 the sides name the same front and back      *)
(* month, the codes say which month they are of, the collector's           *)
(* calculation is at most one expired contract behind, and no day of       *)
(* trading is passed over.                                                 *)
THEOREM ContractsAreSound == (ContractsSpec => []ContractsAgree) /\ (Spec => []ContractsSound)
  <1>1. CalendarInv => ContractsAgree /\ ContractsSound
    BY CalendarAgrees DEF ContractsSound
  <1>. QED
    BY <1>1, ContractsInvariant, PTL
===============================================================================
