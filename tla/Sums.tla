-------------------------------- MODULE Sums --------------------------------
(***************************************************************************)
(* SumFunctionOnSet of the community module Functions folds a function over *)
(* a set in an order nobody states.  These are the facts that make it a sum: *)
(* it is an integer, and any element can be taken out of it first.           *)
(*                                                                         *)
(* Sets are compared by strict inclusion, which is well founded on the finite *)
(* ones: a claim about all finite sets is proved from a smallest set that     *)
(* refutes it.  Last come the sizes of sets that differ by one element, and   *)
(* what ranks (Ranks) say of the n-th of some numbers.                        *)
(***************************************************************************)
EXTENDS FiniteSetsExt, FiniteSetTheorems, Ranks, TLAPS

\* A set of finite sets that is not empty has a member none of the others is
\* strictly in.
LEMMA SmallestSet ==
    ASSUME NEW S, IsFiniteSet(S), NEW T \in SUBSET (SUBSET S), T # {}
    PROVE  \E t \in T : \A u \in T : u \subseteq t => u = t
<1>1. T \subseteq FiniteSubsetsOf(S)
  BY FS_FiniteSubsetsOfFinite
<1>2. PICK t \in T : \A u \in T : <<u, t>> \notin StrictSubsetOrdering(S)
  BY <1>1, FS_StrictSubsetOrderingWellFounded, WFMin
<1> QED
  BY <1>2 DEF StrictSubsetOrdering

\* The least of some of the numbers 1..N is one of them.
LEMMA MinIsThere ==
    ASSUME NEW N \in Nat, NEW S \in SUBSET (1..N), S # {}
    PROVE  Min(S) \in S /\ \A m \in S : Min(S) <= m
<1> DEFINE Upto(n) == 1..n
           T == {Upto(n) : n \in S}
<1>1. IsFiniteSet(1..N)
  BY FS_Interval
<1>2. T \in SUBSET (SUBSET (1..N)) /\ T # {}
  <2>1. \A n \in S : Upto(n) \in SUBSET (1..N)
    OBVIOUS
  <2> HIDE DEF Upto
  <2> QED
    BY <2>1
<1>3. PICK t \in T : \A u \in T : u \subseteq t => u = t
  <2> HIDE DEF T
  <2> DEFINE I == 1..N
  <2>1. IsFiniteSet(I) /\ T \in SUBSET (SUBSET I) /\ T # {}
    BY <1>1, <1>2
  <2> HIDE DEF I
  <2> QED
    BY <2>1, SmallestSet
<1>4. PICK n \in S : t = Upto(n)
  <2> HIDE DEF Upto
  <2> QED
    OBVIOUS
<1>5. ASSUME NEW m \in S, m < n PROVE FALSE
  <2>1. Upto(m) \subseteq Upto(n) /\ n \in Upto(n) /\ n \notin Upto(m)
    BY <1>5
  <2> QED
    BY <2>1, <1>3, <1>4
<1>6. \A m \in S : n <= m
  BY <1>5
<1> QED
  BY <1>6 DEF Min

\* So is the greatest.
LEMMA MaxIsThere ==
  ASSUME NEW N \in Nat, NEW S \in SUBSET (1..N), S # {}
  PROVE  Max(S) \in S /\ \A m \in S : m <= Max(S)
<1> DEFINE T == {N + 1 - n : n \in S}
<1>0. \A n \in S : n \in Int /\ 1 <= n /\ n <= N
  OBVIOUS
<1>1. T \in SUBSET (1..N) /\ T # {}
  <2>1. \A n \in S : N + 1 - n \in 1..N
    BY <1>0
  <2> QED
    BY <2>1
<1>2. Min(T) \in T /\ \A m \in T : Min(T) <= m
  BY <1>1, MinIsThere
<1>3. PICK n \in S : Min(T) = N + 1 - n
  BY <1>2
<1>4. \A m \in S : n >= m
  <2> SUFFICES ASSUME NEW m \in S PROVE n >= m
    OBVIOUS
  <2>1. N + 1 - m \in T
    OBVIOUS
  <2>2. N + 1 - n <= N + 1 - m
    BY <1>2, <1>3, <2>1
  <2> QED
    BY <1>0, <2>2
<1>5. \E m \in S : \A q \in S : m >= q
  BY <1>4
<1> HIDE DEF T
<1> QED
  BY <1>5 DEF Max

\* Nought is the greatest of nought and some of these numbers, or one of them is.
LEMMA MaxWithZero ==
  ASSUME NEW N \in Nat, NEW S \in SUBSET (1..N)
  PROVE  /\ Max({0} \cup S) \in {0} \cup S
         /\ \A m \in {0} \cup S : m <= Max({0} \cup S)
<1>1. \E m \in {0} \cup S : \A q \in {0} \cup S : m >= q
  <2>1. CASE S = {}
    BY <2>1
  <2>2. CASE S # {}
    <3>1. PICK x : x \in S /\ \A m \in S : m <= x
      BY <2>2, MaxIsThere
    <3>2. x \in {0} \cup S /\ \A q \in {0} \cup S : x >= q
      BY <3>1
    <3> QED
      BY <3>2
  <2> QED
    BY <2>1, <2>2
<1> QED
  BY <1>1 DEF Max

-----------------------------------------------------------------------------
\* The element the fold takes first, and the function that folds the subsets
\* of a set.
Pick(s) == CHOOSE x \in s : TRUE
FoldsTo(w, S, g) ==
    \A s \in SUBSET S : g[s] = IF s = {} THEN 0 ELSE w[Pick(s)] + g[s \ {Pick(s)}]
IntegerFold(w, S, g) == g \in [SUBSET S -> Int] /\ FoldsTo(w, S, g)

\* Two functions that fold the same sets agree.
LEMMA FoldsAgree ==
    ASSUME NEW D, NEW w \in [D -> Int], NEW S \in SUBSET D, IsFiniteSet(S),
           NEW U \in SUBSET S, NEW g, NEW h, FoldsTo(w, S, g), FoldsTo(w, U, h)
    PROVE  \A s \in SUBSET U : g[s] = h[s]
<1> DEFINE T == {s \in SUBSET U : g[s] # h[s]}
<1>1. SUFFICES ASSUME T # {} PROVE FALSE
  OBVIOUS
<1>2. PICK t \in T : \A u \in T : u \subseteq t => u = t
  <2>1. T \in SUBSET (SUBSET S)
    OBVIOUS
  <2> HIDE DEF T
  <2> QED
    BY <1>1, <2>1, SmallestSet
<1>3. CASE t = {}
  BY <1>3 DEF FoldsTo
<1>4. CASE t # {}
  <2>1. Pick(t) \in t
    BY <1>4 DEF Pick
  <2>2. g[t \ {Pick(t)}] = h[t \ {Pick(t)}]
    BY <1>2, <2>1
  <2> QED
    BY <1>4, <2>2 DEF FoldsTo
<1> QED
  BY <1>3, <1>4

\* There is a function that folds the subsets of a finite set.
LEMMA FoldsExist ==
    ASSUME NEW D, NEW w \in [D -> Int], NEW S \in SUBSET D, IsFiniteSet(S)
    PROVE  \E g : IntegerFold(w, S, g)
<1> DEFINE T == {s \in SUBSET S : ~ \E g : IntegerFold(w, s, g)}
<1>1. SUFFICES ASSUME T # {} PROVE FALSE
  OBVIOUS
<1>2. PICK t \in T : \A u \in T : u \subseteq t => u = t
  <2>1. T \in SUBSET (SUBSET S)
    OBVIOUS
  <2> HIDE DEF T
  <2> QED
    BY <1>1, <2>1, SmallestSet
<1> DEFINE H(s) == CHOOSE g : IntegerFold(w, s, g)
<1>3. \A s \in SUBSET t : s # t => IntegerFold(w, s, H(s))
  BY <1>2
<1> HIDE DEF H
<1> DEFINE G(s) == IF s = {} THEN 0
                   ELSE w[Pick(s)] + H(s \ {Pick(s)})[s \ {Pick(s)}]
<1> DEFINE g == [s \in SUBSET t |-> G(s)]
<1>4. \A s \in SUBSET t : s # {} =>
          /\ Pick(s) \in s /\ w[Pick(s)] \in Int
          /\ H(s \ {Pick(s)})[s \ {Pick(s)}] \in Int
          /\ IntegerFold(w, s \ {Pick(s)}, H(s \ {Pick(s)}))
  <2> SUFFICES ASSUME NEW s \in SUBSET t, s # {}
               PROVE  /\ Pick(s) \in s /\ w[Pick(s)] \in Int
                      /\ H(s \ {Pick(s)})[s \ {Pick(s)}] \in Int
                      /\ IntegerFold(w, s \ {Pick(s)}, H(s \ {Pick(s)}))
    OBVIOUS
  <2>1. Pick(s) \in s
    BY DEF Pick
  <2>2. IntegerFold(w, s \ {Pick(s)}, H(s \ {Pick(s)}))
    BY <2>1, <1>3
  <2> QED
    BY <2>1, <2>2 DEF IntegerFold, FoldsTo
<1>5. \A s \in SUBSET t : g[s] = G(s) /\ g[s] \in Int
  BY <1>4
<1>6. ASSUME NEW s \in SUBSET t, s # {}
      PROVE  g[s \ {Pick(s)}] = H(s \ {Pick(s)})[s \ {Pick(s)}]
  <2> DEFINE r == s \ {Pick(s)}
  <2>1. r \in SUBSET t /\ IntegerFold(w, r, H(r))
    BY <1>4, <1>6
  <2>2. CASE r = {}
    BY <2>1, <2>2, <1>5 DEF IntegerFold, FoldsTo
  <2>3. CASE r # {}
    <3>1. /\ Pick(r) \in r /\ r \ {Pick(r)} \in SUBSET r
          /\ IntegerFold(w, r \ {Pick(r)}, H(r \ {Pick(r)}))
      BY <2>1, <2>3, <1>4
    <3>2. H(r)[r \ {Pick(r)}] = H(r \ {Pick(r)})[r \ {Pick(r)}]
      <4>1. IsFiniteSet(r) /\ r \in SUBSET D
        BY FS_Subset
      <4> HIDE DEF r
      <4> QED
        BY <2>1, <3>1, <4>1, FoldsAgree DEF IntegerFold
    <3>3. H(r)[r] = w[Pick(r)] + H(r)[r \ {Pick(r)}]
      <4> HIDE DEF r
      <4> QED
        BY <2>1, <2>3 DEF IntegerFold, FoldsTo
    <3>4. g[r] = w[Pick(r)] + H(r \ {Pick(r)})[r \ {Pick(r)}]
      BY <2>1, <2>3, <1>5
    <3> QED
      BY <3>2, <3>3, <3>4
  <2> QED
    BY <2>2, <2>3
<1>7. IntegerFold(w, t, g)
  <2>1. g \in [SUBSET t -> Int]
    BY <1>5
  <2>2. \A s \in SUBSET t : g[s] = IF s = {} THEN 0 ELSE w[Pick(s)] + g[s \ {Pick(s)}]
    BY <1>5, <1>6
  <2> HIDE DEF g
  <2> QED
    BY <2>1, <2>2 DEF IntegerFold, FoldsTo
<1> QED
  BY <1>7, <1>2

\* SumFunctionOnSet says what such a function says of the whole set.
LEMMA SumFolds ==
    ASSUME NEW D, NEW w \in [D -> Int], NEW S \in SUBSET D, IsFiniteSet(S),
           NEW g, FoldsTo(w, S, g)
    PROVE  SumFunctionOnSet(w, S) = g[S]
<1> DEFINE Eq(h) == h = [s \in SUBSET S |-> IF s = {} THEN 0 ELSE w[Pick(s)] + h[s \ {Pick(s)}]]
           it == CHOOSE h : Eq(h)
<1>1. PICK h : IntegerFold(w, S, h)
  BY FoldsExist
<1>2. Eq(h)
  BY <1>1 DEF IntegerFold, FoldsTo
<1>3. Eq(it)
  <2> HIDE DEF Eq
  <2> QED
    BY <1>2
<1>4. FoldsTo(w, S, it)
  <2> HIDE DEF it
  <2> QED
    BY <1>3 DEF FoldsTo
<1>5. SumFunctionOnSet(w, S) = it[S]
  BY DEF SumFunctionOnSet, FoldFunctionOnSet, MapThenFoldSet, Pick
<1>6. it[S] = g[S]
  <2> HIDE DEF it
  <2> QED
    BY <1>4, FoldsAgree
<1> QED
  BY <1>5, <1>6

\* What the fold does: nothing is 0, and the element that is picked is added.
LEMMA SumSteps ==
    ASSUME NEW D, NEW w \in [D -> Int], NEW S \in SUBSET D, IsFiniteSet(S)
    PROVE  /\ SumFunctionOnSet(w, S) \in Int
           /\ S = {} => SumFunctionOnSet(w, S) = 0
           /\ S # {} => /\ Pick(S) \in S
                        /\ SumFunctionOnSet(w, S) = w[Pick(S)] + SumFunctionOnSet(w, S \ {Pick(S)})
<1>1. PICK g : IntegerFold(w, S, g)
  BY FoldsExist
<1>2. SumFunctionOnSet(w, S) = g[S]
  BY <1>1, SumFolds DEF IntegerFold
<1>3. ASSUME S # {} PROVE Pick(S) \in S
  BY <1>3 DEF Pick
<1>4. SumFunctionOnSet(w, S \ {Pick(S)}) = g[S \ {Pick(S)}]
  <2> DEFINE r == S \ {Pick(S)}
  <2>1. r \in SUBSET S /\ IsFiniteSet(r)
    BY FS_Subset
  <2>2. FoldsTo(w, r, g)
    BY <2>1, <1>1 DEF FoldsTo, IntegerFold
  <2> HIDE DEF r
  <2>3. SumFunctionOnSet(w, r) = g[r]
    BY <2>1, <2>2, SumFolds
  <2> QED
    BY <2>3 DEF r
<1> QED
  BY <1>1, <1>2, <1>3, <1>4 DEF IntegerFold, FoldsTo

\* Any element can be taken out of a sum.
THEOREM SumWithout ==
    ASSUME NEW D, NEW w \in [D -> Int], NEW S \in SUBSET D, IsFiniteSet(S), NEW x \in S
    PROVE  SumFunctionOnSet(w, S) = w[x] + SumFunctionOnSet(w, S \ {x})
<1> DEFINE Sum(s) == SumFunctionOnSet(w, s)
           T == {s \in SUBSET S : \E y \in s : Sum(s) # w[y] + Sum(s \ {y})}
<1>1. SUFFICES ASSUME T # {} PROVE FALSE
  OBVIOUS
<1>2. PICK t \in T : \A u \in T : u \subseteq t => u = t
  <2>1. T \in SUBSET (SUBSET S)
    OBVIOUS
  <2> HIDE DEF T
  <2> QED
    BY <1>1, <2>1, SmallestSet
<1>3. PICK y \in t : Sum(t) # w[y] + Sum(t \ {y})
  OBVIOUS
<1> DEFINE p == Pick(t)
<1>4. p \in t /\ Sum(t) = w[p] + Sum(t \ {p})
  <2>1. t \in SUBSET D /\ IsFiniteSet(t) /\ t # {}
    BY <1>3, FS_Subset
  <2> HIDE DEF T
  <2>2. Pick(t) \in t
    BY <2>1, SumSteps
  <2>3. SumFunctionOnSet(w, t) = w[Pick(t)] + SumFunctionOnSet(w, t \ {Pick(t)})
    BY <2>1, SumSteps
  <2> QED
    BY <2>2, <2>3
<1>5. p # y
  BY <1>3, <1>4
<1> HIDE DEF p
<1>6. Sum(t \ {p}) = w[y] + Sum((t \ {p}) \ {y})
  BY <1>2, <1>4, <1>5
<1>7. Sum(t \ {y}) = w[p] + Sum((t \ {y}) \ {p})
  BY <1>2, <1>4, <1>5
<1> HIDE DEF T
<1>8. Sum(t \ {y}) = w[p] + Sum((t \ {p}) \ {y})
  <2>1. (t \ {p}) \ {y} = (t \ {y}) \ {p}
    OBVIOUS
  <2> QED
    BY <1>7, <2>1
<1>9. t \in SUBSET S /\ Sum((t \ {p}) \ {y}) \in Int /\ w[p] \in Int /\ w[y] \in Int
  <2>1. t \in SUBSET S
    BY DEF T
  <2>2. (t \ {p}) \ {y} \in SUBSET D /\ IsFiniteSet((t \ {p}) \ {y})
    BY <2>1, FS_Subset
  <2> QED
    BY <2>1, <2>2, <1>4, SumSteps
<1> HIDE DEF Sum
<1> QED
  BY <1>3, <1>4, <1>6, <1>8, <1>9

\* A sum of integers over a finite set is an integer; over nothing it is 0; an
\* element that is new adds its value.
THEOREM SumAdds ==
    ASSUME NEW D, NEW w \in [D -> Int], NEW S \in SUBSET D, IsFiniteSet(S), NEW x \in D
    PROVE  /\ SumFunctionOnSet(w, S) \in Int
           /\ SumFunctionOnSet(w, {}) = 0
           /\ x \notin S => SumFunctionOnSet(w, S \cup {x}) = SumFunctionOnSet(w, S) + w[x]
<1>1. SumFunctionOnSet(w, S) \in Int
  BY SumSteps
<1>2. SumFunctionOnSet(w, {}) = 0
  BY SumSteps, FS_EmptySet
<1>3. ASSUME x \notin S
      PROVE  SumFunctionOnSet(w, S \cup {x}) = SumFunctionOnSet(w, S) + w[x]
  <2> DEFINE U == S \cup {x}
  <2>1. U \in SUBSET D /\ IsFiniteSet(U) /\ x \in U
    BY FS_AddElement
  <2>2. U \ {x} = S
    BY <1>3
  <2> HIDE DEF U
  <2>3. SumFunctionOnSet(w, U) = w[x] + SumFunctionOnSet(w, U \ {x})
    BY <2>1, SumWithout
  <2>4. SumFunctionOnSet(w, U) = w[x] + SumFunctionOnSet(w, S)
    BY <2>2, <2>3
  <2>5. SumFunctionOnSet(w, S \cup {x}) = w[x] + SumFunctionOnSet(w, S)
    BY <2>4 DEF U
  <2>6. w[x] \in Int
    OBVIOUS
  <2> QED
    BY <2>5, <2>6, <1>1
<1> QED
  BY <1>1, <1>2, <1>3

\* The sum over two sets that have nothing in common.
THEOREM SumOfUnion ==
    ASSUME NEW D, NEW w \in [D -> Int], NEW A \in SUBSET D, NEW B \in SUBSET D,
           IsFiniteSet(A), IsFiniteSet(B), A \cap B = {}
    PROVE  SumFunctionOnSet(w, A \cup B) = SumFunctionOnSet(w, A) + SumFunctionOnSet(w, B)
<1> DEFINE Sum(s) == SumFunctionOnSet(w, s)
           T == {b \in SUBSET B : Sum(A \cup b) # Sum(A) + Sum(b)}
<1>1. SUFFICES ASSUME T # {} PROVE FALSE
  <2>1. B \notin T
    BY <1>1
  <2> QED
    BY <2>1
<1>2. PICK t \in T : \A u \in T : u \subseteq t => u = t
  <2>1. T \in SUBSET (SUBSET B)
    OBVIOUS
  <2> HIDE DEF T
  <2> QED
    BY <1>1, <2>1, SmallestSet
<1>3. /\ t \in SUBSET B /\ IsFiniteSet(t) /\ Sum(t) \in Int /\ Sum(A) \in Int
      /\ Sum(A \cup t) # Sum(A) + Sum(t)
  BY FS_Subset, SumSteps
<1>4. t # {}
  <2> SUFFICES ASSUME t = {} PROVE FALSE
    OBVIOUS
  <2>1. A \cup t = A
    OBVIOUS
  <2>2. Sum(t) = 0
    BY <1>3, SumSteps
  <2> HIDE DEF Sum
  <2>3. Sum(A \cup t) = Sum(A)
    BY <2>1
  <2> QED
    BY <1>3, <2>2, <2>3
<1>5. PICK x \in t : TRUE
  BY <1>4
<1> DEFINE r == t \ {x}
<1>6. r \in SUBSET B /\ IsFiniteSet(r) /\ x \in D /\ x \notin r /\ x \notin A /\ r \cup {x} = t
  BY <1>3, <1>5, FS_Subset
<1>7. Sum(A \cup r) = Sum(A) + Sum(r)
  BY <1>2, <1>5, <1>6
<1> HIDE DEF r, T
<1>8. Sum(t) = Sum(r) + w[x] /\ Sum(r) \in Int /\ w[x] \in Int
  <2>1. Sum(r \cup {x}) = Sum(r) + w[x] /\ Sum(r) \in Int
    BY <1>6, SumAdds
  <2> HIDE DEF Sum
  <2> QED
    BY <1>6, <2>1
<1>9. Sum(A \cup t) = Sum(A \cup r) + w[x]
  <2> DEFINE U == A \cup r
  <2>1. U \in SUBSET D /\ IsFiniteSet(U) /\ x \notin U /\ U \cup {x} = A \cup t
    BY <1>6, FS_Union
  <2> HIDE DEF U
  <2>2. Sum(U \cup {x}) = Sum(U) + w[x]
    BY <1>6, <2>1, SumAdds
  <2> HIDE DEF Sum
  <2> QED
    BY <2>1, <2>2 DEF U
<1> HIDE DEF Sum
<1> QED
  BY <1>3, <1>7, <1>8, <1>9

\* The sum of what two functions give together.
THEOREM SumOfBoth ==
    ASSUME NEW D, NEW v \in [D -> Int], NEW w \in [D -> Int],
           NEW S \in SUBSET D, IsFiniteSet(S),
           NEW u \in [D -> Int], \A x \in S : u[x] = v[x] + w[x]
    PROVE  SumFunctionOnSet(u, S) = SumFunctionOnSet(v, S) + SumFunctionOnSet(w, S)
<1>1. PICK g : IntegerFold(v, S, g)
  BY FoldsExist
<1>2. PICK h : IntegerFold(w, S, h)
  BY FoldsExist
<1> DEFINE f == [s \in SUBSET S |-> g[s] + h[s]]
<1>3. FoldsTo(u, S, f)
  <2> SUFFICES ASSUME NEW s \in SUBSET S
               PROVE  f[s] = IF s = {} THEN 0 ELSE u[Pick(s)] + f[s \ {Pick(s)}]
    BY DEF FoldsTo
  <2> DEFINE r == s \ {Pick(s)}
  <2>1. r \in SUBSET S
    OBVIOUS
  <2>2. CASE s = {}
    <3>1. g[s] = 0 /\ h[s] = 0
      BY <1>1, <1>2, <2>2 DEF IntegerFold, FoldsTo
    <3> QED
      BY <2>2, <3>1
  <2>3. CASE s # {}
    <3>1. Pick(s) \in s
      BY <2>3 DEF Pick
    <3>2. u[Pick(s)] = v[Pick(s)] + w[Pick(s)] /\ v[Pick(s)] \in Int /\ w[Pick(s)] \in Int
      BY <3>1
    <3>3. g[s] = v[Pick(s)] + g[r] /\ h[s] = w[Pick(s)] + h[r] /\ g[r] \in Int /\ h[r] \in Int
      BY <1>1, <1>2, <2>1, <2>3 DEF IntegerFold, FoldsTo
    <3> HIDE DEF r
    <3>4. f[s] = g[s] + h[s] /\ f[r] = g[r] + h[r]
      BY <2>1
    <3> QED
      BY <2>3, <3>2, <3>3, <3>4 DEF r
  <2> QED
    BY <2>2, <2>3
<1>4. SumFunctionOnSet(u, S) = f[S]
  BY <1>3, SumFolds
<1>5. SumFunctionOnSet(v, S) = g[S] /\ SumFunctionOnSet(w, S) = h[S]
  BY <1>1, <1>2, SumFolds DEF IntegerFold
<1> QED
  BY <1>4, <1>5

\* The sum of a function that counts some elements only.
THEOREM SumOfPart ==
    ASSUME NEW D, NEW w \in [D -> Int], NEW S \in SUBSET D, IsFiniteSet(S), NEW T,
           NEW u \in [D -> Int], \A x \in S : u[x] = IF x \in T THEN w[x] ELSE 0
    PROVE  SumFunctionOnSet(u, S) = SumFunctionOnSet(w, S \cap T)
<1> DEFINE f == [s \in SUBSET S |-> SumFunctionOnSet(w, s \cap T)]
<1>1. FoldsTo(u, S, f)
  <2> SUFFICES ASSUME NEW s \in SUBSET S
               PROVE  f[s] = IF s = {} THEN 0 ELSE u[Pick(s)] + f[s \ {Pick(s)}]
    BY DEF FoldsTo
  <2> DEFINE r == s \ {Pick(s)}
  <2>1. r \in SUBSET S /\ f[s] = SumFunctionOnSet(w, s \cap T)
                      /\ f[r] = SumFunctionOnSet(w, r \cap T)
    OBVIOUS
  <2>2. \A t \in SUBSET S : t \cap T \in SUBSET D /\ IsFiniteSet(t \cap T)
    BY FS_Subset
  <2> HIDE DEF f
  <2>3. CASE s = {}
    <3>1. s \cap T = {}
      BY <2>3
    <3> QED
      BY <2>1, <2>3, <3>1, SumSteps, FS_EmptySet
  <2>4. CASE s # {}
    <3>1. Pick(s) \in s
      BY <2>4 DEF Pick
    <3>2. CASE Pick(s) \in T
      <4>1. Pick(s) \in s \cap T /\ (s \cap T) \ {Pick(s)} = r \cap T
        BY <3>1, <3>2
      <4>2. SumFunctionOnSet(w, s \cap T)
              = w[Pick(s)] + SumFunctionOnSet(w, (s \cap T) \ {Pick(s)})
        BY <2>2, <4>1, SumWithout
      <4> QED
        BY <2>1, <2>4, <3>1, <3>2, <4>1, <4>2
    <3>3. CASE Pick(s) \notin T
      <4>1. s \cap T = r \cap T
        BY <3>3
      <4>2. u[Pick(s)] = 0
        BY <3>1, <3>3
      <4>3. SumFunctionOnSet(w, r \cap T) \in Int
        BY <2>1, <2>2, SumSteps
      <4>4. f[s] = f[r] /\ f[r] \in Int
        BY <2>1, <4>1, <4>3
      <4> HIDE DEF r
      <4>5. f[s] = u[Pick(s)] + f[r]
        BY <4>2, <4>4
      <4> QED
        BY <2>4, <4>5 DEF r
    <3> QED
      BY <3>2, <3>3
  <2> QED
    BY <2>3, <2>4
<1>2. SumFunctionOnSet(u, S) = f[S]
  BY <1>1, SumFolds
<1> QED
  BY <1>2

\* Sums of the same amounts are the same.
LEMMA SumOfSame ==
    ASSUME NEW D, NEW v \in [D -> Int], NEW w \in [D -> Int], NEW S \in SUBSET D, IsFiniteSet(S),
           \A x \in S : v[x] = w[x]
    PROVE  SumFunctionOnSet(v, S) = SumFunctionOnSet(w, S)
<1>1. \A x \in S : v[x] = IF x \in S THEN w[x] ELSE 0
  OBVIOUS
<1>2. SumFunctionOnSet(v, S) = SumFunctionOnSet(w, S \cap S)
  BY <1>1, SumOfPart
<1>3. S \cap S = S
  OBVIOUS
<1> QED
  BY <1>2, <1>3

\* A sum of what is not negative is not negative, and of what is positive positive.
LEMMA SumNotNegative ==
    ASSUME NEW D, NEW w \in [D -> Int], NEW S \in SUBSET D, IsFiniteSet(S),
           \A x \in S : w[x] >= 0
    PROVE  /\ SumFunctionOnSet(w, S) >= 0
           /\ \A x \in S : w[x] <= SumFunctionOnSet(w, S)
<1> DEFINE T == {s \in SUBSET S : ~(SumFunctionOnSet(w, s) >= 0)}
<1>1. T = {}
  <2> SUFFICES ASSUME T # {} PROVE FALSE
    OBVIOUS
  <2>1. PICK t \in T : \A u \in T : u \subseteq t => u = t
    <3>1. T \in SUBSET (SUBSET S)
      OBVIOUS
    <3> HIDE DEF T
    <3> QED
      BY <3>1, SmallestSet
  <2>2. IsFiniteSet(t) /\ t \in SUBSET S /\ ~(SumFunctionOnSet(w, t) >= 0)
    <3>1. t \in SUBSET S /\ ~(SumFunctionOnSet(w, t) >= 0)
      OBVIOUS
    <3> QED
      BY <3>1, FS_Subset
  <2>3. t # {} /\ Pick(t) \in t
        /\ SumFunctionOnSet(w, t) = w[Pick(t)] + SumFunctionOnSet(w, t \ {Pick(t)})
    <3>1. t \in SUBSET D
      BY <2>2
    <3> HIDE DEF T
    <3>2. t # {}
      <4>1. t = {} => SumFunctionOnSet(w, t) = 0
        BY <2>2, <3>1, SumSteps
      <4> QED
        BY <2>2, <4>1
    <3> QED
      BY <2>2, <3>1, <3>2, SumSteps
  <2> DEFINE u == t \ {Pick(t)}
  <2>4. u \in SUBSET S /\ IsFiniteSet(u) /\ u # t
    <3>1. u \in SUBSET S /\ u # t /\ u \subseteq t
      BY <2>2, <2>3
    <3> QED
      BY <2>2, <3>1, FS_Subset
  <2>5. SumFunctionOnSet(w, u) \in Int /\ SumFunctionOnSet(w, u) >= 0
    <3>1. u \notin T
      <4> HIDE DEF T
      <4> QED
        BY <2>1, <2>4
    <3>2. SumFunctionOnSet(w, u) \in Int
      BY <2>4, SumSteps
    <3> QED
      BY <2>4, <3>1, <3>2
  <2>6. w[Pick(t)] \in Int /\ w[Pick(t)] >= 0
    BY <2>2, <2>3
  <2> HIDE DEF u, T
  <2> QED
    BY <2>2, <2>3, <2>5, <2>6 DEF u
<1>2. \A s \in SUBSET S : SumFunctionOnSet(w, s) \in Int /\ SumFunctionOnSet(w, s) >= 0
  <2> SUFFICES ASSUME NEW s \in SUBSET S PROVE SumFunctionOnSet(w, s) \in Int /\ SumFunctionOnSet(w, s) >= 0
    OBVIOUS
  <2>1. IsFiniteSet(s) /\ s \in SUBSET D
    BY FS_Subset
  <2>2. SumFunctionOnSet(w, s) \in Int
    BY <2>1, SumSteps
  <2> QED
    BY <1>1, <2>2
<1>3. ASSUME NEW x \in S PROVE w[x] <= SumFunctionOnSet(w, S)
  <2>1. SumFunctionOnSet(w, S) = w[x] + SumFunctionOnSet(w, S \ {x})
    BY SumWithout
  <2>2. SumFunctionOnSet(w, S \ {x}) \in Int /\ SumFunctionOnSet(w, S \ {x}) >= 0
    BY <1>2
  <2>3. w[x] \in Int
    OBVIOUS
  <2> QED
    BY <2>1, <2>2, <2>3
<1> QED
  BY <1>2, <1>3

\* More of what is not negative is not less, and with something positive more.
LEMMA SumOfMore ==
    ASSUME NEW D, NEW w \in [D -> Int], NEW B \in SUBSET D, IsFiniteSet(B), NEW A \in SUBSET B,
           \A x \in B \ A : w[x] >= 0
    PROVE  /\ SumFunctionOnSet(w, A) \in Int /\ SumFunctionOnSet(w, B) \in Int
           /\ SumFunctionOnSet(w, A) <= SumFunctionOnSet(w, B)
           /\ \A x \in B \ A : SumFunctionOnSet(w, A) + w[x] <= SumFunctionOnSet(w, B)
<1>1. IsFiniteSet(A) /\ IsFiniteSet(B \ A) /\ A \in SUBSET D /\ B \ A \in SUBSET D
      /\ A \cap (B \ A) = {} /\ A \cup (B \ A) = B
  BY FS_Subset
<1>2. SumFunctionOnSet(w, B) = SumFunctionOnSet(w, A) + SumFunctionOnSet(w, B \ A)
  <2> DEFINE C == B \ A
  <2>1. C \in SUBSET D /\ IsFiniteSet(C) /\ A \cap C = {} /\ A \cup C = B
    BY <1>1
  <2> HIDE DEF C
  <2>2. SumFunctionOnSet(w, A \cup C) = SumFunctionOnSet(w, A) + SumFunctionOnSet(w, C)
    BY <1>1, <2>1, SumOfUnion
  <2> QED
    BY <2>1, <2>2 DEF C
<1>3. SumFunctionOnSet(w, A) \in Int /\ SumFunctionOnSet(w, B \ A) \in Int /\ SumFunctionOnSet(w, B) \in Int
  BY <1>1, SumSteps
<1>4. SumFunctionOnSet(w, B \ A) >= 0 /\ \A x \in B \ A : w[x] <= SumFunctionOnSet(w, B \ A)
  BY <1>1, SumNotNegative
<1>5. \A x \in B \ A : w[x] \in Int
  OBVIOUS
<1> QED
  BY <1>2, <1>3, <1>4, <1>5

\* Sums of opposite amounts are opposite.
LEMMA SumOfOpposite ==
    ASSUME NEW D, NEW v \in [D -> Int], NEW w \in [D -> Int], NEW S \in SUBSET D, IsFiniteSet(S),
           \A x \in S : v[x] + w[x] = 0
    PROVE  SumFunctionOnSet(v, S) + SumFunctionOnSet(w, S) = 0
<1> DEFINE z == [x \in D |-> 0]
<1>1. z \in [D -> Int] /\ (\A x \in S : z[x] = v[x] + w[x]) /\ (\A x \in S : z[x] = z[x] + z[x])
  OBVIOUS
<1> HIDE DEF z
<1>2. SumFunctionOnSet(z, S) = SumFunctionOnSet(v, S) + SumFunctionOnSet(w, S)
  BY <1>1, SumOfBoth
<1>3. SumFunctionOnSet(z, S) = SumFunctionOnSet(z, S) + SumFunctionOnSet(z, S)
  BY <1>1, SumOfBoth
<1>4. SumFunctionOnSet(z, S) \in Int /\ SumFunctionOnSet(v, S) \in Int /\ SumFunctionOnSet(w, S) \in Int
  BY <1>1, SumSteps
<1>5. \A x, a, b \in Int : x = a + b /\ x = x + x => a + b = 0
  OBVIOUS
<1> QED
  BY <1>2, <1>3, <1>4, <1>5

-----------------------------------------------------------------------------
(* Sizes.                                                                   *)

\* A set that another one follows in, but for an element it gains or loses.
LEMMA SetSizes ==
    ASSUME NEW S, IsFiniteSet(S), NEW T, IsFiniteSet(T), NEW x
    PROVE  /\ Cardinality(S) \in Nat /\ Cardinality(T) \in Nat
           /\ T \subseteq S => Cardinality(T) <= Cardinality(S)
           /\ T \subseteq S \cup {x} => Cardinality(T) <= Cardinality(S) + 1
           /\ T \subseteq S \ {x} /\ x \in S => Cardinality(T) + 1 <= Cardinality(S)
<1>1. Cardinality(S) \in Nat /\ Cardinality(T) \in Nat
  BY FS_CardinalityType
<1>2. ASSUME T \subseteq S PROVE Cardinality(T) <= Cardinality(S)
  BY <1>2, FS_Subset
<1>3. ASSUME T \subseteq S \cup {x} PROVE Cardinality(T) <= Cardinality(S) + 1
  <2>1. IsFiniteSet(S \cup {x}) /\ Cardinality(S \cup {x}) \in {Cardinality(S), Cardinality(S) + 1}
    BY FS_AddElement
  <2>2. Cardinality(T) <= Cardinality(S \cup {x})
    BY <2>1, <1>3, FS_Subset
  <2> QED
    BY <1>1, <2>1, <2>2
<1>4. ASSUME T \subseteq S \ {x}, x \in S PROVE Cardinality(T) + 1 <= Cardinality(S)
  <2>1. IsFiniteSet(S \ {x}) /\ Cardinality(S \ {x}) = Cardinality(S) - 1
    BY <1>4, FS_RemoveElement
  <2>2. Cardinality(T) <= Cardinality(S \ {x})
    BY <2>1, <1>4, FS_Subset
  <2> QED
    BY <1>1, <2>1, <2>2
<1> QED
  BY <1>1, <1>2, <1>3, <1>4

-----------------------------------------------------------------------------
(* Places in a set of numbers.                                              *)

\* Elements that have places of their own, none beyond how many they are, fill
\* all the places.
LEMMA PlacesFilled ==
  ASSUME NEW S, IsFiniteSet(S), NEW place \in [S -> 1..Cardinality(S)],
         \A r, s \in S : place[r] = place[s] => r = s
  PROVE  \A n \in 1..Cardinality(S) : \E r \in S : place[r] = n
<1> DEFINE T == 1..Cardinality(S)
<1>1. Cardinality(S) \in Nat
  BY FS_CardinalityType
<1>2. IsFiniteSet(T) /\ Cardinality(T) = Cardinality(S)
  BY <1>1, FS_Interval
<1>3. place \in Injection(S, T)
  BY DEF Injection, IsInjective
<1>4. place \in Surjection(S, T)
  BY <1>2, <1>3, FS_Injection
<1> QED
  BY <1>4 DEF Surjection

\* The n-th of some numbers is one of them, its rank is n, and ranks grow with
\* the numbers.
LEMMA NthHasRank ==
  ASSUME NEW N \in Nat, NEW S \in SUBSET (1..N)
  PROVE  /\ \A n \in 1..Cardinality(S) : Nth(S, n) \in S /\ Rank(S, Nth(S, n)) = n
         /\ \A r \in S : Rank(S, r) \in 1..Cardinality(S)
         /\ \A r, s \in S : r < s => Rank(S, r) < Rank(S, s)
<1> DEFINE Upto(r) == {s \in S : s <= r}
           place == [r \in S |-> Cardinality(Upto(r))]
<1>1. IsFiniteSet(S) /\ S \subseteq Int
  <2>1. IsFiniteSet(1..N)
    BY FS_Interval
  <2>2. IsFiniteSet(S)
    BY <2>1, FS_Subset
  <2> QED
    BY <2>2
<1>2. \A r, s \in S : r < s => place[r] < place[s]
  <2> SUFFICES ASSUME NEW r \in S, NEW s \in S, r < s
               PROVE  Cardinality(Upto(r)) < Cardinality(Upto(s))
    OBVIOUS
  <2>1. /\ IsFiniteSet(Upto(r)) /\ IsFiniteSet(Upto(s))
        /\ Upto(r) \subseteq Upto(s) \ {s} /\ s \in Upto(s)
    <3>1. Upto(r) \subseteq S /\ Upto(s) \subseteq S
      OBVIOUS
    <3>2. IsFiniteSet(Upto(r)) /\ IsFiniteSet(Upto(s))
      BY <1>1, <3>1, FS_Subset
    <3>3. s \in Upto(s) /\ s \notin Upto(r)
      BY <1>1
    <3>4. \A q \in Upto(r) : q \in Upto(s)
      BY <1>1
    <3> QED
      BY <3>2, <3>3, <3>4
  <2> HIDE DEF Upto
  <2> QED
    BY <2>1, SetSizes
<1>3. place \in [S -> 1..Cardinality(S)]
  <2> SUFFICES ASSUME NEW r \in S PROVE Cardinality(Upto(r)) \in 1..Cardinality(S)
    OBVIOUS
  <2>1. IsFiniteSet(Upto(r)) /\ Upto(r) \subseteq S /\ r \in Upto(r)
    <3>1. Upto(r) \subseteq S /\ r \in Upto(r)
      BY <1>1
    <3> QED
      BY <1>1, <3>1, FS_Subset
  <2> HIDE DEF Upto
  <2>2. Cardinality(Upto(r)) \in Nat /\ Cardinality(Upto(r)) <= Cardinality(S)
    BY <1>1, <2>1, SetSizes
  <2>3. Cardinality(Upto(r)) # 0
    BY <2>1, FS_EmptySet
  <2> QED
    BY <1>1, <2>2, <2>3, FS_CardinalityType
<1>4. \A r, s \in S : place[r] = place[s] => r = s
  <2> SUFFICES ASSUME NEW r \in S, NEW s \in S, place[r] = place[s], r # s
               PROVE  FALSE
    OBVIOUS
  <2>1. r < s \/ s < r
    BY <1>1
  <2>2. place[r] \in Int /\ place[s] \in Int
    BY <1>3
  <2> HIDE DEF place
  <2> QED
    BY <1>2, <2>1, <2>2
<1>5. \A r \in S : place[r] = Rank(S, r)
  BY DEF Rank
<1>6. ASSUME NEW n \in 1..Cardinality(S) PROVE Nth(S, n) \in S /\ Rank(S, Nth(S, n)) = n
  <2> HIDE DEF place
  <2>1. \E r \in S : place[r] = n
    BY <1>1, <1>3, <1>4, PlacesFilled
  <2>2. \E r \in S : Rank(S, r) = n
    BY <1>5, <2>1
  <2> QED
    BY <2>2 DEF Nth
<1> QED
  <2> HIDE DEF place
  <2> QED
    BY <1>2, <1>3, <1>5, <1>6

\* The n-th of some numbers is one of them.
LEMMA NthIsThere ==
  ASSUME NEW N \in Nat, NEW S \in SUBSET (1..N), NEW n \in 1..Cardinality(S)
  PROVE  Nth(S, n) \in S
  BY NthHasRank

\* Between the n-th and the next there is none, and after the last there is none.
LEMMA NthNext ==
  ASSUME NEW N \in Nat, NEW S \in SUBSET (1..N), NEW n \in 1..Cardinality(S)
  PROVE  /\ n + 1 \in 1..Cardinality(S) => Nth(S, n) < Nth(S, n + 1)
         /\ \A r \in S : r > Nth(S, n) =>
                n + 1 \in 1..Cardinality(S) /\ r >= Nth(S, n + 1)
         /\ \A r \in S : r < Nth(S, n) =>
                n - 1 \in 1..Cardinality(S) /\ r <= Nth(S, n - 1)
<1>1. Cardinality(S) \in Nat /\ S \subseteq Int
  <2>1. IsFiniteSet(1..N)
    BY FS_Interval
  <2>2. IsFiniteSet(S)
    BY <2>1, FS_Subset
  <2> QED
    BY <2>2, FS_CardinalityType
<1>2. /\ \A m \in 1..Cardinality(S) : Nth(S, m) \in S /\ Rank(S, Nth(S, m)) = m
      /\ \A r \in S : Rank(S, r) \in 1..Cardinality(S)
      /\ \A r, s \in S : r < s => Rank(S, r) < Rank(S, s)
  BY NthHasRank
<1>3. ASSUME n + 1 \in 1..Cardinality(S) PROVE Nth(S, n) < Nth(S, n + 1)
  <2> DEFINE a == Nth(S, n)  b == Nth(S, n + 1)
  <2>1. a \in S /\ b \in S /\ Rank(S, a) = n /\ Rank(S, b) = n + 1
    BY <1>2, <1>3
  <2> HIDE DEF a, b
  <2>2. a # b /\ ~(b < a)
    BY <1>1, <1>2, <2>1
  <2>3. a < b
    BY <1>1, <2>1, <2>2
  <2> QED
    BY <2>3 DEF a, b
<1>4. ASSUME NEW r \in S, r > Nth(S, n)
      PROVE  n + 1 \in 1..Cardinality(S) /\ r >= Nth(S, n + 1)
  <2> DEFINE a == Nth(S, n)  b == Nth(S, n + 1)
  <2>1. a \in S /\ Rank(S, a) = n /\ a < r
    BY <1>2, <1>4
  <2> HIDE DEF a
  <2>2. Rank(S, r) > n /\ Rank(S, r) \in 1..Cardinality(S)
    BY <1>2, <2>1
  <2>3. n + 1 \in 1..Cardinality(S)
    BY <1>1, <2>2
  <2>4. b \in S /\ Rank(S, b) = n + 1
    BY <1>2, <2>3
  <2> HIDE DEF b
  <2>5. ~(r < b)
    BY <1>1, <1>2, <2>2, <2>4
  <2>6. r >= b
    BY <1>1, <2>4, <2>5
  <2> QED
    BY <2>3, <2>6 DEF b
<1>5. ASSUME NEW r \in S, r < Nth(S, n)
      PROVE  n - 1 \in 1..Cardinality(S) /\ r <= Nth(S, n - 1)
  <2> DEFINE a == Nth(S, n)  b == Nth(S, n - 1)
  <2>1. a \in S /\ Rank(S, a) = n /\ r < a
    BY <1>2, <1>5
  <2> HIDE DEF a
  <2>2. Rank(S, r) < n /\ Rank(S, r) \in 1..Cardinality(S)
    BY <1>2, <2>1
  <2>3. n - 1 \in 1..Cardinality(S)
    BY <1>1, <2>2
  <2>4. b \in S /\ Rank(S, b) = n - 1
    BY <1>2, <2>3
  <2> HIDE DEF b
  <2>5. ~(b < r)
    BY <1>1, <1>2, <2>2, <2>4
  <2>6. r <= b
    BY <1>1, <2>4, <2>5
  <2> QED
    BY <2>3, <2>6 DEF b
<1> QED
  BY <1>3, <1>4, <1>5
\* They come in their order, and each has its place.
LEMMA NthInOrder ==
  ASSUME NEW N \in Nat, NEW S \in SUBSET (1..N)
  PROVE  /\ \A n \in 1..Cardinality(S) : Nth(S, n) \in S
         /\ \A m, n \in 1..Cardinality(S) : m < n => Nth(S, m) < Nth(S, n)
         /\ \A r \in S : \E n \in 1..Cardinality(S) : Nth(S, n) = r
<1>1. Cardinality(S) \in Nat /\ S \subseteq Int
  <2>1. IsFiniteSet(1..N)
    BY FS_Interval
  <2>2. IsFiniteSet(S)
    BY <2>1, FS_Subset
  <2> QED
    BY <2>2, FS_CardinalityType
<1>2. /\ \A m \in 1..Cardinality(S) : Nth(S, m) \in S /\ Rank(S, Nth(S, m)) = m
      /\ \A r \in S : Rank(S, r) \in 1..Cardinality(S)
      /\ \A r, s \in S : r < s => Rank(S, r) < Rank(S, s)
  BY NthHasRank
<1>3. ASSUME NEW m \in 1..Cardinality(S), NEW n \in 1..Cardinality(S), m < n
      PROVE  Nth(S, m) < Nth(S, n)
  <2> DEFINE a == Nth(S, m)  b == Nth(S, n)
  <2>1. a \in S /\ b \in S /\ Rank(S, a) = m /\ Rank(S, b) = n
    BY <1>2
  <2> HIDE DEF a, b
  <2>2. a # b /\ ~(b < a)
    BY <1>1, <1>2, <1>3, <2>1
  <2>3. a < b
    BY <1>1, <2>1, <2>2
  <2> QED
    BY <2>3 DEF a, b
<1>4. ASSUME NEW r \in S PROVE Nth(S, Rank(S, r)) = r
  <2> DEFINE a == Nth(S, Rank(S, r))
  <2>1. a \in S /\ Rank(S, a) = Rank(S, r) /\ Rank(S, r) \in 1..Cardinality(S)
    BY <1>2
  <2> HIDE DEF a
  <2>2. ~(a < r) /\ ~(r < a)
    BY <1>1, <1>2, <2>1
  <2>3. a = r
    BY <1>1, <2>1, <2>2
  <2> QED
    BY <2>3 DEF a
<1> QED
  BY <1>2, <1>3, <1>4
=============================================================================
