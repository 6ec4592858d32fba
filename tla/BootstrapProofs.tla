--------------------------- MODULE BootstrapProofs ---------------------------
(***************************************************************************)
(* Proofs about Assignment and Bootstrap, for any subjects, scores, record *)
(* counts, hash, shards and slices and any number of scripts that die.     *)
(*                                                                         *)
(* Running record counts are sums over finite sets, and the folds of the   *)
(* community modules come without theorems; the ones needed are proved     *)
(* first, by looking at a smallest set where they fail.                    *)
(***************************************************************************)
EXTENDS Bootstrap, FiniteSetTheorems, TLAPS

-----------------------------------------------------------------------------
(* Smallest sets *)

\* A nonempty family of subsets of a finite set has a smallest member.
LEMMA SmallestSet ==
  ASSUME NEW S, IsFiniteSet(S), NEW F \in SUBSET SUBSET S, F # {}
  PROVE  \E X \in F : \A Y \in F : Y \subseteq X => Y = X
<1>1. IsWellFoundedOn(StrictSubsetOrdering(S), SUBSET S)
  BY FS_StrictSubsetOrderingWellFounded, FS_FiniteSubsetsOfFinite
<1>2. PICK X \in F : \A Y \in F : ~(<<Y, X>> \in StrictSubsetOrdering(S))
  BY <1>1, WFMin
<1> QED
  BY <1>2 DEF StrictSubsetOrdering

-----------------------------------------------------------------------------
(* Sums over finite sets *)

Total(f, D) == FoldFunctionOnSet(+, 0, f, D)

\* The element the fold takes next, and what it makes of the rest.
Pick(T) == CHOOSE x \in T : TRUE
Adds(f, g, T) == IF T = {} THEN 0 ELSE f[Pick(T)] + g[T \ {Pick(T)}]

\* g holds the sum of f over every subset of D.
Sums(f, g, D) == g = [T \in SUBSET D |-> Adds(f, g, T)]

LEMMA TotalIsFold ==
  ASSUME NEW f, NEW D PROVE Total(f, D) = (CHOOSE g : Sums(f, g, D))[D]
BY DEF Total, FoldFunctionOnSet, MapThenFoldSet, Sums, Adds, Pick

LEMMA PickIsMember == ASSUME NEW T, T # {} PROVE Pick(T) \in T
BY DEF Pick

LEMMA SumsUnfold ==
  ASSUME NEW f, NEW g, NEW D, Sums(f, g, D), NEW T \in SUBSET D
  PROVE  g[T] = IF T = {} THEN 0 ELSE f[Pick(T)] + g[T \ {Pick(T)}]
BY DEF Sums, Adds

\* The sums over a set do not depend on the larger set they were built in.
LEMMA SumsAgree ==
  ASSUME NEW f, NEW g, NEW h, NEW A, NEW B, IsFiniteSet(A),
         Sums(f, g, A), Sums(f, h, B), NEW T \in SUBSET A, T \in SUBSET B
  PROVE  g[T] = h[T]
<1> DEFINE F == {X \in SUBSET A : X \in SUBSET B /\ g[X] # h[X]}
<1> SUFFICES ASSUME F # {} PROVE FALSE
  OBVIOUS
<1>0. F \in SUBSET SUBSET A
  OBVIOUS
<1>1. PICK X \in F : \A Y \in F : Y \subseteq X => Y = X
  <2> HIDE DEF F
  <2> QED
    BY <1>0, SmallestSet
<1>2. X \in SUBSET A /\ X \in SUBSET B /\ g[X] # h[X]
  OBVIOUS
<1>3. CASE X = {}
  BY <1>2, <1>3, SumsUnfold
<1>4. CASE X # {}
  <2> DEFINE Y == X \ {Pick(X)}
  <2>1. Y \in SUBSET A /\ Y \in SUBSET B /\ Y \subseteq X /\ Y # X
    BY <1>2, <1>4, PickIsMember
  <2>2. g[Y] = h[Y]
    BY <1>1, <2>1
  <2>3. g[X] = f[Pick(X)] + g[Y]
    BY <1>2, <1>4, SumsUnfold
  <2>4. h[X] = f[Pick(X)] + h[Y]
    BY <1>2, <1>4, SumsUnfold
  <2> QED
    BY <1>2, <2>2, <2>3, <2>4
<1> QED
  BY <1>3, <1>4

LEMMA SumsExist ==
  ASSUME NEW f, NEW D, IsFiniteSet(D)
  PROVE  \E g : Sums(f, g, D)
<1> DEFINE best(T) == CHOOSE g : Sums(f, g, T)
           F == {X \in SUBSET D : ~\E g : Sums(f, g, X)}
<1> SUFFICES ASSUME D \in F PROVE FALSE
  OBVIOUS
<1>0. F \in SUBSET SUBSET D
  OBVIOUS
<1>1. PICK X \in F : \A Y \in F : Y \subseteq X => Y = X
  <2> HIDE DEF F
  <2> QED
    BY <1>0, SmallestSet
<1>2. ASSUME NEW Y \in SUBSET X, Y # X PROVE Sums(f, best(Y), Y) /\ IsFiniteSet(Y)
  <2>1. Y \in SUBSET D /\ Y \notin F
    BY <1>1, <1>2
  <2>2. \E g : Sums(f, g, Y)
    BY <2>1
  <2>3. IsFiniteSet(Y)
    BY <2>1, FS_Subset
  <2> QED
    BY <2>2, <2>3
<1> DEFINE h == [T \in SUBSET X |-> best(T)[T]]
           g == [T \in SUBSET X |-> Adds(f, h, T)]
<1> HIDE DEF best, F
<1>3. ASSUME NEW T \in SUBSET X, T # {} PROVE Adds(f, g, T) = Adds(f, h, T)
  <2> DEFINE U == T \ {Pick(T)}
  <2>1. U \in SUBSET X /\ U # X /\ Pick(T) \in T
    BY <1>3, PickIsMember
  <2>2. Sums(f, best(U), U)
    BY <1>2, <2>1
  <2>3. best(U)[U] = IF U = {} THEN 0 ELSE f[Pick(U)] + best(U)[U \ {Pick(U)}]
    <3> HIDE DEF U
    <3> QED
      BY <2>2, SumsUnfold
  <2>4. U # {} => best(U)[U \ {Pick(U)}] = best(U \ {Pick(U)})[U \ {Pick(U)}]
    <3> SUFFICES ASSUME U # {}
                 PROVE  best(U)[U \ {Pick(U)}] = best(U \ {Pick(U)})[U \ {Pick(U)}]
      OBVIOUS
    <3> DEFINE V == U \ {Pick(U)}
    <3>1. V \in SUBSET X /\ V # X /\ V \in SUBSET U
      BY <2>1
    <3>2. Sums(f, best(V), V) /\ IsFiniteSet(U)
      BY <1>2, <2>1, <3>1
    <3> HIDE DEF U, V
    <3>3. best(U)[V] = best(V)[V]
      BY <2>2, <3>1, <3>2, SumsAgree
    <3> QED
      BY <3>3 DEF V
  <2>5. U \ {Pick(U)} \in SUBSET X
    BY <2>1
  <2>6. g[U] = IF U = {} THEN 0 ELSE f[Pick(U)] + best(U \ {Pick(U)})[U \ {Pick(U)}]
    <3> HIDE DEF U
    <3> QED
      BY <2>1, <2>5 DEF Adds
  <2>7. g[U] = h[U]
    BY <2>1, <2>3, <2>4, <2>6
  <2> HIDE DEF g, h
  <2> QED
    BY <1>3, <2>7 DEF Adds
<1>4. \A T \in SUBSET X : Adds(f, g, T) = Adds(f, h, T)
  BY <1>3 DEF Adds
<1>5. g = [T \in SUBSET X |-> Adds(f, g, T)]
  BY <1>4
<1>6. Sums(f, g, X)
  <2> HIDE DEF g
  <2> QED
    BY <1>5 DEF Sums
<1> QED
  BY <1>1, <1>6 DEF F

\* A sum takes off one element after another.
LEMMA TotalUnfold ==
  ASSUME NEW f, NEW D, IsFiniteSet(D)
  PROVE  Total(f, D) = IF D = {} THEN 0 ELSE f[Pick(D)] + Total(f, D \ {Pick(D)})
<1> DEFINE best(T) == CHOOSE g : Sums(f, g, T)
           E == D \ {Pick(D)}
<1>1. IsFiniteSet(E) /\ E \in SUBSET D
  BY FS_RemoveElement
<1>2. Sums(f, best(D), D) /\ Sums(f, best(E), E)
  BY <1>1, SumsExist
<1>3. Total(f, D) = best(D)[D] /\ Total(f, E) = best(E)[E]
  BY TotalIsFold
<1> HIDE DEF best
<1>4. best(D)[D] = IF D = {} THEN 0 ELSE f[Pick(D)] + best(D)[E]
  BY <1>2, SumsUnfold
<1> HIDE DEF E
<1>5. best(D)[E] = best(E)[E]
  BY <1>1, <1>2, SumsAgree
<1> QED
  BY <1>3, <1>4, <1>5 DEF E

LEMMA TotalNat ==
  ASSUME NEW D, IsFiniteSet(D), NEW f, \A x \in D : f[x] \in Nat
  PROVE  Total(f, D) \in Nat
<1> DEFINE F == {X \in SUBSET D : Total(f, X) \notin Nat}
<1> SUFFICES ASSUME D \in F PROVE FALSE
  OBVIOUS
<1>0. F \in SUBSET SUBSET D
  OBVIOUS
<1>1. PICK X \in F : \A Y \in F : Y \subseteq X => Y = X
  <2> HIDE DEF F
  <2> QED
    BY <1>0, SmallestSet
<1>2. X \in SUBSET D /\ IsFiniteSet(X) /\ Total(f, X) \notin Nat
  BY FS_Subset
<1>3. X # {} /\ Total(f, X) = f[Pick(X)] + Total(f, X \ {Pick(X)})
  <2>1. Total(f, X) = IF X = {} THEN 0 ELSE f[Pick(X)] + Total(f, X \ {Pick(X)})
    BY <1>2, TotalUnfold
  <2> QED
    BY <1>2, <2>1
<1>4. Pick(X) \in X /\ X \ {Pick(X)} \in SUBSET D
  BY <1>2, <1>3, PickIsMember
<1>5. Total(f, X \ {Pick(X)}) \in Nat
  BY <1>1, <1>4
<1> QED
  BY <1>2, <1>3, <1>4, <1>5

\* Whichever element is taken off first, the sum is the same.
LEMMA TotalTakesOff ==
  ASSUME NEW D, IsFiniteSet(D), NEW f, \A x \in D : f[x] \in Nat, NEW d \in D
  PROVE  Total(f, D) = f[d] + Total(f, D \ {d})
<1> DEFINE F == {X \in SUBSET D : \E x \in X : Total(f, X) # f[x] + Total(f, X \ {x})}
<1> SUFFICES ASSUME D \in F PROVE FALSE
  OBVIOUS
<1>0. F \in SUBSET SUBSET D
  OBVIOUS
<1>1. PICK X \in F : \A Y \in F : Y \subseteq X => Y = X
  <2> HIDE DEF F
  <2> QED
    BY <1>0, SmallestSet
<1>2. PICK x \in X : Total(f, X) # f[x] + Total(f, X \ {x})
  OBVIOUS
<1>3. X \in SUBSET D /\ IsFiniteSet(X)
  BY FS_Subset
<1> DEFINE m == Pick(X)
           M == X \ {m}
           Y == X \ {x}
           Z == M \ {x}
<1>4. /\ m \in X /\ Total(f, X) = f[m] + Total(f, M)
      /\ m # x
  BY <1>2, <1>3, PickIsMember, TotalUnfold
<1>5. ASSUME NEW Q \in SUBSET X, Q # X, NEW q \in Q
      PROVE  Total(f, Q) = f[q] + Total(f, Q \ {q})
  BY <1>1, <1>3, <1>5
<1> HIDE DEF F, m
<1>6. Total(f, M) = f[x] + Total(f, Z)
  BY <1>4, <1>5
<1>7. Y \ {m} = Z
  OBVIOUS
<1>8. Total(f, Y) = f[m] + Total(f, Z)
  <2>1. Total(f, Y) = f[m] + Total(f, Y \ {m})
    BY <1>4, <1>5
  <2> QED
    BY <1>7, <2>1
<1>9. Total(f, Z) \in Nat /\ f[x] \in Nat /\ f[m] \in Nat
  <2>1. Z \in SUBSET D /\ IsFiniteSet(Z)
    BY <1>3, FS_Subset
  <2> HIDE DEF Z
  <2> QED
    BY <1>3, <1>4, <2>1, TotalNat
<1> HIDE DEF M, Y, Z
<1> QED
  BY <1>2, <1>4, <1>6, <1>8, <1>9 DEF Y

\* The sum over a set is the sum over a part of it and over the rest.
LEMMA TotalSplits ==
  ASSUME NEW D, IsFiniteSet(D), NEW f, \A x \in D : f[x] \in Nat, NEW E \in SUBSET D
  PROVE  Total(f, D) = Total(f, E) + Total(f, D \ E)
<1> DEFINE F == {X \in SUBSET E : Total(f, D) # Total(f, X) + Total(f, D \ X)}
<1> SUFFICES ASSUME E \in F PROVE FALSE
  OBVIOUS
<1>0. F \in SUBSET SUBSET E /\ IsFiniteSet(E)
  BY FS_Subset
<1>1. PICK X \in F : \A Y \in F : Y \subseteq X => Y = X
  <2> HIDE DEF F
  <2> QED
    BY <1>0, SmallestSet
<1>2. X \in SUBSET E /\ Total(f, D) # Total(f, X) + Total(f, D \ X)
  OBVIOUS
<1>3. /\ IsFiniteSet(X) /\ IsFiniteSet(D \ X) /\ Total(f, D) \in Nat
      /\ Total(f, X) \in Nat /\ Total(f, D \ X) \in Nat
  <2>1. X \in SUBSET D /\ D \ X \in SUBSET D
    BY <1>2
  <2>2. IsFiniteSet(X) /\ IsFiniteSet(D \ X)
    BY <2>1, FS_Subset
  <2> QED
    BY <2>1, <2>2, TotalNat
<1>4. CASE X = {}
  <2>1. Total(f, X) = 0 /\ D \ X = D
    BY <1>3, <1>4, TotalUnfold
  <2> QED
    BY <1>2, <1>3, <2>1
<1>5. CASE X # {}
  <2>1. PICK x \in X : x \in D
    BY <1>2, <1>5
  <2> DEFINE Y == X \ {x}
  <2>2. Y \in SUBSET E /\ Y \subseteq X /\ Y # X /\ Y \in SUBSET D /\ IsFiniteSet(Y)
        /\ IsFiniteSet(D \ Y)
    BY <1>2, <1>3, <2>1, FS_Subset
  <2>3. Total(f, D) = Total(f, Y) + Total(f, D \ Y)
    BY <1>1, <2>2
  <2>4. Total(f, X) = f[x] + Total(f, Y)
    BY <1>2, <1>3, <2>1, TotalTakesOff
  <2>5. Total(f, D \ Y) = f[x] + Total(f, D \ X)
    <3>1. x \in D \ Y /\ (D \ Y) \ {x} = D \ X
      BY <2>1
    <3> HIDE DEF Y
    <3>2. Total(f, D \ Y) = f[x] + Total(f, (D \ Y) \ {x})
      BY <2>2, <3>1, TotalTakesOff
    <3> QED
      BY <3>1, <3>2
  <2>6. f[x] \in Nat /\ Total(f, Y) \in Nat
    BY <2>1, <2>2, TotalNat
  <2> HIDE DEF Y
  <2> QED
    BY <1>2, <1>3, <2>3, <2>4, <2>5, <2>6
<1> QED
  BY <1>4, <1>5

-----------------------------------------------------------------------------
(* The order of np.lexsort *)

Measures == churn \in [Subjects -> Scores] /\ counts \in [Subjects -> Counts]

LEMMA MeasuresAreNumbers ==
  ASSUME Measures
  PROVE  /\ \A s \in Subjects : s \in Nat /\ churn[s] \in Nat /\ counts[s] \in Nat \ {0}
         /\ IsFiniteSet(Subjects)
BY Ranked, Measured DEF Measures

LEMMA BeforeIsOrder ==
  ASSUME Measures
  PROVE  /\ \A s \in Subjects : ~Before(s, s)
         /\ \A s, t, u \in Subjects : Before(s, t) /\ Before(t, u) => Before(s, u)
         /\ \A s, t \in Subjects : s = t \/ Before(s, t) \/ Before(t, s)
         /\ \A s, t \in Subjects : Before(s, t) => ~Before(t, s)
BY MeasuresAreNumbers DEF Before

\* Some subject of a nonempty set comes first, and some last.
LEMMA FirstOf ==
  ASSUME Measures, NEW E \in SUBSET Subjects, E # {}
  PROVE  \E s \in E : \A u \in E : ~Before(u, s)
<1> DEFINE below(s) == {u \in E : Before(u, s)}
           F == {below(s) : s \in E}
<1>e. IsFiniteSet(E)
  BY MeasuresAreNumbers, FS_Subset
<1>0. F \in SUBSET SUBSET E /\ F # {}
  OBVIOUS
<1>1. PICK X \in F : \A Y \in F : Y \subseteq X => Y = X
  <2> HIDE DEF F
  <2> QED
    BY <1>e, <1>0, SmallestSet
<1>2. PICK s \in E : X = below(s)
  OBVIOUS
<1>3. ASSUME NEW u \in E, Before(u, s) PROVE FALSE
  <2>1. below(u) \subseteq below(s)
    BY <1>3, BeforeIsOrder
  <2>2. u \in below(s) /\ u \notin below(u)
    BY <1>3, BeforeIsOrder
  <2>3. below(u) \in F
    OBVIOUS
  <2> HIDE DEF below, F
  <2> QED
    BY <1>1, <1>2, <2>1, <2>2, <2>3
<1> QED
  BY <1>3

LEMMA LastOf ==
  ASSUME Measures, NEW E \in SUBSET Subjects, E # {}
  PROVE  \E s \in E : \A u \in E : ~Before(s, u)
<1> DEFINE above(s) == {u \in E : Before(s, u)}
           F == {above(s) : s \in E}
<1>e. IsFiniteSet(E)
  BY MeasuresAreNumbers, FS_Subset
<1>0. F \in SUBSET SUBSET E /\ F # {}
  OBVIOUS
<1>1. PICK X \in F : \A Y \in F : Y \subseteq X => Y = X
  <2> HIDE DEF F
  <2> QED
    BY <1>e, <1>0, SmallestSet
<1>2. PICK s \in E : X = above(s)
  OBVIOUS
<1>3. ASSUME NEW u \in E, Before(s, u) PROVE FALSE
  <2>1. above(u) \subseteq above(s)
    BY <1>3, BeforeIsOrder
  <2>2. u \in above(s) /\ u \notin above(u)
    BY <1>3, BeforeIsOrder
  <2>3. above(u) \in F
    OBVIOUS
  <2> HIDE DEF above, F
  <2> QED
    BY <1>1, <1>2, <2>1, <2>2, <2>3
<1> QED
  BY <1>3

-----------------------------------------------------------------------------
(* The buckets of assign_slices *)

LEMMA RecordsAreTotal == ASSUME NEW T PROVE Records(T) = Total(counts, T)
BY DEF Records, Total

\* Records are numbers, more of them in more subjects.
LEMMA RecordsGrow ==
  ASSUME Measures, NEW T \in SUBSET Subjects, NEW U \in SUBSET T
  PROVE  /\ Records(U) \in Nat /\ Records(T) \in Nat
         /\ Records(T) = Records(U) + Records(T \ U)
         /\ Records(U) <= Records(T) /\ Records(T \ U) \in Nat
<1>1. IsFiniteSet(T) /\ IsFiniteSet(U) /\ IsFiniteSet(T \ U)
  <2>1. IsFiniteSet(T)
    BY MeasuresAreNumbers, FS_Subset
  <2> QED
    BY <2>1, FS_Subset, FS_Difference
<1>2. \A x \in T : counts[x] \in Nat
  BY MeasuresAreNumbers
<1>3. Records(U) \in Nat /\ Records(T) \in Nat /\ Records(T \ U) \in Nat
  BY <1>1, <1>2, TotalNat, RecordsAreTotal
<1>4. Records(T) = Records(U) + Records(T \ U)
  BY <1>1, <1>2, TotalSplits, RecordsAreTotal
<1> QED
  BY <1>3, <1>4

LEMMA RecordsOfOneMore ==
  ASSUME Measures, NEW T \in SUBSET Subjects, NEW s \in Subjects, s \notin T
  PROVE  Records(T \cup {s}) = counts[s] + Records(T)
<1> DEFINE U == T \cup {s}
<1>1. U \in SUBSET Subjects /\ s \in U /\ U \ {s} = T
  OBVIOUS
<1>2. IsFiniteSet(U) /\ \A x \in U : counts[x] \in Nat
  BY <1>1, MeasuresAreNumbers, FS_Subset
<1> HIDE DEF U
<1>3. Total(counts, U) = counts[s] + Total(counts, U \ {s})
  BY <1>1, <1>2, TotalTakesOff
<1> QED
  BY <1>1, <1>3, RecordsAreTotal DEF U

LEMMA RecordsOfNobody == Records({}) = 0
BY TotalUnfold, RecordsAreTotal, FS_EmptySet

LEMMA DivBounds ==
  ASSUME NEW a \in Nat, NEW b \in Nat \ {0}
  PROVE  /\ a \div b \in Nat
         /\ (a \div b) * b <= a /\ a < ((a \div b) + 1) * b
OBVIOUS

LEMMA TimesKeepsOrder ==
  ASSUME NEW a \in Int, NEW b \in Int, NEW c \in Nat \ {0}
  PROVE  a <= b <=> a * c <= b * c
OBVIOUS

\* The bucket of a running count is the share it falls in.
LEMMA SliceAtBounds ==
  ASSUME NEW total \in Nat, NEW c \in 1 .. total
  PROVE  LET i == SliceAt(c, total)
         IN  /\ i \in Slices
             /\ i * total <= (c - 1) * NUM_SLICES
             /\ (c - 1) * NUM_SLICES < (i + 1) * total
<1> DEFINE a == (c - 1) * NUM_SLICES
           q == a \div total
<1>1. NUM_SLICES \in Nat \ {0} /\ total \in Nat \ {0} /\ c - 1 \in Nat /\ c - 1 < total
  BY HotAndCold
<1>2. a \in Nat
  BY <1>1
<1> HIDE DEF a
<1>3. q \in Nat /\ q * total <= a /\ a < (q + 1) * total
  BY <1>1, <1>2, DivBounds
<1> HIDE DEF q
<1>4. q < NUM_SLICES
  <2>1. a < total * NUM_SLICES
    <3>1. (c - 1) + 1 <= total /\ (c - 1) + 1 \in Int
      BY <1>1
    <3>2. ((c - 1) + 1) * NUM_SLICES <= total * NUM_SLICES
      BY <1>1, <3>1, TimesKeepsOrder
    <3>3. ((c - 1) + 1) * NUM_SLICES = (c - 1) * NUM_SLICES + NUM_SLICES
      BY <1>1
    <3> QED
      BY <1>1, <3>2, <3>3 DEF a
  <2>2. q * total < NUM_SLICES * total
    <3>1. total * NUM_SLICES = NUM_SLICES * total /\ q * total \in Int
          /\ NUM_SLICES * total \in Int
      BY <1>1, <1>3
    <3> QED
      BY <1>2, <1>3, <2>1, <3>1
  <2>3. ~(NUM_SLICES <= q)
    BY <1>1, <1>3, <2>2, TimesKeepsOrder
  <2> QED
    BY <1>1, <1>3, <2>3
<1>5. SliceAt(c, total) = q
  BY <1>1, <1>3, <1>4 DEF SliceAt, a, q
<1> QED
  BY <1>1, <1>3, <1>4, <1>5 DEF Slices, a

-----------------------------------------------------------------------------
(* The running count of a subject in its shard *)

LEMMA ShardIsSubjects ==
  ASSUME NEW k PROVE InShard(k) \in SUBSET Subjects
BY DEF InShard

\* A running count is at least one and at most the shard's total.
LEMMA CumulativeBounds ==
  ASSUME Measures, NEW k, NEW s \in InShard(k)
  PROVE  Cumulative(k, s) \in 1 .. Records(InShard(k)) /\ Records(InShard(k)) \in Nat
<1> DEFINE D == InShard(k)
           P == {t \in D : Before(t, s)}
           W == P \cup {s}
<1>1. D \in SUBSET Subjects /\ W \in SUBSET D /\ P \in SUBSET Subjects
      /\ s \in Subjects /\ s \notin P
  BY ShardIsSubjects, BeforeIsOrder
<1>2. Cumulative(k, s) = Records(W)
  BY DEF Cumulative
<1> HIDE DEF D
<1>3. Records(W) = counts[s] + Records(P)
  BY <1>1, RecordsOfOneMore
<1> HIDE DEF P
<1>4. Records(P) \in Nat
  BY <1>1, RecordsGrow
<1> HIDE DEF W
<1>5. Records(W) \in Nat /\ Records(D) \in Nat /\ Records(W) <= Records(D)
  BY <1>1, RecordsGrow
<1>6. counts[s] \in Nat \ {0}
  BY <1>1, MeasuresAreNumbers
<1> QED
  BY <1>2, <1>3, <1>4, <1>5, <1>6 DEF D

\* Whoever comes earlier has the smaller one.
LEMMA CumulativeGrows ==
  ASSUME Measures, NEW k, NEW s \in InShard(k), NEW t \in InShard(k), Before(s, t)
  PROVE  Cumulative(k, s) <= Cumulative(k, t)
<1> DEFINE W(u) == {r \in InShard(k) : Before(r, u)} \cup {u}
<1>1. W(t) \in SUBSET Subjects /\ W(s) \in SUBSET W(t)
  BY ShardIsSubjects, BeforeIsOrder
<1>2. Cumulative(k, s) = Records(W(s)) /\ Cumulative(k, t) = Records(W(t))
  BY DEF Cumulative
<1> HIDE DEF W
<1> QED
  BY <1>1, <1>2, RecordsGrow

\* The slice assign_slices gives.
Bucket(s) == SliceAt(Cumulative(shardOf[s], s), Records(InShard(shardOf[s])))

LEMMA BucketBounds ==
  ASSUME Measures, NEW s \in Subjects
  PROVE  LET total == Records(InShard(shardOf[s]))
             c == Cumulative(shardOf[s], s)
         IN  /\ Bucket(s) \in Slices /\ total \in Nat \ {0} /\ c \in 1 .. total
             /\ Bucket(s) * total <= (c - 1) * NUM_SLICES
             /\ (c - 1) * NUM_SLICES < (Bucket(s) + 1) * total
<1> DEFINE total == Records(InShard(shardOf[s]))
           c == Cumulative(shardOf[s], s)
<1>1. s \in InShard(shardOf[s])
  BY DEF InShard
<1>2. c \in 1 .. total /\ total \in Nat
  BY <1>1, CumulativeBounds
<1>3. Bucket(s) = SliceAt(c, total)
  BY DEF Bucket
<1> HIDE DEF c, total
<1>4. total \in Nat \ {0}
  BY <1>2
<1> QED
  BY <1>2, <1>3, <1>4, SliceAtBounds DEF c, total

\* Buckets keep to the order.
LEMMA BucketsAscend ==
  ASSUME Measures, NEW s \in Subjects, NEW t \in Subjects,
         shardOf[s] = shardOf[t], Before(s, t)
  PROVE  Bucket(s) <= Bucket(t)
<1> DEFINE total == Records(InShard(shardOf[s]))
           c == Cumulative(shardOf[s], s)
           d == Cumulative(shardOf[s], t)
           i == Bucket(s)
           j == Bucket(t)
<1>1. /\ i \in Nat /\ total \in Nat \ {0} /\ c \in Nat /\ c >= 1
      /\ i * total <= (c - 1) * NUM_SLICES
  BY BucketBounds, HotAndCold DEF Slices
<1>2. /\ j \in Nat /\ d \in Nat /\ d >= 1
      /\ (d - 1) * NUM_SLICES < (j + 1) * total
  BY BucketBounds, HotAndCold DEF Slices
<1>3. c <= d
  BY CumulativeGrows DEF InShard
<1> HIDE DEF total, c, d, i, j
<1>4. (c - 1) * NUM_SLICES <= (d - 1) * NUM_SLICES
  <2>1. c - 1 \in Int /\ d - 1 \in Int /\ c - 1 <= d - 1 /\ NUM_SLICES \in Nat \ {0}
    BY <1>1, <1>2, <1>3, HotAndCold
  <2> QED
    BY <2>1, TimesKeepsOrder
<1>5. i * total < (j + 1) * total
  <2>1. /\ i * total \in Int /\ (j + 1) * total \in Int
        /\ (c - 1) * NUM_SLICES \in Int /\ (d - 1) * NUM_SLICES \in Int
    BY <1>1, <1>2, HotAndCold
  <2> QED
    BY <1>1, <1>2, <1>4, <2>1
<1>6. ~(j + 1 <= i)
  <2>1. j + 1 \in Int /\ i \in Int /\ total \in Nat \ {0}
    BY <1>1, <1>2
  <2>2. i * total \in Int /\ (j + 1) * total \in Int
    BY <1>1, <1>2
  <2>3. j + 1 <= i <=> (j + 1) * total <= i * total
    BY <2>1, TimesKeepsOrder
  <2> QED
    BY <1>5, <2>2, <2>3
<1> QED
  BY <1>1, <1>2, <1>6 DEF i, j

LEMMA BucketsStay ==
  ASSUME UNCHANGED <<data, shardOf>>, NEW s \in Subjects PROVE Bucket(s)' = Bucket(s)
<1>1. counts' = counts /\ churn' = churn /\ shardOf' = shardOf
  BY DEF data
<1> DEFINE all(so) == {t \in Subjects : so[t] = so[s]}
           first(so, cu) == {t \in all(so) : cu[t] < cu[s] \/ (cu[t] = cu[s] /\ t < s)}
           bucket(so, cu, co) ==
             SliceAt(Total(co, first(so, cu) \cup {s}), Total(co, all(so)))
<1>2. Bucket(s) = bucket(shardOf, churn, counts)
  BY DEF Bucket, Cumulative, Records, Total, InShard, Before
<1>3. Bucket(s)' = bucket(shardOf', churn', counts')
  BY DEF Bucket, Cumulative, Records, Total, InShard, Before,
         SliceAt, FoldFunctionOnSet, MapThenFoldSet
<1> HIDE DEF bucket
<1> QED
  BY <1>1, <1>2, <1>3

-----------------------------------------------------------------------------
(* What build has done so far *)

Sharded == pc # "sharding" => shardOf = [s \in Subjects |-> AssignShard(s)]

\* The shards whose loop iteration is over, in slicing and in saving.
SlicedBefore(k) == pc \in {"saving", "routing", "built"} \/ (pc = "slicing" /\ k < shard)
SavedBefore(k) == pc \in {"routing", "built"} \/ (pc = "saving" /\ k < shard)

Sliced == \A s \in Subjects : SlicedBefore(shardOf[s]) => sliceOf[s] = Bucket(s)
Saved == \A k \in Shards : SavedBefore(k) => shardFile[k] = {EntryOf(s) : s \in InShard(k)}
Routed == routing = IF pc = "built" THEN {EntryOf(s) : s \in Subjects} ELSE {}

BuildInv ==
  /\ Measures
  /\ pc \in {"sharding", "slicing", "saving", "routing", "built"} /\ shard \in Shards
  /\ pc \in {"sharding", "routing"} => shard = 0
  /\ DOMAIN shardFile = Shards
  /\ Sharded /\ Sliced /\ Saved /\ Routed

-----------------------------------------------------------------------------
(* What the scripts leave behind *)

HasFirstSlice(k) == \E e \in shardFile[k] : e.slice = 0

Trained ==
  /\ DOMAIN preproc = Shards
  /\ \A k \in Shards : preproc[k] # "missing" => pc = "built" /\ HasFirstSlice(k)

Committed ==
  /\ shardMap # {} \/ baseline # {} => pc = "built" /\ shardMap = routing
  /\ BaselineIsWhole

Scripted == script # "none" => pc = "built"

BootInv ==
  /\ BuildInv
  /\ Scripted
  /\ Trained
  /\ Committed

-----------------------------------------------------------------------------
(* The steps of build *)

LEMMA AssignShardIsShard ==
  ASSUME Measures, NEW s \in Subjects
  PROVE  /\ AssignShard(s) \in Shards
         /\ AssignShard(s) < HOT_SHARDS <=> churn[s] >= HOT_THRESHOLD
<1> DEFINE h == stable_hash[s]
           c == churn[s]
<1>1. h \in Nat /\ c \in Nat
  BY Hashed, MeasuresAreNumbers
<1>2. /\ NUM_SHARDS \in Nat /\ HOT_SHARDS \in Nat \ {0} /\ HOT_SHARDS < NUM_SHARDS
      /\ NUM_SHARDS - HOT_SHARDS \in Nat \ {0} /\ HOT_THRESHOLD \in Nat
  BY HotAndCold, Measured
<1> DEFINE gap == NUM_SHARDS - HOT_SHARDS
<1>3. \A b \in Nat \ {0} : h % b \in 0 .. b - 1
  <2> HIDE DEF h
  <2> QED
    BY <1>1
<1>4. h % HOT_SHARDS \in 0 .. HOT_SHARDS - 1 /\ h % gap \in 0 .. gap - 1
  BY <1>2, <1>3
<1>5. AssignShard(s) = IF c >= HOT_THRESHOLD THEN h % HOT_SHARDS ELSE HOT_SHARDS + (h % gap)
  BY DEF AssignShard
<1>6. ASSUME NEW m, NEW n, m \in 0 .. HOT_SHARDS - 1, n \in 0 .. gap - 1
      PROVE  /\ m \in Shards /\ HOT_SHARDS + n \in Shards
             /\ m < HOT_SHARDS /\ ~(HOT_SHARDS + n < HOT_SHARDS)
  BY <1>2, <1>6 DEF Shards
<1> HIDE DEF c, h
<1> QED
  BY <1>4, <1>5, <1>6 DEF c

LEMMA ShardOfIsShard ==
  ASSUME Measures, Sharded, pc # "sharding", NEW s \in Subjects
  PROVE  /\ shardOf[s] = AssignShard(s) /\ shardOf[s] \in Shards
BY AssignShardIsShard DEF Sharded

\* The loop goes on, or is over because the shard was the last one.
LEMMA LoopBounds ==
  ASSUME shard \in Shards, NEW next, LoopTo(next)
  PROVE  \/ pc' = next /\ shard' = 0 /\ \A k \in Shards : k < shard \/ k = shard
         \/ /\ pc' = pc /\ shard' = shard + 1 /\ shard' \in Shards
            /\ \A k \in Shards : k < shard' => k < shard \/ k = shard
BY HotAndCold DEF LoopTo, Shards

LEMMA BuildInit == Init => BuildInv
<1> SUFFICES ASSUME Init PROVE BuildInv
  OBVIOUS
<1>1. shard \in Shards /\ pc = "sharding" /\ shard = 0 /\ routing = {}
      /\ DOMAIN shardFile = Shards /\ Measures
  BY HotAndCold DEF Init, Shards, Measures
<1>2. Sliced /\ Saved
  BY <1>1 DEF Sliced, Saved, SlicedBefore, SavedBefore
<1> QED
  BY <1>1, <1>2 DEF BuildInv, Sharded, Routed

LEMMA BuildStep == ASSUME BuildInv, Next PROVE BuildInv'
<1>0. Measures' /\ UNCHANGED data
  BY DEF BuildInv, Measures, Next, AssignAll, SliceShard, SaveShard, SaveRouting, data
<1>z. 0 \in Shards
  BY HotAndCold DEF Shards
<1> USE DEF BuildInv
<1>1. CASE AssignAll
  <2>1. pc = "sharding" /\ pc' = "slicing" /\ shard = 0 /\ UNCHANGED <<sliceOf, shardFile, routing, shard>>
    BY <1>1 DEF AssignAll
  <2>2. shardOf' = [s \in Subjects |-> AssignShard(s)] /\ \A s \in Subjects : AssignShard(s)' = AssignShard(s)
    BY <1>0, <1>1 DEF AssignAll, AssignShard, data
  <2>3. Sharded'
    BY <2>2 DEF Sharded
  <2>4. Sliced'
    <3>1. \A s \in Subjects : ~SlicedBefore(shardOf[s])'
      BY <2>1, <2>2, AssignShardIsShard DEF SlicedBefore, Shards
    <3> QED
      BY <3>1 DEF Sliced
  <2>5. Saved' /\ Routed'
    BY <2>1 DEF Saved, SavedBefore, Routed
  <2> QED
    BY <1>0, <2>1, <2>3, <2>4, <2>5
<1>2. CASE SliceShard
  <2>1. pc = "slicing" /\ LoopTo("saving") /\ UNCHANGED <<data, shardOf, shardFile, routing>>
    BY <1>2 DEF SliceShard
  <2>2. \/ pc' = "saving" /\ shard' = 0 /\ \A k \in Shards : k < shard \/ k = shard
        \/ /\ pc' = "slicing" /\ shard' = shard + 1 /\ shard' \in Shards
           /\ \A k \in Shards : k < shard' => k < shard \/ k = shard
    BY <2>1, LoopBounds
  <2>3. Sharded'
    BY <2>1 DEF Sharded, AssignShard, data
  <2>4. ASSUME NEW s \in Subjects PROVE sliceOf'[s] = IF shardOf[s] = shard THEN Bucket(s) ELSE sliceOf[s]
    BY <1>2 DEF SliceShard, AssignSlices, InShard, Bucket
  <2>5. Sliced'
    <3> SUFFICES ASSUME NEW s \in Subjects, SlicedBefore(shardOf[s])' PROVE sliceOf'[s] = Bucket(s)'
      BY DEF Sliced
    <3>1. shardOf[s] \in Shards /\ shardOf'[s] = shardOf[s]
      BY <2>1, ShardOfIsShard
    <3>2. shardOf[s] < shard \/ shardOf[s] = shard
      BY <2>2, <3>1 DEF SlicedBefore
    <3>3. shardOf[s] # shard => sliceOf[s] = Bucket(s)
      BY <2>1, <3>2 DEF Sliced, SlicedBefore
    <3>4. Bucket(s)' = Bucket(s)
      BY <2>1, BucketsStay
    <3> QED
      BY <2>4, <3>3, <3>4
  <2>6. Saved' /\ Routed'
    <3>1. \A k \in Shards : ~SavedBefore(k)'
      BY <2>2, HotAndCold DEF SavedBefore, Shards
    <3> QED
      BY <2>1, <2>2, <3>1 DEF Saved, Routed
  <2> QED
    BY <1>0, <1>z, <2>1, <2>2, <2>3, <2>5, <2>6
<1>3. CASE SaveShard
  <2>1. pc = "saving" /\ LoopTo("routing") /\ UNCHANGED <<data, shardOf, sliceOf, routing>>
        /\ shardFile' = [shardFile EXCEPT ![shard] = {EntryOf(s) : s \in InShard(shard)}]
    BY <1>3 DEF SaveShard
  <2>2. \/ pc' = "routing" /\ shard' = 0 /\ \A k \in Shards : k < shard \/ k = shard
        \/ /\ pc' = "saving" /\ shard' = shard + 1 /\ shard' \in Shards
           /\ \A k \in Shards : k < shard' => k < shard \/ k = shard
    BY <2>1, LoopBounds
  <2>3. Sharded'
    BY <2>1 DEF Sharded, AssignShard, data
  <2>4. Sliced'
    <3> SUFFICES ASSUME NEW s \in Subjects PROVE sliceOf'[s] = Bucket(s)'
      BY DEF Sliced
    <3>1. Bucket(s)' = Bucket(s)
      BY <2>1, BucketsStay
    <3> QED
      BY <2>1, <3>1 DEF Sliced, SlicedBefore
  <2>5. Saved'
    <3> SUFFICES ASSUME NEW k \in Shards, SavedBefore(k)'
                 PROVE  shardFile'[k] = {EntryOf(s) : s \in InShard(k)}'
      BY DEF Saved
    <3>1. {EntryOf(s) : s \in InShard(k)}' = {EntryOf(s) : s \in InShard(k)}
      BY <2>1 DEF EntryOf, InShard, data
    <3>2. k < shard \/ k = shard
      BY <2>2 DEF SavedBefore
    <3>3. k # shard => shardFile[k] = {EntryOf(s) : s \in InShard(k)}
      BY <2>1, <3>2 DEF Saved, SavedBefore
    <3> QED
      BY <2>1, <3>1, <3>3
  <2>6. Routed'
    BY <2>1, <2>2 DEF Routed
  <2> QED
    BY <1>0, <1>z, <2>1, <2>2, <2>3, <2>4, <2>5, <2>6
<1>4. CASE SaveRouting
  <2>1. pc = "routing" /\ pc' = "built" /\ UNCHANGED <<data, shardOf, sliceOf, shardFile, shard>>
        /\ routing' = {EntryOf(s) : s \in Subjects}
    BY <1>4 DEF SaveRouting
  <2>2. Sharded'
    BY <2>1 DEF Sharded, AssignShard, data
  <2>3. Sliced'
    <3> SUFFICES ASSUME NEW s \in Subjects PROVE sliceOf'[s] = Bucket(s)'
      BY DEF Sliced
    <3>1. Bucket(s)' = Bucket(s)
      BY <2>1, BucketsStay
    <3> QED
      BY <2>1, <3>1 DEF Sliced, SlicedBefore
  <2>4. Saved' /\ Routed'
    BY <2>1 DEF Saved, SavedBefore, Routed, EntryOf, InShard, data
  <2> QED
    BY <1>0, <2>1, <2>2, <2>3, <2>4
<1> QED
  BY <1>1, <1>2, <1>3, <1>4 DEF Next

\* A build started over has done nothing that counts, whatever files it left.
LEMMA BuildStartsOver == ASSUME BuildInv, BuildDies PROVE BuildInv'
<1>1. pc # "built" /\ pc' = "sharding" /\ shard' = 0 /\ DOMAIN shardFile' = Shards
      /\ UNCHANGED <<data, routing>>
  BY DEF BuildInv, BuildDies
<1>2. shard' \in Shards /\ Measures'
  BY <1>1, HotAndCold DEF BuildInv, Measures, Shards, data
<1>3. Sharded' /\ Sliced' /\ Saved' /\ Routed'
  BY <1>1 DEF BuildInv, Sharded, Sliced, Saved, Routed, SlicedBefore, SavedBefore
<1> QED
  BY <1>1, <1>2, <1>3 DEF BuildInv

-----------------------------------------------------------------------------
(* The steps of the scripts *)

\* After build, nothing it made changes any more.
LEMMA BuiltStays ==
  ASSUME BuildInv, pc = "built", shard' \in Shards,
         UNCHANGED <<data, shardOf, sliceOf, shardFile, routing, pc>>
  PROVE  BuildInv'
<1>1. Measures' /\ Sharded' /\ Routed'
  BY DEF BuildInv, Measures, Sharded, Routed, AssignShard, EntryOf, data
<1>2. Saved'
  BY DEF BuildInv, Saved, SavedBefore, EntryOf, InShard, data
<1>3. Sliced'
  <2> SUFFICES ASSUME NEW s \in Subjects PROVE sliceOf'[s] = Bucket(s)'
    BY DEF Sliced
  <2>1. Bucket(s)' = Bucket(s)
    BY BucketsStay
  <2> QED
    BY <2>1 DEF BuildInv, Sliced, SlicedBefore
<1> QED
  BY <1>1, <1>2, <1>3 DEF BuildInv

LEMMA StopOrNext ==
  ASSUME shard \in Shards, NEW after
  PROVE  /\ NextShard(after) => shard' \in Shards
         /\ Stop => shard' \in Shards
BY HotAndCold DEF NextShard, Stop, Shards

\* A script that runs touches neither what build made nor the committed tables,
\* unless it commits.
LEMMA ScriptsAfterBuild ==
  ASSUME BuildInv, Scripted,
         Begin("train") \/ Begin("load") \/ TrainShard \/ LoadShard \/ EvalAndCommit \/ Die
  PROVE  /\ BuildInv' /\ Scripted' /\ pc = "built"
         /\ UNCHANGED <<data, shardOf, sliceOf, shardFile, routing, pc>>
<1>1. pc = "built" /\ UNCHANGED <<data, shardOf, sliceOf, shardFile, routing, pc>>
  BY DEF Scripted, Begin, TrainShard, LoadShard, EvalAndCommit, Die, vars
<1>2. shard' \in Shards
  BY StopOrNext DEF BuildInv, Begin, TrainShard, LoadShard, EvalAndCommit, Die, vars
<1> QED
  BY <1>1, <1>2, BuiltStays DEF Scripted

LEMMA TrainedStays ==
  ASSUME Trained, UNCHANGED <<preproc, shardFile>>, pc = "built" => pc' = "built"
  PROVE  Trained'
BY DEF Trained, HasFirstSlice

\* A preprocessor is written only for a shard with a first slice.
LEMMA OnlyTrainable ==
  ASSUME Trained, pc = "built", UNCHANGED <<shardFile, pc>>, HasFirstSlice(shard),
         NEW v, preproc' = [preproc EXCEPT ![shard] = v]
  PROVE  Trained'
BY DEF Trained, HasFirstSlice

LEMMA TrainedKept ==
  ASSUME Trained, pc = "built", UNCHANGED <<shardFile, pc>>,
         Begin("train") \/ Begin("load") \/ TrainShard \/ LoadShard \/ EvalAndCommit \/ Die
  PROVE  Trained'
<1>1. CASE UNCHANGED preproc
  BY <1>1, TrainedStays
<1>2. CASE ~UNCHANGED preproc
  <2>1. TrainShard \/ Die
    BY <1>2 DEF Begin, LoadShard, EvalAndCommit
  <2>2. HasFirstSlice(shard) /\ \E v \in FileStates : preproc' = [preproc EXCEPT ![shard] = v]
    BY <1>2, <2>1 DEF TrainShard, Die, HasFirstSlice, FileStates
  <2> QED
    BY <2>2, OnlyTrainable
<1> QED
  BY <1>1, <1>2

\* What is committed stays true as long as copies are only added.
LEMMA CommittedStays ==
  ASSUME Committed, UNCHANGED <<tables, routing, shardFile, pc>>, cas \subseteq cas'
  PROVE  Committed'
BY DEF Committed, BaselineIsWhole, tables

LEMMA CommitsWhole ==
  ASSUME BuildInv, Trained, Committed, EvalAndCommit, pc = "built",
         UNCHANGED <<shardFile, routing, pc>>
  PROVE  Committed'
<1>1. CASE ~EvalLoads
  BY <1>1, CommittedStays DEF EvalAndCommit
<1>2. CASE EvalLoads
  <2>1. UNCHANGED <<cas, live>>
        /\ shardMap' = {e \in shardMap : \A r \in routing : r.subject # e.subject} \cup routing
        /\ baseline' = IF baseline = {} THEN {Checkpoints} ELSE baseline
    BY <1>2 DEF EvalAndCommit
  <2>2. shardMap' = routing
    <3>1. shardMap = {} \/ shardMap = routing
      BY DEF Committed
    <3> QED
      BY <2>1, <3>1
  <2>3. routing = {EntryOf(s) : s \in Subjects}
    BY DEF BuildInv, Routed
  <2>4. {e.subject : e \in routing} = Subjects
    <3>1. \A s \in Subjects : EntryOf(s).subject = s
      BY DEF EntryOf
    <3> QED
      BY <2>3, <3>1
  <2>5. ASSUME NEW k \in Shards
        PROVE  /\ \E e \in shardFile[k] : e.slice = 0
               /\ Checkpoints[k] = "whole"
               /\ [shard |-> k, of |-> Checkpoints[k], whole |-> TRUE] \in cas
    BY <1>2 DEF EvalLoads, Trained, HasFirstSlice
  <2>6. \A cks \in baseline' : \A k \in Shards :
          /\ \E e \in shardFile[k] : e.slice = 0
          /\ cks[k] = "whole"
          /\ [shard |-> k, of |-> cks[k], whole |-> TRUE] \in cas
    BY <2>1, <2>5 DEF Committed, BaselineIsWhole
  <2>7. BaselineIsWhole'
    BY <2>1, <2>2, <2>4, <2>6 DEF BaselineIsWhole
  <2> QED
    BY <2>2, <2>7 DEF Committed
<1> QED
  BY <1>1, <1>2

LEMMA BootStart == BootInit => BootInv
<1> SUFFICES ASSUME BootInit PROVE BootInv
  OBVIOUS
<1>1. BuildInv
  BY BuildInit DEF BootInit
<1>2. Trained /\ Committed
  BY DEF BootInit, Trained, Committed, BaselineIsWhole
<1> QED
  BY <1>1, <1>2 DEF BootInv, BootInit, Scripted

LEMMA BootStep == ASSUME BootInv, [BootNext]_bootVars PROVE BootInv'
<1>0. BuildInv /\ Scripted /\ Trained /\ Committed
  BY DEF BootInv
<1>1. CASE Build \/ BuildDies
  <2>1. BuildInv' /\ UNCHANGED <<script, preproc, cas, tables>> /\ pc # "built"
    BY <1>0, <1>1, BuildStep, BuildStartsOver
      DEF Build, BuildDies, Next, AssignAll, SliceShard, SaveShard, SaveRouting
  <2>2. script = "none" /\ shardMap = {} /\ baseline = {}
        /\ \A k \in Shards : preproc[k] = "missing"
    BY <1>0, <2>1 DEF Scripted, Trained, Committed
  <2>3. Trained' /\ Committed'
    BY <1>0, <2>1, <2>2 DEF Trained, Committed, BaselineIsWhole, tables
  <2> QED
    BY <2>1, <2>2, <2>3 DEF BootInv, Scripted
<1>2. CASE Begin("train") \/ Begin("load") \/ TrainShard \/ LoadShard \/ EvalAndCommit \/ Die
  <2>1. BuildInv' /\ Scripted' /\ pc = "built" /\ UNCHANGED <<shardFile, routing, pc>>
    BY <1>0, <1>2, ScriptsAfterBuild
  <2>2. Trained'
    BY <1>0, <1>2, <2>1, TrainedKept
  <2>3. Committed'
    <3>1. CASE EvalAndCommit
      BY <1>0, <2>1, <3>1, CommitsWhole
    <3>2. CASE ~EvalAndCommit
      <4>1. UNCHANGED tables /\ cas \subseteq cas'
        BY <1>2, <3>2 DEF Begin, TrainShard, LoadShard, Die
      <4> QED
        BY <1>0, <2>1, <4>1, CommittedStays
    <3> QED
      BY <3>1, <3>2
  <2> QED
    BY <2>1, <2>2, <2>3 DEF BootInv, Scripted
<1>3. CASE UNCHANGED bootVars
  <2>1. UNCHANGED <<data, shardOf, sliceOf, shardFile, routing, pc, shard, script, preproc, cas, tables>>
    BY <1>3 DEF bootVars, vars
  <2>2. BuildInv'
    <3>1. Measures' /\ Sharded' /\ Routed'
      BY <1>0, <2>1 DEF BuildInv, Measures, Sharded, Routed, AssignShard, EntryOf, data
    <3>2. Saved'
      BY <1>0, <2>1 DEF BuildInv, Saved, SavedBefore, EntryOf, InShard, data
    <3>3. Sliced'
      <4> SUFFICES ASSUME NEW s \in Subjects, SlicedBefore(shardOf[s])'
                   PROVE  sliceOf'[s] = Bucket(s)'
        BY DEF Sliced
      <4>1. Bucket(s)' = Bucket(s)
        BY <2>1, BucketsStay
      <4> QED
        BY <1>0, <2>1, <4>1 DEF BuildInv, Sliced, SlicedBefore
    <3> QED
      BY <1>0, <2>1, <3>1, <3>2, <3>3 DEF BuildInv
  <2>3. Trained' /\ Committed'
    BY <1>0, <2>1, TrainedStays, CommittedStays
  <2> QED
    BY <1>0, <2>1, <2>2, <2>3 DEF BootInv, Scripted
<1> QED
  BY <1>1, <1>2, <1>3 DEF BootNext

LEMMA BootInvariant == BootSpec => []BootInv
<1> QED
  BY BootStart, BootStep, PTL DEF BootSpec

-----------------------------------------------------------------------------
(* What follows *)

\* v0-baseline, whatever dies and is run again, is committed only over models
\* that load and a subject_shard_map that says what routing.json says.
THEOREM BaselineStandsOnModels == BootSpec => []BaselineIsWhole
<1>1. BootInv => BaselineIsWhole
  BY DEF BootInv, Committed
<1> QED
  BY <1>1, BootInvariant, PTL

\* A built assignment never puts a subject in an earlier slice than one that
\* comes before it in the order of churn and id.
LEMMA BuiltAscends == BuildInv => ChurnAscends
<1> SUFFICES ASSUME BuildInv, pc = "built", NEW s \in Subjects, NEW t \in Subjects,
                    shardOf[s] = shardOf[t],
                    churn[s] < churn[t] \/ (churn[s] = churn[t] /\ s < t)
             PROVE  sliceOf[s] <= sliceOf[t]
  BY DEF ChurnAscends
<1>1. sliceOf[s] = Bucket(s) /\ sliceOf[t] = Bucket(t) /\ Measures
  BY DEF BuildInv, Sliced, SlicedBefore
<1> QED
  BY <1>1, BucketsAscend DEF Before

\* The subjects likeliest to leave are in the last slices of their shard.
THEOREM LastSlicesChurn == BootSpec => []ChurnAscends
<1>1. BootInv => ChurnAscends
  BY BuiltAscends DEF BootInv
<1> QED
  BY <1>1, BootInvariant, PTL

-----------------------------------------------------------------------------
(* Every subject in one place *)

LEMMA EntryNamesItsSubject ==
  \A s, t : EntryOf(s) = EntryOf(t) => s = t
<1>1. \A s : EntryOf(s).subject = s
  BY DEF EntryOf
<1> QED
  BY <1>1

LEMMA AsManyEntries ==
  ASSUME IsFiniteSet(Subjects)
  PROVE  Cardinality({EntryOf(s) : s \in Subjects}) = Cardinality(Subjects)
<1> DEFINE T == {EntryOf(s) : s \in Subjects}
           f == [s \in Subjects |-> EntryOf(s)]
<1>1. f \in Bijection(Subjects, T)
  BY EntryNamesItsSubject DEF Bijection, Injection, Surjection, IsInjective
<1>2. ExistsBijection(Subjects, T)
  BY <1>1 DEF ExistsBijection
<1> HIDE DEF T
<1>3. Cardinality(T) = Cardinality(Subjects)
  BY <1>2, FS_Bijection
<1> QED
  BY <1>3 DEF T

LEMMA BuiltAssignment == BuildInv => AssignmentTypeOK
<1> SUFFICES ASSUME BuildInv PROVE AssignmentTypeOK
  OBVIOUS
<1>1. CASE pc # "built"
  BY <1>1 DEF BuildInv, Routed, AssignmentTypeOK
<1>2. CASE pc = "built"
  <2>1. Measures /\ IsFiniteSet(Subjects) /\ routing = {EntryOf(s) : s \in Subjects}
    BY <1>2, MeasuresAreNumbers DEF BuildInv, Routed
  <2>2. ASSUME NEW s \in Subjects
        PROVE  /\ shardOf[s] \in Shards /\ sliceOf[s] \in Slices /\ counts[s] \in Counts
               /\ shardOf[s] < HOT_SHARDS <=> churn[s] >= HOT_THRESHOLD
    <3>1. shardOf[s] = AssignShard(s) /\ shardOf[s] \in Shards
      BY <1>2, <2>1, ShardOfIsShard DEF BuildInv
    <3>2. sliceOf[s] = Bucket(s) /\ Bucket(s) \in Slices
      BY <1>2, <2>1, BucketBounds DEF BuildInv, Sliced, SlicedBefore
    <3>3. AssignShard(s) < HOT_SHARDS <=> churn[s] >= HOT_THRESHOLD
      BY <2>1, AssignShardIsShard
    <3>4. counts[s] \in Counts
      BY <2>1 DEF Measures
    <3> QED
      BY <3>1, <3>2, <3>3, <3>4
  <2>3. ASSUME NEW s \in Subjects
        PROVE  /\ EntryOf(s) \in Entry /\ EntryOf(s).subject = s
               /\ EntryOf(s).shard = shardOf[s]
               /\ EntryOf(s) \in shardFile[shardOf[s]]
    <3>1. shardFile[shardOf[s]] = {EntryOf(t) : t \in InShard(shardOf[s])}
      BY <1>2, <2>2 DEF BuildInv, Saved, SavedBefore
    <3>2. s \in InShard(shardOf[s])
      BY DEF InShard
    <3>3. EntryOf(s) \in Entry /\ EntryOf(s).subject = s /\ EntryOf(s).shard = shardOf[s]
      BY <2>2 DEF EntryOf, Entry
    <3> QED
      BY <3>1, <3>2, <3>3
  <2>4. routing \subseteq Entry
    BY <2>1, <2>3
  <2>5. routing = UNION {shardFile[k] : k \in Shards}
    <3>1. \A k \in Shards : shardFile[k] \subseteq routing
      BY <1>2, <2>1 DEF BuildInv, Saved, SavedBefore, InShard
    <3>2. \A e \in routing : \E k \in Shards : e \in shardFile[k]
      BY <2>1, <2>2, <2>3
    <3> QED
      BY <3>1, <3>2
  <2>6. {e.subject : e \in routing} = Subjects
    BY <2>1, <2>3
  <2>7. Cardinality(routing) = Cardinality(Subjects)
    BY <2>1, AsManyEntries
  <2>8. \A e \in routing :
          /\ e \in shardFile[e.shard]
          /\ e.shard < HOT_SHARDS <=> churn[e.subject] >= HOT_THRESHOLD
    <3> SUFFICES ASSUME NEW s \in Subjects
                 PROVE  /\ EntryOf(s) \in shardFile[EntryOf(s).shard]
                        /\ EntryOf(s).shard < HOT_SHARDS
                             <=> churn[EntryOf(s).subject] >= HOT_THRESHOLD
      BY <2>1
    <3> QED
      BY <2>2, <2>3
  <2> QED
    BY <2>4, <2>5, <2>6, <2>7, <2>8 DEF AssignmentTypeOK
<1> QED
  BY <1>1, <1>2

\* build ends with every subject in one shard and one slice, hot ones in hot
\* shards, and routing.json saying of each what the shard files say.
THEOREM EverySubjectIsPlaced == BootSpec => []AssignmentTypeOK
<1>1. BootInv => AssignmentTypeOK
  BY BuiltAssignment DEF BootInv
<1> QED
  BY <1>1, BootInvariant, PTL

-----------------------------------------------------------------------------
(* The records of a slice *)

\* The subjects of a shard in the slices before j.
Prefix(k, j) == {s \in InShard(k) : Bucket(s) < j}

LEMMA PrefixRecords ==
  ASSUME Measures, NEW k, NEW j
  PROVE  /\ Prefix(k, j) \in SUBSET InShard(k) /\ Prefix(k, j) \in SUBSET Subjects
         /\ Records(Prefix(k, j)) \in Nat /\ Records(InShard(k)) \in Nat
<1>1. Prefix(k, j) \in SUBSET InShard(k) /\ InShard(k) \in SUBSET Subjects
  BY ShardIsSubjects DEF Prefix
<1> QED
  BY <1>1, RecordsGrow

\* A prefix holds less than one record more than its shares.
LEMMA PrefixIsNotLong ==
  ASSUME Measures, NEW k, NEW j \in Nat
  PROVE  NUM_SLICES * (Records(Prefix(k, j)) - 1) < j * Records(InShard(k))
<1> DEFINE D == InShard(k)
           P == Prefix(k, j)
           total == Records(D)
           p == Records(P)
<1>1. p \in Nat /\ total \in Nat /\ NUM_SLICES \in Nat \ {0} /\ j * total \in Nat
      /\ P \in SUBSET D /\ P \in SUBSET Subjects
  <2>1. p \in Nat /\ total \in Nat /\ P \in SUBSET D /\ P \in SUBSET Subjects
    BY PrefixRecords
  <2> HIDE DEF total
  <2> QED
    BY <2>1, HotAndCold
<1>2. CASE P = {}
  <2>1. p = 0
    BY <1>2, RecordsOfNobody
  <2> HIDE DEF p, total
  <2> QED
    BY <1>1, <2>1 DEF p, total
<1>3. CASE P # {}
  <2>1. PICK t \in P : \A u \in P : ~Before(t, u)
    BY <1>1, <1>3, LastOf
  <2>2. t \in Subjects /\ shardOf[t] = k /\ Bucket(t) < j
    BY <1>1 DEF Prefix, InShard
  <2>3. P = {u \in D : Before(u, t)} \cup {t}
    <3>1. ASSUME NEW u \in D, Before(u, t) PROVE u \in P
      <4>1. u \in Subjects /\ shardOf[u] = k
        BY DEF InShard
      <4>2. Bucket(u) <= Bucket(t) /\ Bucket(u) \in Int /\ Bucket(t) \in Int
        BY <2>2, <3>1, <4>1, BucketsAscend, BucketBounds DEF Slices
      <4> QED
        BY <2>2, <4>2 DEF Prefix
    <3>2. ASSUME NEW u \in P PROVE u \in D /\ (Before(u, t) \/ u = t)
      BY <1>1, <2>1, <2>2, BeforeIsOrder
    <3> QED
      BY <3>1, <3>2
  <2>4. p = Cumulative(k, t)
    BY <2>3 DEF Cumulative
  <2>5. /\ Bucket(t) \in Nat
        /\ (Cumulative(k, t) - 1) * NUM_SLICES < (Bucket(t) + 1) * total
    BY <2>2, BucketBounds, HotAndCold DEF Slices
  <2> DEFINE b == Bucket(t) + 1
  <2> HIDE DEF D, P, p, total
  <2>6. (p - 1) * NUM_SLICES < b * total /\ b \in Nat /\ b <= j
    BY <2>2, <2>4, <2>5
  <2> HIDE DEF b
  <2>7. b * total <= j * total
    <3>1. CASE total = 0
      BY <1>1, <2>6, <3>1
    <3>2. CASE total # 0
      BY <1>1, <2>6, <3>2, TimesKeepsOrder
    <3> QED
      BY <3>1, <3>2
  <2>8. (p - 1) * NUM_SLICES = NUM_SLICES * (p - 1) /\ b * total \in Int
        /\ (p - 1) * NUM_SLICES \in Int
    BY <1>1, <2>6
  <2>9. NUM_SLICES * (p - 1) < j * total
    BY <1>1, <2>6, <2>7, <2>8
  <2> QED
    BY <2>9 DEF D, P, p, total
<1> QED
  BY <1>2, <1>3

\* With the next subject it holds more than its shares.
LEMMA PrefixIsNotShort ==
  ASSUME Measures, NEW k, NEW j \in 0 .. NUM_SLICES, InShard(k) # {}
  PROVE  \E t \in InShard(k) :
           j * Records(InShard(k)) <= NUM_SLICES * (Records(Prefix(k, j)) + counts[t] - 1)
<1> DEFINE D == InShard(k)
           P == Prefix(k, j)
           total == Records(D)
           p == Records(P)
<1>1. /\ p \in Nat /\ total \in Nat /\ NUM_SLICES \in Nat \ {0} /\ j \in Nat /\ j <= NUM_SLICES
      /\ P \in SUBSET D /\ P \in SUBSET Subjects /\ D \in SUBSET Subjects
  BY PrefixRecords, ShardIsSubjects, HotAndCold
<1>2. CASE P = D
  <2>1. PICK t \in D : TRUE
    OBVIOUS
  <2>2. counts[t] \in Nat \ {0} /\ p = total
    BY <1>1, <1>2, MeasuresAreNumbers
  <2> DEFINE c == counts[t]
             q == total + c - 1
  <2> HIDE DEF total, p, D, P, c
  <2>3. q \in Nat /\ total <= q
    BY <1>1, <2>2 DEF c
  <2>4. j * total <= NUM_SLICES * total
    <3>1. CASE total = 0
      BY <1>1, <3>1
    <3>2. CASE total # 0
      BY <1>1, <3>2, TimesKeepsOrder
    <3> QED
      BY <3>1, <3>2
  <2> HIDE DEF q
  <2>5. NUM_SLICES * total <= NUM_SLICES * q
    <3>1. total * NUM_SLICES <= q * NUM_SLICES
      BY <1>1, <2>3, TimesKeepsOrder
    <3> QED
      BY <1>1, <2>3, <3>1
  <2>6. j * total <= NUM_SLICES * q
    <3>1. j * total \in Int /\ NUM_SLICES * total \in Int /\ NUM_SLICES * q \in Int
      BY <1>1, <2>3
    <3> QED
      BY <2>4, <2>5, <3>1
  <2>7. j * total <= NUM_SLICES * (p + c - 1)
    BY <2>2, <2>6 DEF q
  <2> QED
    BY <2>1, <2>7 DEF D, P, p, total, c
<1>3. CASE P # D
  <2> DEFINE E == D \ P
  <2>1. E \in SUBSET Subjects /\ E # {}
    BY <1>1, <1>3
  <2>2. PICK t \in E : \A u \in E : ~Before(u, t)
    <3> HIDE DEF E
    <3> QED
      BY <2>1, FirstOf
  <2>3. t \in D /\ t \in Subjects /\ shardOf[t] = k /\ ~(Bucket(t) < j)
    BY <2>2, <1>1 DEF Prefix, InShard
  <2>4. P = {u \in D : Before(u, t)}
    <3>1. ASSUME NEW u \in P PROVE Before(u, t)
      <4>1. u \in Subjects /\ shardOf[u] = k /\ Bucket(u) < j
        BY <1>1 DEF Prefix, InShard
      <4>2. /\ Bucket(u) \in Int /\ Bucket(t) \in Int
            /\ Before(t, u) => Bucket(t) <= Bucket(u)
        BY <2>3, <4>1, BucketsAscend, BucketBounds DEF Slices
      <4>3. ~Before(t, u) /\ u # t
        BY <1>1, <2>3, <4>1, <4>2
      <4> QED
        BY <2>3, <4>1, <4>3, BeforeIsOrder
    <3>2. ASSUME NEW u \in D, Before(u, t) PROVE u \in P
      BY <2>2, <3>2
    <3> QED
      BY <1>1, <3>1, <3>2
  <2>5. Cumulative(k, t) = p + counts[t]
    <3>1. Cumulative(k, t) = Records(P \cup {t})
      BY <2>4 DEF Cumulative
    <3>2. t \notin P
      BY <2>2
    <3>3. Records(P \cup {t}) = counts[t] + Records(P)
      <4> HIDE DEF P
      <4> QED
        BY <1>1, <2>3, <3>2, RecordsOfOneMore
    <3>4. counts[t] \in Nat
      BY <2>3, MeasuresAreNumbers
    <3> QED
      BY <1>1, <3>1, <3>3, <3>4
  <2>6. /\ Bucket(t) \in Nat /\ counts[t] \in Nat \ {0}
        /\ Bucket(t) * total <= (Cumulative(k, t) - 1) * NUM_SLICES
    BY <2>3, BucketBounds, HotAndCold, MeasuresAreNumbers DEF Slices
  <2> DEFINE b == Bucket(t)
             q == p + counts[t] - 1
  <2> HIDE DEF D, P, p, total
  <2>7. b * total <= q * NUM_SLICES /\ b \in Nat /\ q \in Nat /\ j <= b
    BY <1>1, <2>3, <2>5, <2>6
  <2> HIDE DEF b, q
  <2>8. j * total <= b * total
    <3>1. CASE total = 0
      BY <1>1, <2>7, <3>1
    <3>2. CASE total # 0
      BY <1>1, <2>7, <3>2, TimesKeepsOrder
    <3> QED
      BY <3>1, <3>2
  <2>9. j * total <= NUM_SLICES * q
    <3>1. j * total \in Int /\ b * total \in Int /\ NUM_SLICES * q \in Int
          /\ q * NUM_SLICES = NUM_SLICES * q
      BY <1>1, <2>7
    <3> QED
      BY <2>7, <2>8, <3>1
  <2> QED
    BY <2>3, <2>9 DEF D, P, p, total, q
<1> QED
  BY <1>2, <1>3

\* One more record, of as many slices, is worth as many.
LEMMA TimesSpreads ==
  ASSUME NEW n \in Nat, NEW x \in Int, NEW y \in Int
  PROVE  /\ n * (x + y) = n * x + n * y /\ n * (x - y) = n * x - n * y
         /\ n * (x - 1) = n * x - n /\ (x + 1) * y = x * y + y
         /\ n * x \in Int /\ n * y \in Int /\ x * y \in Int
OBVIOUS

\* What lies between two prefixes is a share, up to the largest subject.
LEMMA SliceIsAShare ==
  ASSUME Measures, NEW k, InShard(k) # {}, NEW i \in Slices
  PROVE  \E big \in InShard(k) :
           LET total == Records(InShard(k))
               here == Records({s \in InShard(k) : Bucket(s) = i})
           IN  /\ NUM_SLICES * (here - counts[big]) < total
               /\ NUM_SLICES * (here + counts[big]) > total
<1> DEFINE D == InShard(k)
           H == {s \in D : Bucket(s) = i}
           total == Records(D)
           here == Records(H)
           p == Records(Prefix(k, i))
           q == Records(Prefix(k, i + 1))
<1>1. NUM_SLICES \in Nat /\ NUM_SLICES >= 1 /\ i \in Nat /\ i \in 0 .. NUM_SLICES /\ i + 1 \in 0 .. NUM_SLICES
  BY HotAndCold DEF Slices
<1>2. p \in Nat /\ q \in Nat /\ total \in Nat /\ here \in Nat /\ q = p + here
  <2>1. \A s \in D : Bucket(s) \in Int
    BY ShardIsSubjects, BucketBounds DEF Slices
  <2>2. Prefix(k, i) \in SUBSET Prefix(k, i + 1) /\ Prefix(k, i + 1) \ Prefix(k, i) = H
        /\ Prefix(k, i + 1) \in SUBSET Subjects
    BY <1>1, <2>1, ShardIsSubjects DEF Prefix
  <2> HIDE DEF H, D
  <2> QED
    BY <2>2, RecordsGrow, PrefixRecords DEF D
<1>3. PICK t \in D : i * total <= NUM_SLICES * (p + counts[t] - 1)
  BY <1>1, PrefixIsNotShort
<1>4. PICK u \in D : (i + 1) * total <= NUM_SLICES * (q + counts[u] - 1)
  BY <1>1, PrefixIsNotShort
<1>5. NUM_SLICES * (p - 1) < i * total /\ NUM_SLICES * (q - 1) < (i + 1) * total
  BY <1>1, PrefixIsNotLong
<1>6. counts[t] \in Nat /\ counts[u] \in Nat
  BY MeasuresAreNumbers, ShardIsSubjects
<1> DEFINE a == counts[t]
           b == counts[u]
           Np == NUM_SLICES * p
           Nh == NUM_SLICES * here
           Na == NUM_SLICES * a
           Nb == NUM_SLICES * b
           it == i * total
<1> HIDE DEF D, total, here, p, q, a, b
<1>7. /\ Np \in Int /\ Nh \in Int /\ Na \in Int /\ Nb \in Int /\ it \in Int
      /\ NUM_SLICES * (here - a) = Nh - Na /\ NUM_SLICES * (here + a) = Nh + Na
      /\ NUM_SLICES * (here - b) = Nh - Nb /\ NUM_SLICES * (here + b) = Nh + Nb
      /\ (i + 1) * total = it + total
      /\ NUM_SLICES * (p - 1) = Np - NUM_SLICES
      /\ NUM_SLICES * (q - 1) = Np + Nh - NUM_SLICES
      /\ NUM_SLICES * (p + a - 1) = Np + Na - NUM_SLICES
      /\ NUM_SLICES * (q + b - 1) = Np + Nh + Nb - NUM_SLICES
  <2>1. a \in Int /\ b \in Int /\ here \in Int /\ p \in Int /\ q \in Int /\ i \in Int
        /\ total \in Int /\ p + a \in Int /\ q + b \in Int /\ q = p + here
    BY <1>1, <1>2, <1>6 DEF a, b
  <2>2. Np \in Int /\ Nh \in Int /\ Na \in Int /\ Nb \in Int /\ it \in Int
    BY <1>1, <2>1
  <2>3. /\ NUM_SLICES * (here - a) = Nh - Na /\ NUM_SLICES * (here + a) = Nh + Na
        /\ NUM_SLICES * (here - b) = Nh - Nb /\ NUM_SLICES * (here + b) = Nh + Nb
    BY <1>1, <2>1, TimesSpreads
  <2>4. (i + 1) * total = it + total
    BY <1>1, <2>1, TimesSpreads
  <2>5. NUM_SLICES * (p - 1) = Np - NUM_SLICES
    BY <1>1, <2>1, TimesSpreads
  <2>6. NUM_SLICES * q = Np + Nh /\ NUM_SLICES * (q - 1) = NUM_SLICES * q - NUM_SLICES
    BY <1>1, <2>1, TimesSpreads
  <2>7. NUM_SLICES * (p + a) = Np + Na
        /\ NUM_SLICES * (p + a - 1) = NUM_SLICES * (p + a) - NUM_SLICES
    BY <1>1, <2>1, TimesSpreads
  <2>8. NUM_SLICES * (q + b) = NUM_SLICES * q + Nb
        /\ NUM_SLICES * (q + b - 1) = NUM_SLICES * (q + b) - NUM_SLICES
    BY <1>1, <2>1, TimesSpreads
  <2> HIDE DEF Np, Nh, Na, Nb, it
  <2>9. NUM_SLICES * (q - 1) = Np + Nh - NUM_SLICES
    BY <1>1, <2>2, <2>6
  <2>10. NUM_SLICES * (p + a - 1) = Np + Na - NUM_SLICES
    BY <1>1, <2>2, <2>7
  <2>11. NUM_SLICES * (q + b - 1) = Np + Nh + Nb - NUM_SLICES
    <3>1. NUM_SLICES * (q + b) = Np + Nh + Nb
      BY <1>1, <2>2, <2>6, <2>8
    <3> QED
      BY <1>1, <2>2, <2>8, <3>1
  <2> QED
    BY <2>2, <2>3, <2>4, <2>5, <2>9, <2>10, <2>11
<1>8. /\ it <= Np + Na - NUM_SLICES /\ it + total <= Np + Nh + Nb - NUM_SLICES
      /\ Np - NUM_SLICES < it /\ Np + Nh - NUM_SLICES < it + total
  BY <1>3, <1>4, <1>5, <1>7 DEF a, b
<1> HIDE DEF Np, Nh, Na, Nb, it
<1>9. Nh - Na < total /\ Nh + Nb > total
  BY <1>1, <1>2, <1>7, <1>8
<1>10. a <= b => Na <= Nb
  <2> USE DEF Na, Nb
  <2>1. a \in Int /\ b \in Int /\ NUM_SLICES \in Nat \ {0}
    BY <1>1, <1>6 DEF a, b
  <2>2. a <= b <=> a * NUM_SLICES <= b * NUM_SLICES
    BY <2>1, TimesKeepsOrder
  <2>3. a * NUM_SLICES = NUM_SLICES * a /\ b * NUM_SLICES = NUM_SLICES * b
    BY <2>1
  <2> QED
    BY <2>2, <2>3
<1>11. b <= a => Nb <= Na
  <2> USE DEF Na, Nb
  <2>1. a \in Int /\ b \in Int /\ NUM_SLICES \in Nat \ {0}
    BY <1>1, <1>6 DEF a, b
  <2>2. b <= a <=> b * NUM_SLICES <= a * NUM_SLICES
    BY <2>1, TimesKeepsOrder
  <2>3. a * NUM_SLICES = NUM_SLICES * a /\ b * NUM_SLICES = NUM_SLICES * b
    BY <2>1
  <2> QED
    BY <2>2, <2>3
<1>12. a <= b \/ b <= a
  BY <1>6 DEF a, b
<1>13. CASE a <= b
  <2>1. Nh - Nb < total /\ Nh + Nb > total
    BY <1>2, <1>7, <1>9, <1>10, <1>13
  <2>2. NUM_SLICES * (here - b) < total /\ NUM_SLICES * (here + b) > total
    BY <1>7, <2>1
  <2> QED
    BY <2>2 DEF D, H, total, here, b
<1>14. CASE b <= a
  <2>1. Nh - Na < total /\ Nh + Na > total
    BY <1>2, <1>7, <1>9, <1>11, <1>14
  <2>2. NUM_SLICES * (here - a) < total /\ NUM_SLICES * (here + a) > total
    BY <1>7, <2>1
  <2> QED
    BY <2>2 DEF D, H, total, here, a
<1> QED
  BY <1>12, <1>13, <1>14

LEMMA BuiltNearShare == BuildInv => NearItsShare
<1> SUFFICES ASSUME BuildInv, pc = "built", NEW k \in Shards, NEW i \in Slices, InShard(k) # {}
             PROVE  LET total == Records(InShard(k))
                        here == Records({s \in InShard(k) : sliceOf[s] = i})
                    IN  \E big \in InShard(k) :
                          /\ NUM_SLICES * (here - counts[big]) < total
                          /\ NUM_SLICES * (here + counts[big]) > total
  BY DEF NearItsShare
<1>1. Measures /\ {s \in InShard(k) : sliceOf[s] = i} = {s \in InShard(k) : Bucket(s) = i}
  BY DEF BuildInv, Sliced, SlicedBefore, InShard
<1> QED
  BY <1>1, SliceIsAShare

\* Slices share the records of a shard, up to the largest subject: slice 0, on
\* which the preprocessor is fit, is not left empty by small subjects.
THEOREM SlicesShareRecords == BootSpec => []NearItsShare
<1>1. BootInv => NearItsShare
  BY BuiltNearShare DEF BootInv
<1> QED
  BY <1>1, BootInvariant, PTL

=============================================================================
