-------------------------- MODULE NexthopConfigProofs --------------------------
(***************************************************************************)
(* What SortedTargets does with every list of targets: it is a permutation *)
(* of the list, and the first of its targets with some property is the    *)
(* heaviest one with it, the first in the file among equals.               *)
(***************************************************************************)
EXTENDS NexthopConfig, FiniteSetTheorems, TLAPS

\* A non-empty set of naturals has a least element.
LEMMA LeastNatural ==
    ASSUME NEW S \in SUBSET Nat, S # {}
    PROVE  \E m \in S : \A k \in S : m <= k
<1>1. PICK m \in S : \A k \in S : ~(<<k, m>> \in OpToRel(<, Nat))
  BY NatLessThanWellFounded, WFMin
<1>2. \A k \in S : ~(k < m)
  BY <1>1 DEF OpToRel
<1> QED
  BY <1>2

-----------------------------------------------------------------------------
(* Ranks.                                                                  *)

\* Precedes is a strict total order on the positions of a list of targets.
LEMMA PrecedesOrders ==
    ASSUME NEW ts \in Seq(Target),
           NEW i \in DOMAIN ts, NEW j \in DOMAIN ts, NEW k \in DOMAIN ts
    PROVE  /\ ~Precedes(ts, i, i)
           /\ Precedes(ts, i, j) /\ Precedes(ts, j, k) => Precedes(ts, i, k)
           /\ i # j => Precedes(ts, i, j) \/ Precedes(ts, j, i)
<1>1. ts[i].weight \in Int /\ ts[j].weight \in Int /\ ts[k].weight \in Int
  <2>1. ts[i] \in Target /\ ts[j] \in Target /\ ts[k] \in Target
    OBVIOUS
  <2> QED
    BY <2>1 DEF Target
<1>2. i \in Int /\ j \in Int /\ k \in Int
  OBVIOUS
<1> QED
  BY <1>1, <1>2 DEF Precedes

\* Ranks lie in 1 .. Len(ts), and an earlier position has a smaller rank.
LEMMA RankBounds ==
    ASSUME NEW ts \in Seq(Target), NEW i \in DOMAIN ts
    PROVE  /\ Rank(ts, i) \in DOMAIN ts
           /\ \A j \in DOMAIN ts : Precedes(ts, i, j) => Rank(ts, i) < Rank(ts, j)
<1> DEFINE Before(x) == {y \in DOMAIN ts : Precedes(ts, y, x)}
<1>1. /\ DOMAIN ts = 1 .. Len(ts) /\ Len(ts) \in Nat
      /\ IsFiniteSet(DOMAIN ts) /\ Cardinality(DOMAIN ts) = Len(ts)
  BY FS_Interval
<1>2. \A x \in DOMAIN ts : /\ IsFiniteSet(Before(x))
                           /\ Cardinality(Before(x)) \in Nat
  BY <1>1, FS_Subset, FS_CardinalityType
<1>3. Cardinality(Before(i)) < Len(ts)
  <2>1. Before(i) \in SUBSET DOMAIN ts /\ i \notin Before(i)
    BY PrecedesOrders
  <2>2. /\ Cardinality(Before(i)) <= Cardinality(DOMAIN ts)
        /\ Cardinality(DOMAIN ts) = Cardinality(Before(i)) => DOMAIN ts = Before(i)
    BY <1>1, <2>1, FS_Subset
  <2>3. Cardinality(Before(i)) # Len(ts)
    BY <1>1, <2>1, <2>2
  <2> HIDE DEF Before
  <2> QED
    BY <1>1, <1>2, <2>2, <2>3
<1>4. ASSUME NEW j \in DOMAIN ts, Precedes(ts, i, j)
      PROVE  Cardinality(Before(i)) < Cardinality(Before(j))
  <2>1. Before(i) \in SUBSET Before(j)
    BY <1>4, PrecedesOrders
  <2>2. i \in Before(j) /\ i \notin Before(i)
    BY <1>4, PrecedesOrders
  <2>3. /\ Cardinality(Before(i)) <= Cardinality(Before(j))
        /\ Cardinality(Before(j)) = Cardinality(Before(i)) => Before(j) = Before(i)
    BY <1>2, <2>1, FS_Subset
  <2>4. Cardinality(Before(i)) # Cardinality(Before(j))
    BY <2>2, <2>3
  <2> HIDE DEF Before
  <2> QED
    BY <1>2, <2>3, <2>4
<1>5. \A x \in DOMAIN ts : Rank(ts, x) = 1 + Cardinality(Before(x))
  BY DEF Rank
<1> HIDE DEF Before
<1> QED
  BY <1>1, <1>2, <1>3, <1>4, <1>5

\* Ranks are a permutation of the positions.
LEMMA RankPermutes ==
    ASSUME NEW ts \in Seq(Target)
    PROVE  /\ \A i, j \in DOMAIN ts : Rank(ts, i) = Rank(ts, j) => i = j
           /\ \A k \in DOMAIN ts : \E i \in DOMAIN ts : Rank(ts, i) = k
<1> DEFINE R == [i \in DOMAIN ts |-> Rank(ts, i)]
<1>1. \A i, j \in DOMAIN ts : Rank(ts, i) = Rank(ts, j) => i = j
  <2>1. SUFFICES ASSUME NEW i \in DOMAIN ts, NEW j \in DOMAIN ts, i # j
                 PROVE  Rank(ts, i) # Rank(ts, j)
    OBVIOUS
  <2>2. Precedes(ts, i, j) \/ Precedes(ts, j, i)
    BY <2>1, PrecedesOrders
  <2>3. Rank(ts, i) \in Int /\ Rank(ts, j) \in Int
    BY RankBounds
  <2> QED
    BY <2>2, <2>3, RankBounds
<1>2. R \in [DOMAIN ts -> DOMAIN ts]
  BY RankBounds
<1>3. R \in Injection(DOMAIN ts, DOMAIN ts)
  BY <1>1, <1>2 DEF Injection, IsInjective
<1>4. IsFiniteSet(DOMAIN ts)
  BY FS_Interval
<1>5. R \in Surjection(DOMAIN ts, DOMAIN ts)
  BY <1>3, <1>4, FS_Injection
<1>6. \A k \in DOMAIN ts : \E i \in DOMAIN ts : R[i] = k
  BY <1>5 DEF Surjection
<1> QED
  BY <1>1, <1>6

\* The k-th sorted target is the target at some position of rank k, and every
\* position is found at its rank.
LEMMA SortedIsPermutation ==
    ASSUME NEW ts \in Seq(Target)
    PROVE  /\ DOMAIN SortedTargets(ts) = DOMAIN ts
           /\ \A k \in DOMAIN ts :
                 \E i \in DOMAIN ts : Rank(ts, i) = k /\ SortedTargets(ts)[k] = ts[i]
           /\ \A i \in DOMAIN ts : SortedTargets(ts)[Rank(ts, i)] = ts[i]
<1>1. ASSUME NEW k \in DOMAIN ts
      PROVE  \E i \in DOMAIN ts : Rank(ts, i) = k /\ SortedTargets(ts)[k] = ts[i]
  BY RankPermutes DEF SortedTargets
<1>2. ASSUME NEW i \in DOMAIN ts
      PROVE  SortedTargets(ts)[Rank(ts, i)] = ts[i]
  <2>1. Rank(ts, i) \in DOMAIN ts
    BY RankBounds
  <2>2. PICK j \in DOMAIN ts : /\ Rank(ts, j) = Rank(ts, i)
                               /\ SortedTargets(ts)[Rank(ts, i)] = ts[j]
    BY <1>1, <2>1
  <2> QED
    BY <2>2, RankPermutes
<1> QED
  BY <1>1, <1>2 DEF SortedTargets

-----------------------------------------------------------------------------
(* Targets by name.                                                        *)

\* In a valid configuration a name denotes the one target that has it.
LEMMA NamedTarget ==
    ASSUME NEW c \in Config, Valid(c), NEW i \in DOMAIN c.targets
    PROVE  /\ c.targets[i].name \in Names(c)
           /\ TargetNamed(c, c.targets[i].name) = c.targets[i]
<1>1. \A j \in DOMAIN c.targets : c.targets[j].name = c.targets[i].name => j = i
  BY DEF Valid
<1> QED
  BY <1>1 DEF Names, TargetNamed

\* Conversely each name is that of a target.
LEMMA NameHasTarget ==
    ASSUME NEW c \in Config, Valid(c), NEW n \in Names(c)
    PROVE  /\ \E i \in DOMAIN c.targets :
                 c.targets[i].name = n /\ TargetNamed(c, n) = c.targets[i]
           /\ TargetNamed(c, n) \in Target
<1>1. PICK i \in DOMAIN c.targets : c.targets[i].name = n
  BY DEF Names
<1>2. TargetNamed(c, n) = c.targets[i]
  BY <1>1, NamedTarget
<1>3. c.targets[i] \in Target
  BY DEF Config
<1> QED
  BY <1>1, <1>2, <1>3
================================================================================
