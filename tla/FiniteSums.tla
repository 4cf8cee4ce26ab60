----------------------------- MODULE FiniteSums -----------------------------
(***************************************************************************)
(* Induction and sums: a set of naturals has a least element, which is the *)
(* form of induction the proofs use (over minimal counterexamples).        *)
(***************************************************************************)
EXTENDS Integers, FiniteSetsExt, FiniteSetTheorems, TLAPS

(* The intervals below the members of a set of naturals are finite sets,   *)
(* and inclusion of finite sets is well founded.                           *)
LEMMA LeastNatural ==
  ASSUME NEW T, T \subseteq Nat, T # {}
  PROVE  \E m \in T : \A k \in T : m <= k
<1> DEFINE smaller == StrictSubsetOrdering(Nat)
           below(n) == 0..(n-1)
           intervals == {below(k) : k \in T}
<1>1. IsWellFoundedOn(smaller, FiniteSubsetsOf(Nat))
  BY FS_StrictSubsetOrderingWellFounded
<1>2. \A k \in Nat : below(k) \in FiniteSubsetsOf(Nat)
  BY FS_Interval DEF FiniteSubsetsOf
<1>3. \A k, m \in Nat : k < m => <<below(k), below(m)>> \in smaller
  <2> SUFFICES ASSUME NEW k \in Nat, NEW m \in Nat, k < m
               PROVE  <<below(k), below(m)>> \in smaller
    OBVIOUS
  <2>1. below(k) \in SUBSET Nat /\ below(m) \in SUBSET Nat /\ below(k) \subseteq below(m)
    OBVIOUS
  <2>2. k \in below(m) /\ k \notin below(k)
    OBVIOUS
  <2> QED BY <2>1, <2>2 DEF StrictSubsetOrdering
<1> HIDE DEF smaller, below
<1>4. PICK least \in intervals : \A other \in intervals : ~ (<<other, least>> \in smaller)
  <2>1. intervals \subseteq FiniteSubsetsOf(Nat) /\ intervals # {}
    BY <1>2
  <2> QED BY <1>1, <2>1, WFMin
<1>5. PICK m \in T : least = below(m)
  OBVIOUS
<1>6. \A k \in T : ~ (<<below(k), below(m)>> \in smaller)
  BY <1>4, <1>5
<1>7. \A k \in T : ~ (k < m)
  BY <1>3, <1>6
<1>8. \A k \in T : m <= k
  BY <1>7
<1> QED BY <1>8

(* A family of subsets of a finite set has one that is minimal in it.      *)
LEMMA LeastSet ==
  ASSUME NEW S, IsFiniteSet(S), NEW T, T \subseteq SUBSET S, T # {}
  PROVE  \E m \in T : \A k \in T : k \subseteq m => k = m
<1> DEFINE smaller == StrictSubsetOrdering(S)
<1>1. IsWellFoundedOn(smaller, FiniteSubsetsOf(S))
  BY FS_StrictSubsetOrderingWellFounded
<1>2. T \subseteq FiniteSubsetsOf(S)
  BY FS_Subset DEF FiniteSubsetsOf
<1>3. \A k, m \in T : k \subseteq m /\ k # m => <<k, m>> \in smaller
  BY DEF StrictSubsetOrdering
<1> HIDE DEF smaller
<1>4. PICK m \in T : \A k \in T : ~ (<<k, m>> \in smaller)
  BY <1>1, <1>2, WFMin
<1> QED BY <1>3, <1>4

-----------------------------------------------------------------------------
(* Sums over finite sets.  The sum of the weights w over s is the number   *)
(* of cells in a diagram with a column of w[x] cells for each x of s, so   *)
(* sums are added and compared as cardinalities.                           *)

Column(w, x) == {x} \X (1..w[x])

Diagram(w, s) == UNION {Column(w, x) : x \in s}

Total(w, s) == Cardinality(Diagram(w, s))

LEMMA ColumnSize ==
  ASSUME NEW w, NEW x, w[x] \in Nat
  PROVE  IsFiniteSet(Column(w, x)) /\ Cardinality(Column(w, x)) = w[x]
<1>1. IsFiniteSet({x}) /\ Cardinality({x}) = 1
  BY FS_Singleton
<1> DEFINE n == w[x]
<1>2. n \in Nat
  OBVIOUS
<1> HIDE DEF n
<1>3. IsFiniteSet(1..n) /\ Cardinality(1..n) = n
  <2>1. Cardinality(1..n) = IF 1 > n THEN 0 ELSE n - 1 + 1
    BY <1>2, FS_Interval
  <2> QED BY <1>2, <2>1, FS_Interval
<1>4. IsFiniteSet({x} \X (1..n)) /\ Cardinality({x} \X (1..n)) = 1 * n
  <2> DEFINE cells == 1..n
             one == {x}
  <2>1. /\ IsFiniteSet(one) /\ IsFiniteSet(cells)
        /\ Cardinality(one) = 1 /\ Cardinality(cells) = n
    BY <1>1, <1>3
  <2> HIDE DEF cells, one
  <2>2. /\ IsFiniteSet(one \X cells)
        /\ Cardinality(one \X cells) = Cardinality(one) * Cardinality(cells)
    BY <2>1, FS_Product
  <2> QED BY <2>1, <2>2 DEF cells, one
<1> QED BY <1>2, <1>4 DEF n, Column

LEMMA DiagramFinite ==
  ASSUME NEW s, IsFiniteSet(s), NEW w, \A x \in s : w[x] \in Nat
  PROVE  IsFiniteSet(Diagram(w, s))
<1> DEFINE column == [x \in s |-> Column(w, x)]
           columns == {Column(w, x) : x \in s}
<1>1. column \in Surjection(s, columns)
  BY DEF Surjection
<1>2. IsFiniteSet(columns)
  <2> HIDE DEF column, columns
  <2> QED BY <1>1, FS_Surjection
<1>3. \A t \in columns : IsFiniteSet(t)
  BY ColumnSize
<1> HIDE DEF columns
<1>4. IsFiniteSet(UNION columns)
  BY <1>2, <1>3, FS_UNION
<1> QED BY <1>4 DEF Diagram, columns

LEMMA TotalEmpty == ASSUME NEW w PROVE Total(w, {}) = 0
BY FS_EmptySet DEF Total, Diagram

LEMMA TotalType ==
  ASSUME NEW s, IsFiniteSet(s), NEW w, \A x \in s : w[x] \in Nat
  PROVE  Total(w, s) \in Nat
BY DiagramFinite, FS_CardinalityType DEF Total

LEMMA TotalOne ==
  ASSUME NEW w, NEW x, w[x] \in Nat
  PROVE  Total(w, {x}) = w[x]
<1>1. Diagram(w, {x}) = Column(w, x)
  BY DEF Diagram
<1> QED BY <1>1, ColumnSize DEF Total

(* The sum over two sets without a common member is the sum of their sums. *)
LEMMA TotalUnion ==
  ASSUME NEW a, IsFiniteSet(a), NEW b, IsFiniteSet(b), a \cap b = {},
         NEW w, \A x \in a \cup b : w[x] \in Nat
  PROVE  Total(w, a \cup b) = Total(w, a) + Total(w, b)
<1>1. IsFiniteSet(Diagram(w, a)) /\ IsFiniteSet(Diagram(w, b))
  BY DiagramFinite
<1>2. Diagram(w, a \cup b) = Diagram(w, a) \cup Diagram(w, b)
  BY DEF Diagram
<1>3. Diagram(w, a) \cap Diagram(w, b) = {}
  <2> SUFFICES ASSUME NEW cell \in Diagram(w, a), cell \in Diagram(w, b) PROVE FALSE
    OBVIOUS
  <2>1. cell[1] \in a /\ cell[1] \in b
    BY DEF Diagram, Column
  <2> QED BY <2>1
<1>4. Cardinality(Diagram(w, a) \cap Diagram(w, b)) = 0
  BY <1>3, FS_EmptySet
<1> DEFINE da == Diagram(w, a)
           db == Diagram(w, b)
<1>5. Cardinality(da) \in Nat /\ Cardinality(db) \in Nat
  BY <1>1, FS_CardinalityType
<1>6. Cardinality(da \cup db) = Cardinality(da) + Cardinality(db) - Cardinality(da \cap db)
  <2> HIDE DEF da, db
  <2> QED BY <1>1, FS_Union DEF da, db
<1>7. Total(w, a \cup b) = Cardinality(da \cup db)
      /\ Total(w, a) = Cardinality(da) /\ Total(w, b) = Cardinality(db)
  BY <1>2 DEF Total
<1>8. Cardinality(da \cap db) = 0
  BY <1>4
<1> HIDE DEF da, db
<1> QED BY <1>5, <1>6, <1>7, <1>8

(* A larger set has no smaller sum.                                        *)
LEMMA TotalMonotone ==
  ASSUME NEW b, IsFiniteSet(b), NEW a, a \subseteq b, NEW w, \A x \in b : w[x] \in Nat
  PROVE  Total(w, a) <= Total(w, b)
<1>1. IsFiniteSet(Diagram(w, b))
  BY DiagramFinite
<1>2. Diagram(w, a) \in SUBSET Diagram(w, b)
  BY DEF Diagram
<1> QED BY <1>1, <1>2, FS_Subset DEF Total

(* Sums are extensional in the weights.                                    *)
LEMMA TotalSame ==
  ASSUME NEW s, NEW w, NEW v, \A x \in s : w[x] = v[x]
  PROVE  Total(w, s) = Total(v, s)
<1>1. Diagram(w, s) = Diagram(v, s)
  BY DEF Diagram, Column
<1> QED BY <1>1 DEF Total

(* What MapThenSumSet computes: take a member, add its weight to the sum   *)
(* of the others.                                                          *)
Sums(w, S, f) ==
  \A s \in SUBSET S :
    f[s] = IF s = {} THEN 0
           ELSE LET x == CHOOSE x \in s : TRUE IN w[x] + f[s \ {x}]

LEMMA TotalSplit ==
  ASSUME NEW s, IsFiniteSet(s), NEW w, \A y \in s : w[y] \in Nat, NEW x \in s
  PROVE  Total(w, s) = w[x] + Total(w, s \ {x})
<1> DEFINE one == {x}
           rest == s \ {x}
<1>1. IsFiniteSet(one) /\ IsFiniteSet(rest)
  BY FS_Singleton, FS_RemoveElement
<1>2. one \cap rest = {} /\ one \cup rest = s
  OBVIOUS
<1>3. Total(w, one) = w[x]
  BY TotalOne
<1> HIDE DEF one, rest
<1>4. Total(w, one \cup rest) = Total(w, one) + Total(w, rest)
  BY <1>1, <1>2, TotalUnion
<1> QED BY <1>2, <1>3, <1>4 DEF rest

LEMMA TotalSums ==
  ASSUME NEW S, IsFiniteSet(S), NEW w, \A x \in S : w[x] \in Nat
  PROVE  Sums(w, S, [s \in SUBSET S |-> Total(w, s)])
<1> SUFFICES ASSUME NEW s \in SUBSET S
             PROVE  Total(w, s) = IF s = {} THEN 0
                                  ELSE LET x == CHOOSE x \in s : TRUE
                                       IN  w[x] + Total(w, s \ {x})
  BY DEF Sums
<1>1. CASE s = {}
  BY <1>1, TotalEmpty
<1>2. CASE s # {}
  <2> DEFINE x == CHOOSE x \in s : TRUE
  <2>1. x \in s
    BY <1>2
  <2>2. IsFiniteSet(s) /\ \A y \in s : w[y] \in Nat
    BY FS_Subset
  <2> HIDE DEF x
  <2>3. Total(w, s) = w[x] + Total(w, s \ {x})
    BY <2>1, <2>2, TotalSplit
  <2> QED BY <1>2, <2>3 DEF x
<1> QED BY <1>1, <1>2

(* The members may be taken in any order: the result is the sum.           *)
LEMMA SumsAreTotals ==
  ASSUME NEW S, IsFiniteSet(S), NEW w, \A x \in S : w[x] \in Nat,
         NEW f, Sums(w, S, f)
  PROVE  \A s \in SUBSET S : f[s] = Total(w, s)
<1> DEFINE wrong == {s \in SUBSET S : f[s] # Total(w, s)}
<1> SUFFICES ASSUME wrong # {} PROVE FALSE
  OBVIOUS
<1>1. PICK s \in wrong : \A other \in wrong : other \subseteq s => other = s
  <2>1. wrong \subseteq SUBSET S /\ wrong # {}
    OBVIOUS
  <2> HIDE DEF wrong
  <2> QED BY <2>1, LeastSet
<1>2. s # {}
  <2>1. {} \in SUBSET S
    OBVIOUS
  <2>2. f[{}] = 0
    BY <2>1 DEF Sums
  <2> QED BY <1>1, <2>2, TotalEmpty
<1> DEFINE x == CHOOSE x \in s : TRUE
<1>3. x \in s
  BY <1>2
<1>4. f[s] = w[x] + f[s \ {x}]
  BY <1>2 DEF Sums
<1> HIDE DEF x
<1>5. s \ {x} \notin wrong
  <2>1. s \ {x} \subseteq s /\ s \ {x} # s
    BY <1>3
  <2> QED BY <1>1, <2>1
<1>6. f[s \ {x}] = Total(w, s \ {x})
  BY <1>5
<1>7. Total(w, s) = w[x] + Total(w, s \ {x})
  <2>1. IsFiniteSet(s) /\ \A y \in s : w[y] \in Nat
    BY FS_Subset
  <2> QED BY <1>3, <2>1, TotalSplit
<1> QED BY <1>4, <1>6, <1>7

(* Parts of a set that do not meet weigh no more together than the set.    *)
LEMMA TotalOfParts ==
  ASSUME NEW B, IsFiniteSet(B), NEW w, \A x \in B : w[x] \in Nat,
         NEW C, IsFiniteSet(C), NEW V, \A c \in C : V[c] \subseteq B,
         \A c, d \in C : c # d => V[c] \cap V[d] = {},
         NEW v, \A c \in C : v[c] = Total(w, V[c])
  PROVE  Total(v, C) <= Total(w, B)
<1> DEFINE parts(D) == UNION {V[c] : c \in D}
           wrong == {D \in SUBSET C : Total(v, D) # Total(w, parts(D))}
<1>1. ASSUME NEW D \in SUBSET C
      PROVE  parts(D) \subseteq B /\ IsFiniteSet(parts(D)) /\ IsFiniteSet(D)
  BY FS_Subset
<1>2. \A c \in C : v[c] \in Nat
  <2> SUFFICES ASSUME NEW c \in C PROVE v[c] \in Nat
    OBVIOUS
  <2>1. IsFiniteSet(V[c]) /\ \A x \in V[c] : w[x] \in Nat
    BY FS_Subset
  <2> QED BY <2>1, TotalType
<1>3. wrong = {}
  <2> SUFFICES ASSUME wrong # {} PROVE FALSE
    OBVIOUS
  <2>1. PICK D \in wrong : \A E \in wrong : E \subseteq D => E = D
    <3>1. wrong \subseteq SUBSET C /\ wrong # {}
      OBVIOUS
    <3> HIDE DEF wrong
    <3> QED BY <3>1, LeastSet
  <2>2. D # {}
    <3>1. parts({}) = {}
      OBVIOUS
    <3> HIDE DEF parts
    <3> QED BY <2>1, <3>1, TotalEmpty
  <2>3. PICK c \in D : TRUE
    BY <2>2
  <2> DEFINE rest == D \ {c}
  <2>4. rest \in SUBSET C /\ rest \notin wrong
    <3>1. rest \subseteq D /\ rest # D
      OBVIOUS
    <3> QED BY <2>1, <3>1
  <2>5. Total(v, rest) = Total(w, parts(rest))
    BY <2>4
  <2>6. Total(v, D) = v[c] + Total(v, rest)
    <3>1. IsFiniteSet(D) /\ \A y \in D : v[y] \in Nat
      BY <1>1, <1>2
    <3> QED BY <3>1, TotalSplit
  <2>7. Total(w, parts(D)) = Total(w, V[c]) + Total(w, parts(rest))
    <3> DEFINE others == parts(rest)
    <3>1. parts(D) = V[c] \cup others
      OBVIOUS
    <3>2. V[c] \cap others = {}
      <4>1. \A d \in rest : d \in C /\ d # c
        OBVIOUS
      <4> QED BY <4>1
    <3>3. IsFiniteSet(V[c]) /\ IsFiniteSet(others)
      <4>1. V[c] \in SUBSET B
        OBVIOUS
      <4> QED BY <1>1, <2>4, <4>1, FS_Subset
    <3>4. \A x \in V[c] \cup others : w[x] \in Nat
      BY <1>1, <2>4
    <3> HIDE DEF others, parts
    <3>5. Total(w, V[c] \cup others) = Total(w, V[c]) + Total(w, others)
      BY <3>2, <3>3, <3>4, TotalUnion
    <3> QED BY <3>1, <3>5 DEF others
  <2> HIDE DEF parts, rest
  <2> QED BY <2>5, <2>6, <2>7
<1>4. Total(v, C) = Total(w, parts(C))
  BY <1>3
<1>5. parts(C) \subseteq B
  BY <1>1
<1> HIDE DEF parts
<1> QED BY <1>4, <1>5, TotalMonotone
-----------------------------------------------------------------------------
(* The last of the first n positions, as the folds take it.                *)
LEMMA MaxIsLast ==
  ASSUME NEW n \in Nat, NEW S, S \subseteq 1..n, n \in S
  PROVE  Max(S) = n
<1>1. \E x \in S : \A y \in S : x >= y
  OBVIOUS
<1>2. Max(S) \in S /\ \A y \in S : Max(S) >= y
  BY <1>1 DEF Max
<1> DEFINE max == Max(S)
<1> HIDE DEF max
<1>3. max \in 1..n /\ max >= n
  BY <1>2 DEF max
<1>4. max = n
  BY <1>3
<1> QED BY <1>4 DEF max
===============================================================================
