--------------------------- MODULE EstimateProofs ---------------------------
(***************************************************************************)
(* Where the rule's estimate of the weight between two slots is sound: for *)
(* equal balances inside an epoch, whatever the shuffle; across a boundary *)
(* when the shuffle is perfectly mixed; and wherever a whole epoch lies    *)
(* between the slots.  The loops of EstimateSpans compare the estimate     *)
(* with the weight of every span, so these are facts about what they find. *)
(***************************************************************************)
EXTENDS EstimateSpans, FiniteSums

-----------------------------------------------------------------------------
(* What the loops keep.                                                    *)

CommitteeSize == Cardinality(ValidatorIndex) \div SLOTS_PER_EPOCH

members_between(first, last) == UNION {committees[slot] : slot \in first..last}

Slots == 0..LastSlot

Kinds == {"within_epoch", "cross_boundary"}

(* Whole epochs have been read, each a partition into equal committees.    *)
CommitteesSound ==
  /\ \E n \in 1..EPOCHS : DOMAIN committees = 0..n * SLOTS_PER_EPOCH - 1
  /\ \A slot \in DOMAIN committees :
       /\ committees[slot] \subseteq ValidatorIndex
       /\ Cardinality(committees[slot]) = CommitteeSize
  /\ \A s, t \in DOMAIN committees :
       s # t /\ compute_epoch_at_slot(s) = compute_epoch_at_slot(t) =>
         committees[s] \cap committees[t] = {}

SpanSound ==
  /\ span \in [a : Nat, b : Nat, members : SUBSET ValidatorIndex]
  /\ span.a <= span.b
  /\ span.b <= LastSlot \/ (span.a = LastSlot + 1 /\ span.b = LastSlot + 1)
  /\ LastSlot \notin DOMAIN committees => span.a = 0 /\ span.b = 0
  /\ span.members = members_between(span.a, span.b - 1)

compared(s) == s[1] < span.a \/ (s[1] = span.a /\ s[2] < span.b)

outweighs(s) ==
  Total(balances, members_between(s[1], s[2]))
    > estimate_committee_weight_between_slots(Total(balances, ValidatorIndex), s[1], s[2])

exceeds(s) ==
  weight_of(members_between(s[1], s[2]))
    > estimate_committee_weight_between_slots(total_balance, s[1], s[2])

FailuresSound ==
  failures = [kind \in Kinds |->
    {s \in Slots \X Slots :
       s[1] <= s[2] /\ compared(s) /\ kind_of(s[1], s[2]) = kind /\ outweighs(s)}]

SpansInv == balances \in BALANCES /\ CommitteesSound /\ SpanSound /\ FailuresSound
-----------------------------------------------------------------------------
(* Slots and epochs. *)

LEMMA ProductMonotone ==
  ASSUME NEW a \in Nat, NEW b \in Nat, NEW c \in Nat, a <= b
  PROVE  a * c <= b * c
<1>1. (b - a) * c \in Nat
  OBVIOUS
<1>2. b * c = a * c + (b - a) * c
  OBVIOUS
<1>3. a * c \in Nat /\ b * c \in Nat
  OBVIOUS
<1> QED BY <1>1, <1>2, <1>3

LEMMA EpochOfSlot ==
  ASSUME NEW slot \in Nat
  PROVE  /\ compute_epoch_at_slot(slot) \in Nat
         /\ compute_epoch_at_slot(slot) * SLOTS_PER_EPOCH <= slot
         /\ slot < compute_epoch_at_slot(slot) * SLOTS_PER_EPOCH + SLOTS_PER_EPOCH
BY ConfigAssumption DEF compute_epoch_at_slot

(* The epoch of a slot is the only one whose interval holds it; so a later *)
(* slot has no earlier epoch.                                              *)
LEMMA EpochBounds ==
  ASSUME NEW slot \in Nat, NEW epoch \in Nat
  PROVE  /\ epoch * SLOTS_PER_EPOCH <= slot => epoch <= compute_epoch_at_slot(slot)
         /\ slot < epoch * SLOTS_PER_EPOCH => compute_epoch_at_slot(slot) < epoch
<1> DEFINE S == SLOTS_PER_EPOCH
           own == compute_epoch_at_slot(slot)
<1>1. S \in Nat \ {0}
  BY ConfigAssumption
<1>2. own \in Nat /\ own * S <= slot /\ slot < own * S + S
  BY EpochOfSlot
<1> HIDE DEF S, own
<1>3. ASSUME epoch * S <= slot PROVE epoch <= own
  <2> SUFFICES ASSUME own + 1 <= epoch PROVE FALSE
    BY <1>2
  <2>1. (own + 1) * S <= epoch * S
    BY <1>1, <1>2, ProductMonotone
  <2>2. (own + 1) * S = own * S + S
    BY <1>1, <1>2
  <2>3. own * S \in Nat /\ epoch * S \in Nat
    BY <1>1, <1>2
  <2> QED BY <1>1, <1>2, <1>3, <2>1, <2>2, <2>3
<1>4. ASSUME slot < epoch * S PROVE own < epoch
  <2> SUFFICES ASSUME epoch <= own PROVE FALSE
    BY <1>2
  <2>1. epoch * S <= own * S
    BY <1>1, <1>2, ProductMonotone
  <2>2. own * S \in Nat /\ epoch * S \in Nat
    BY <1>1, <1>2
  <2> QED BY <1>1, <1>2, <1>4, <2>1, <2>2
<1> QED BY <1>3, <1>4 DEF S, own

LEMMA SizeFacts ==
  /\ SLOTS_PER_EPOCH \in Nat \ {0}
  /\ IsFiniteSet(ValidatorIndex)
  /\ CommitteeSize \in Nat
  /\ Cardinality(ValidatorIndex) = CommitteeSize * SLOTS_PER_EPOCH
  /\ CommitteeSize # 0
  /\ EPOCHS \in Nat \ {0}
  /\ LastSlot \in Nat
<1> DEFINE n == Cardinality(ValidatorIndex)
           S == SLOTS_PER_EPOCH
<1>1. S \in Nat \ {0} /\ IsFiniteSet(ValidatorIndex) /\ EPOCHS \in Nat \ {0}
  BY ConfigAssumption, RegistryAssumption, SpansAssumption
<1>2. n \in Nat /\ n # 0
  BY <1>1, SpansAssumption, FS_CardinalityType, FS_EmptySet
<1>3. n % S = 0
  BY SpansAssumption
<1>4. n \div S \in Nat /\ n = (n \div S) * S
  <2> HIDE DEF n, S
  <2>1. n = S * (n \div S) + (n % S) /\ n \div S \in Int
    BY <1>1, <1>2
  <2>2. n \div S \in Nat
    BY <1>1, <1>2
  <2> QED BY <1>1, <1>3, <2>1, <2>2
<1>5. n \div S # 0
  <2> SUFFICES ASSUME n \div S = 0 PROVE FALSE
    OBVIOUS
  <2>1. n = 0 * S
    BY <1>4
  <2> HIDE DEF n, S
  <2> QED BY <1>1, <1>2, <2>1
<1>6. LastSlot \in Nat
  <2>1. EPOCHS * S \in Nat \ {0}
    <3> HIDE DEF S
    <3>1. 1 * S <= EPOCHS * S
      BY <1>1, ProductMonotone
    <3>2. EPOCHS * S \in Nat
      BY <1>1
    <3> QED BY <1>1, <3>1, <3>2
  <2> QED BY <2>1 DEF LastSlot
<1> QED BY <1>1, <1>4, <1>5, <1>6 DEF CommitteeSize

-----------------------------------------------------------------------------
(* Unions of sets of a given size.                                         *)

UnionOf(C, first, k) == UNION {C[j] : j \in first..first+k-1}

LEMMA UnionAtMost ==
  ASSUME NEW V, IsFiniteSet(V), NEW C, NEW n \in Nat, NEW first \in Nat, NEW k \in Nat,
         \A j \in first..first+k-1 : C[j] \subseteq V /\ Cardinality(C[j]) <= n
  PROVE  Cardinality(UnionOf(C, first, k)) <= k * n
<1> DEFINE union(m) == UnionOf(C, first, m)
           wrong == {m \in 0..k : ~ (Cardinality(union(m)) <= m * n)}
<1> SUFFICES ASSUME wrong # {} PROVE FALSE
  <2>1. k \in 0..k
    OBVIOUS
  <2> QED BY <2>1
<1>1. PICK m \in wrong : \A other \in wrong : m <= other
  <2>1. wrong \subseteq Nat /\ wrong # {}
    OBVIOUS
  <2> HIDE DEF wrong
  <2> QED BY <2>1, LeastNatural
<1>2. m # 0
  <2>1. union(0) = {}
    BY DEF UnionOf
  <2>2. Cardinality(union(0)) = 0
    BY <2>1, FS_EmptySet
  <2>3. 0 * n = 0
    OBVIOUS
  <2> HIDE DEF union
  <2> QED BY <1>1, <2>2, <2>3
<1> DEFINE rest == union(m - 1)
           last == C[first + m - 1]
<1>3. union(m) = rest \cup last
  BY <1>1, <1>2 DEF UnionOf
<1>4. IsFiniteSet(rest) /\ IsFiniteSet(last) /\ Cardinality(last) <= n
  <2>1. rest \in SUBSET V /\ last \in SUBSET V /\ Cardinality(last) <= n
    BY <1>1, <1>2 DEF UnionOf
  <2> QED BY <2>1, FS_Subset
<1>5. Cardinality(rest) <= (m - 1) * n
  <2>1. m - 1 \in 0..k /\ ~ (m <= m - 1)
    BY <1>1, <1>2
  <2>2. m - 1 \notin wrong
    BY <1>1, <2>1
  <2> HIDE DEF union
  <2> QED BY <2>1, <2>2
<1> HIDE DEF rest, last
<1>6. Cardinality(rest \cup last) <= Cardinality(rest) + Cardinality(last)
  <2>1. Cardinality(rest \cup last)
          = Cardinality(rest) + Cardinality(last) - Cardinality(rest \cap last)
    BY <1>4, FS_Union
  <2>2. /\ Cardinality(rest) \in Nat /\ Cardinality(last) \in Nat
        /\ Cardinality(rest \cap last) \in Nat
    <3>1. rest \cap last \in SUBSET rest
      OBVIOUS
    <3> QED BY <1>4, <3>1, FS_Subset, FS_CardinalityType
  <2> QED BY <2>1, <2>2
<1>7. (m - 1) * n + n = m * n
  BY <1>1
<1>8. ~ (Cardinality(union(m)) <= m * n)
  BY <1>1
<1>9. Cardinality(rest) \in Nat /\ Cardinality(last) \in Nat /\ Cardinality(rest \cup last) \in Nat
  BY <1>4, FS_CardinalityType, FS_Union
<1>10. (m - 1) * n \in Int /\ m * n \in Int
  BY <1>1
<1> HIDE DEF union, wrong
<1> QED BY <1>3, <1>4, <1>5, <1>6, <1>7, <1>8, <1>9, <1>10

(* Disjoint subsets of V with n members each.                              *)
EqualParts(C, V, n, indices) ==
  /\ \A j \in indices : C[j] \subseteq V /\ Cardinality(C[j]) = n
  /\ \A i, j \in indices : i # j => C[i] \cap C[j] = {}

LEMMA UnionExactly ==
  ASSUME NEW V, IsFiniteSet(V), NEW C, NEW n \in Nat, NEW first \in Nat, NEW k \in Nat,
         EqualParts(C, V, n, first..first+k-1)
  PROVE  Cardinality(UnionOf(C, first, k)) = k * n
<1> DEFINE union(m) == UnionOf(C, first, m)
           wrong == {m \in 0..k : Cardinality(union(m)) # m * n}
<1> SUFFICES ASSUME wrong # {} PROVE FALSE
  <2>1. k \in 0..k
    OBVIOUS
  <2> QED BY <2>1
<1>1. PICK m \in wrong : \A other \in wrong : m <= other
  <2>1. wrong \subseteq Nat /\ wrong # {}
    OBVIOUS
  <2> HIDE DEF wrong
  <2> QED BY <2>1, LeastNatural
<1>2. m # 0
  <2>1. union(0) = {}
    BY DEF UnionOf
  <2>2. Cardinality(union(0)) = 0
    BY <2>1, FS_EmptySet
  <2>3. 0 * n = 0
    OBVIOUS
  <2> HIDE DEF union
  <2> QED BY <1>1, <2>2, <2>3
<1> DEFINE rest == union(m - 1)
           last == C[first + m - 1]
<1>3. union(m) = rest \cup last /\ rest \cap last = {}
  BY <1>1, <1>2 DEF UnionOf, EqualParts
<1>4. IsFiniteSet(rest) /\ IsFiniteSet(last) /\ Cardinality(last) = n
  <2>1. m \in 0..k
    BY <1>1
  <2>2. first..first+(m-1)-1 \subseteq first..first+k-1 /\ first + m - 1 \in first..first+k-1
    BY <1>2, <2>1
  <2>3. rest \in SUBSET V /\ last \in SUBSET V /\ Cardinality(last) = n
    BY <2>2 DEF UnionOf, EqualParts
  <2> QED BY <2>3, FS_Subset
<1>5. Cardinality(rest) = (m - 1) * n
  <2>1. m - 1 \in 0..k /\ ~ (m <= m - 1)
    BY <1>1, <1>2
  <2>2. m - 1 \notin wrong
    BY <1>1, <2>1
  <2> HIDE DEF union
  <2> QED BY <2>1, <2>2
<1> HIDE DEF rest, last
<1>6. Cardinality(rest \cup last) = Cardinality(rest) + Cardinality(last)
  <2>1. Cardinality(rest \cup last)
          = Cardinality(rest) + Cardinality(last) - Cardinality(rest \cap last)
    BY <1>4, FS_Union
  <2>2. Cardinality(rest) \in Nat /\ Cardinality(last) \in Nat
    BY <1>4, FS_CardinalityType
  <2>3. Cardinality(rest \cap last) = 0
    BY <1>3, FS_EmptySet
  <2> QED BY <2>1, <2>2, <2>3
<1>7. (m - 1) * n + n = m * n
  BY <1>1
<1>8. Cardinality(union(m)) # m * n
  BY <1>1
<1> HIDE DEF union, wrong
<1> QED BY <1>3, <1>4, <1>5, <1>6, <1>7, <1>8

-----------------------------------------------------------------------------
(* Weights. *)

LEMMA TotalOfEqual ==
  ASSUME NEW s, IsFiniteSet(s), NEW w, NEW c \in Nat, \A x \in s : w[x] = c
  PROVE  Total(w, s) = c * Cardinality(s)
<1> DEFINE wrong == {r \in SUBSET s : Total(w, r) # c * Cardinality(r)}
<1> SUFFICES ASSUME wrong # {} PROVE FALSE
  OBVIOUS
<1>1. PICK r \in wrong : \A other \in wrong : other \subseteq r => other = r
  <2>1. wrong \subseteq SUBSET s /\ wrong # {}
    OBVIOUS
  <2> HIDE DEF wrong
  <2> QED BY <2>1, LeastSet
<1>2. r # {}
  <2>1. Total(w, {}) = 0 /\ Cardinality({}) = 0 /\ c * 0 = 0
    BY TotalEmpty, FS_EmptySet
  <2> QED BY <1>1, <2>1
<1>3. PICK x \in r : TRUE
  BY <1>2
<1>4. r \in SUBSET s
  BY <1>1
<1>5. IsFiniteSet(r) /\ \A y \in r : w[y] \in Nat
  BY <1>4, FS_Subset
<1>6. Total(w, r) = c + Total(w, r \ {x})
  <2>1. w[x] = c
    BY <1>3, <1>4
  <2> QED BY <1>3, <1>5, <2>1, TotalSplit
<1>7. IsFiniteSet(r \ {x}) /\ Cardinality(r \ {x}) = Cardinality(r) - 1
  BY <1>3, <1>5, FS_RemoveElement
<1>8. Total(w, r \ {x}) = c * Cardinality(r \ {x})
  <2>1. r \ {x} \in SUBSET s /\ r \ {x} # r /\ r \ {x} \subseteq r
    BY <1>3, <1>4
  <2> QED BY <1>1, <2>1
<1>9. Cardinality(r) \in Nat
  BY <1>5, FS_CardinalityType
<1>10. c * (Cardinality(r) - 1) + c = c * Cardinality(r)
  BY <1>9
<1>11. Total(w, r) # c * Cardinality(r)
  BY <1>1
<1>12. c * (Cardinality(r) - 1) \in Int
  BY <1>9
<1> QED BY <1>6, <1>7, <1>8, <1>10, <1>11, <1>12

LEMMA WeightIsTotal ==
  ASSUME balances \in BALANCES, NEW members \in SUBSET ValidatorIndex
  PROVE  /\ weight_of(members) = Total(balances, members)
         /\ IsFiniteSet(members)
         /\ \A i \in members : balances[i] \in Nat
<1> DEFINE sum == CHOOSE iter : iter = [s \in SUBSET members |->
                    IF s = {} THEN 0
                    ELSE LET x == CHOOSE x \in s : TRUE
                         IN  balances[x] + iter[s \ {x}]]
           f == [s \in SUBSET members |-> Total(balances, s)]
<1>1. IsFiniteSet(members) /\ \A i \in members : balances[i] \in Nat
  <2>1. balances \in [ValidatorIndex -> Nat]
    BY SpansAssumption
  <2> QED BY <2>1, SizeFacts, FS_Subset
<1>2. Sums(balances, members, f)
  BY <1>1, TotalSums
<1>3. f = [s \in SUBSET members |->
             IF s = {} THEN 0
             ELSE LET x == CHOOSE x \in s : TRUE
                  IN  balances[x] + f[s \ {x}]]
  BY <1>2 DEF Sums
<1>4. sum = [s \in SUBSET members |->
               IF s = {} THEN 0
               ELSE LET x == CHOOSE x \in s : TRUE
                    IN  balances[x] + sum[s \ {x}]]
  <2> HIDE DEF f
  <2> QED BY <1>3
<1>5. weight_of(members) = sum[members]
  BY DEF weight_of, MapThenSumSet, MapThenFoldSet
<1> HIDE DEF sum, f
<1>6. Sums(balances, members, sum)
  BY <1>4 DEF Sums
<1>7. sum[members] = Total(balances, members)
  <2>1. members \in SUBSET members
    OBVIOUS
  <2> QED BY <1>1, <1>6, <2>1, SumsAreTotals
<1> QED BY <1>1, <1>5, <1>7
-----------------------------------------------------------------------------
(* The estimate. *)

LEMMA DivisionExact ==
  ASSUME NEW x \in Nat, NEW d \in Nat \ {0}
  PROVE  (x * d) \div d = x
<1> DEFINE y == x * d
           q == y \div d
<1>1. y \in Nat
  OBVIOUS
<1>2. q \in Int /\ y = d * q + (y % d) /\ y % d \in 0..d-1
  <2> HIDE DEF y
  <2> QED BY <1>1
<1>3. x * d = d * q + (y % d)
  BY <1>2
<1> HIDE DEF y, q
<1>4. (x - q) * d \in 0..d-1
  BY <1>2, <1>3
<1>5. ASSUME x - q >= 1 PROVE FALSE
  <2>1. (x - q - 1) * d >= 0
    BY <1>2, <1>5
  <2>2. (x - q) * d = (x - q - 1) * d + d
    BY <1>2
  <2>3. (x - q - 1) * d \in Int
    BY <1>2
  <2> QED BY <1>4, <2>1, <2>2, <2>3
<1>6. ASSUME q - x >= 1 PROVE FALSE
  <2>1. (q - x - 1) * d >= 0
    BY <1>2, <1>6
  <2>2. (q - x - 1) * d + d = 0 - (x - q) * d
    BY <1>2
  <2>3. (q - x - 1) * d \in Int /\ (x - q) * d \in Int
    BY <1>2
  <2> QED BY <1>4, <2>1, <2>2, <2>3
<1> QED BY <1>2, <1>5, <1>6 DEF q, y

(* The adjustment rounds up and adds.                                      *)
LEMMA AdjustmentRaises ==
  ASSUME NEW estimate \in Nat
  PROVE  /\ adjust_committee_weight_estimate_to_ensure_safety(estimate) \in Nat
         /\ estimate <= adjust_committee_weight_estimate_to_ensure_safety(estimate)
<1> DEFINE thousands == (estimate + 999) \div 1000
           factor == COMMITTEE_WEIGHT_ESTIMATION_ADJUSTMENT_FACTOR
<1>1. thousands \in Nat /\ estimate <= thousands * 1000
  OBVIOUS
<1>2. factor \in Nat
  BY RuleConfigAssumption
<1> HIDE DEF thousands, factor
<1>3. thousands * (1000 + factor) = thousands * 1000 + thousands * factor
  BY <1>1, <1>2
<1>4. thousands * factor \in Nat
  BY <1>1, <1>2
<1> QED BY <1>1, <1>3, <1>4
    DEF adjust_committee_weight_estimate_to_ensure_safety, thousands, factor

LEMMA WeightAtMostTotal ==
  ASSUME balances \in BALANCES, NEW members \in SUBSET ValidatorIndex
  PROVE  weight_of(members) <= total_balance
<1>1. weight_of(members) = Total(balances, members)
  BY WeightIsTotal
<1>2. /\ weight_of(ValidatorIndex) = Total(balances, ValidatorIndex)
      /\ IsFiniteSet(ValidatorIndex)
      /\ \A i \in ValidatorIndex : balances[i] \in Nat
  BY WeightIsTotal
<1>3. Total(balances, members) <= Total(balances, ValidatorIndex)
  BY <1>2, TotalMonotone
<1> QED BY <1>1, <1>2, <1>3 DEF total_balance

LEMMA EqualWeights ==
  ASSUME balances \in BALANCES, EqualBalances
  PROVE  \E w \in Nat :
           /\ \A members \in SUBSET ValidatorIndex :
                weight_of(members) = w * Cardinality(members)
           /\ total_balance \div SLOTS_PER_EPOCH = w * CommitteeSize
<1>1. PICK v \in ValidatorIndex : TRUE
  BY SpansAssumption
<1> DEFINE w == balances[v]
<1>2. w \in Nat /\ \A i \in ValidatorIndex : balances[i] = w
  BY SpansAssumption DEF EqualBalances
<1> HIDE DEF w
<1>3. ASSUME NEW members \in SUBSET ValidatorIndex
      PROVE  weight_of(members) = w * Cardinality(members)
  <2>1. weight_of(members) = Total(balances, members) /\ IsFiniteSet(members)
    BY WeightIsTotal
  <2> QED BY <1>2, <2>1, TotalOfEqual
<1>4. total_balance = (w * CommitteeSize) * SLOTS_PER_EPOCH
  <2>1. total_balance = w * Cardinality(ValidatorIndex)
    BY <1>3 DEF total_balance
  <2>2. CommitteeSize \in Nat /\ SLOTS_PER_EPOCH \in Nat
        /\ Cardinality(ValidatorIndex) = CommitteeSize * SLOTS_PER_EPOCH
    BY SizeFacts
  <2>3. w * (CommitteeSize * SLOTS_PER_EPOCH) = (w * CommitteeSize) * SLOTS_PER_EPOCH
    BY <1>2, <2>2
  <2> QED BY <2>1, <2>2, <2>3
<1>5. w * CommitteeSize \in Nat /\ SLOTS_PER_EPOCH \in Nat \ {0}
  BY <1>2, SizeFacts
<1>6. total_balance \div SLOTS_PER_EPOCH = w * CommitteeSize
  BY <1>4, <1>5, DivisionExact
<1> QED BY <1>2, <1>3, <1>6

LEMMA MembersType ==
  ASSUME CommitteesSound, NEW a, NEW b, a..b \subseteq DOMAIN committees
  PROVE  members_between(a, b) \in SUBSET ValidatorIndex
BY DEF CommitteesSound, members_between

(* A span that holds an epoch is estimated at all the stake.               *)
LEMMA WholeEpoch ==
  ASSUME NEW a \in Nat, NEW b \in Nat, NEW e \in Nat,
         a <= e * SLOTS_PER_EPOCH, (e + 1) * SLOTS_PER_EPOCH - 1 <= b
  PROVE  is_full_validator_set_covered(a, b) /\ a <= b
<1> DEFINE S == SLOTS_PER_EPOCH
<1>1. S \in Nat \ {0}
  BY SizeFacts
<1> HIDE DEF S
<1>2. e * S \in Nat /\ (e + 1) * S = e * S + S
  BY <1>1
<1>3. a <= e * S /\ (e + 1) * S <= b + 1
  BY <1>1, <1>2 DEF S
<1>4. a + S - 1 \in Nat /\ b + 1 \in Nat /\ e + 1 \in Nat
  BY <1>1
<1>5. e + 1 <= compute_epoch_at_slot(b + 1)
  BY <1>3, <1>4, EpochBounds DEF S
<1>6. a + S - 1 < (e + 1) * S
  BY <1>1, <1>2, <1>3
<1>7. compute_epoch_at_slot(a + S - 1) < e + 1
  BY <1>4, <1>6, EpochBounds DEF S
<1>8. compute_epoch_at_slot(a + S - 1) \in Nat /\ compute_epoch_at_slot(b + 1) \in Nat
  BY <1>4, EpochOfSlot
<1>9. compute_epoch_at_slot(a + S - 1) < compute_epoch_at_slot(b + 1)
  BY <1>5, <1>7, <1>8
<1> QED BY <1>1, <1>2, <1>3, <1>9 DEF is_full_validator_set_covered, S

LEMMA CoveredSpanSound ==
  ASSUME balances \in BALANCES, CommitteesSound, NEW a \in Nat, NEW b \in Nat, a <= b,
         a..b \subseteq DOMAIN committees, is_full_validator_set_covered(a, b)
  PROVE  ~ exceeds(<<a, b>>)
<1>1. estimate_committee_weight_between_slots(total_balance, a, b) = total_balance
  BY DEF estimate_committee_weight_between_slots
<1>2. weight_of(members_between(a, b)) <= total_balance
  BY MembersType, WeightAtMostTotal
<1>3. weight_of(members_between(a, b)) \in Nat /\ total_balance \in Nat
  <2>1. ASSUME NEW members \in SUBSET ValidatorIndex PROVE weight_of(members) \in Nat
    BY WeightIsTotal, TotalType
  <2> QED BY <2>1, MembersType DEF total_balance
<1> QED BY <1>1, <1>2, <1>3 DEF exceeds

(* The committees of a span, those of them outside a set of validators,    *)
(* and a set without the members of a span that overlap it equally.        *)
LEMMA SpanSize ==
  ASSUME CommitteesSound, NEW first \in Nat, NEW k \in Nat,
         first..first+k-1 \subseteq DOMAIN committees
  PROVE  Cardinality(members_between(first, first + k - 1)) <= k * CommitteeSize
<1>1. CommitteeSize \in Nat /\ IsFiniteSet(ValidatorIndex)
  BY SizeFacts
<1>2. \A j \in first..first+k-1 :
        committees[j] \subseteq ValidatorIndex /\ Cardinality(committees[j]) <= CommitteeSize
  BY <1>1 DEF CommitteesSound
<1>3. Cardinality(UnionOf(committees, first, k)) <= k * CommitteeSize
  BY <1>1, <1>2, UnionAtMost
<1> QED BY <1>3 DEF members_between, UnionOf

LEMMA SpanOutside ==
  ASSUME CommitteesSound, NEW first \in Nat, NEW k \in Nat,
         first..first+k-1 \subseteq DOMAIN committees,
         NEW X, NEW n \in Nat,
         \A s \in first..first+k-1 : Cardinality(committees[s] \ X) <= n
  PROVE  Cardinality(members_between(first, first + k - 1) \ X) <= k * n
<1> DEFINE outside == [j \in first..first+k-1 |-> committees[j] \ X]
<1>1. IsFiniteSet(ValidatorIndex)
  BY SizeFacts
<1>2. \A j \in first..first+k-1 :
        outside[j] \subseteq ValidatorIndex /\ Cardinality(outside[j]) <= n
  BY DEF CommitteesSound
<1>3. UnionOf(outside, first, k) = members_between(first, first + k - 1) \ X
  BY DEF members_between, UnionOf
<1> HIDE DEF outside
<1>4. Cardinality(UnionOf(outside, first, k)) <= k * n
  BY <1>1, <1>2, UnionAtMost
<1> QED BY <1>3, <1>4

LEMMA SpanOverlap ==
  ASSUME CommitteesSound, NEW first \in Nat, NEW k \in Nat,
         first..first+k-1 \subseteq DOMAIN committees,
         \A s, t \in first..first+k-1 : compute_epoch_at_slot(s) = compute_epoch_at_slot(t),
         NEW X, IsFiniteSet(X), NEW q \in Nat,
         \A t \in first..first+k-1 : Cardinality(X \cap committees[t]) = q
  PROVE  Cardinality(X \ members_between(first, first + k - 1)) = Cardinality(X) - k * q
<1> DEFINE overlap == [j \in first..first+k-1 |-> X \cap committees[j]]
           members == members_between(first, first + k - 1)
<1>1. \A j \in first..first+k-1 : overlap[j] \subseteq X /\ Cardinality(overlap[j]) = q
  OBVIOUS
<1>2. EqualParts(overlap, X, q, first..first+k-1)
  <2>1. \A i, j \in first..first+k-1 : i # j => overlap[i] \cap overlap[j] = {}
    BY DEF CommitteesSound
  <2> HIDE DEF overlap
  <2> QED BY <1>1, <2>1 DEF EqualParts
<1>3. UnionOf(overlap, first, k) = X \cap members
  BY DEF members_between, UnionOf
<1> HIDE DEF overlap, members
<1>4. Cardinality(UnionOf(overlap, first, k)) = k * q
  BY <1>2, UnionExactly
<1>5. Cardinality(X \ members) = Cardinality(X) - Cardinality(X \cap members)
  BY FS_Difference
<1> QED BY <1>3, <1>4, <1>5 DEF members

(* Inside an epoch.                                                        *)
LEMMA EpochSpanSound ==
  ASSUME balances \in BALANCES, CommitteesSound, EqualBalances,
         NEW a \in Nat, NEW b \in Nat, a <= b, a..b \subseteq DOMAIN committees,
         compute_epoch_at_slot(a) = compute_epoch_at_slot(b)
  PROVE  ~ exceeds(<<a, b>>)
<1>1. CASE is_full_validator_set_covered(a, b)
  BY <1>1, CoveredSpanSound
<1>2. CASE ~ is_full_validator_set_covered(a, b)
  <2>1. PICK w \in Nat :
          /\ \A members \in SUBSET ValidatorIndex :
               weight_of(members) = w * Cardinality(members)
          /\ total_balance \div SLOTS_PER_EPOCH = w * CommitteeSize
    BY EqualWeights
  <2> DEFINE n == CommitteeSize
             k == b - a + 1
             members == members_between(a, b)
  <2>2. estimate_committee_weight_between_slots(total_balance, a, b) = (w * n) * k
    <3>1. ~ (a > b)
      OBVIOUS
    <3> QED BY <1>2, <2>1, <3>1 DEF estimate_committee_weight_between_slots
  <2>3. n \in Nat /\ k \in Nat
    BY SizeFacts
  <2>4. Cardinality(members) <= k * n
    <3>1. a + k - 1 = b
      BY <2>3
    <3>2. Cardinality(members_between(a, a + k - 1)) <= k * n
      <4> HIDE DEF k
      <4> QED BY <2>3, <3>1, SpanSize
    <3> QED BY <3>1, <3>2
  <2>5. members \in SUBSET ValidatorIndex
    BY MembersType
  <2>6. weight_of(members) = w * Cardinality(members)
    BY <2>1, <2>5
  <2>7. Cardinality(members) \in Nat
    BY <2>5, SizeFacts, FS_Subset, FS_CardinalityType
  <2> HIDE DEF n, k, members
  <2>8. w * Cardinality(members) <= w * (k * n)
    <3>1. k * n \in Nat
      BY <2>3
    <3> DEFINE kn == k * n
               m == Cardinality(members)
    <3>2. m \in Nat /\ kn \in Nat /\ m <= kn
      BY <2>4, <2>7, <3>1
    <3> HIDE DEF kn, m
    <3>3. m * w <= kn * w
      BY <3>2, ProductMonotone
    <3>4. m * w = w * m /\ kn * w = w * kn
      BY <3>2
    <3> QED BY <3>3, <3>4 DEF m, kn
  <2>9. w * (k * n) = (w * n) * k
    BY <2>3
  <2>10. w * Cardinality(members) \in Nat /\ (w * n) * k \in Nat
    BY <2>3, <2>7
  <2> QED BY <2>2, <2>6, <2>8, <2>9, <2>10 DEF exceeds, members
<1> QED BY <1>1, <1>2
(* Across a boundary, when every committee takes the same number of        *)
(* members from every committee of the epoch before: the members of the    *)
(* start epoch that are not members of the end epoch again are what the    *)
(* pro-rated part counts, rounding included.                               *)
LEMMA MixedSpanSound ==
  ASSUME balances \in BALANCES, CommitteesSound, EqualBalances, PerfectlyMixed,
         NEW a \in Nat, NEW b \in Nat, a <= b, a..b \subseteq DOMAIN committees
  PROVE  ~ exceeds(<<a, b>>)
<1>1. CASE is_full_validator_set_covered(a, b)
  BY <1>1, CoveredSpanSound
<1>2. CASE compute_epoch_at_slot(a) = compute_epoch_at_slot(b)
  BY <1>2, EpochSpanSound
<1>3. CASE /\ ~ is_full_validator_set_covered(a, b)
           /\ compute_epoch_at_slot(a) # compute_epoch_at_slot(b)
  <2> DEFINE S == SLOTS_PER_EPOCH
             e == compute_epoch_at_slot(a)
             border == e * S + S
             n == CommitteeSize
             k1 == border - a
             k2 == b - border + 1
  <2>1. S \in Nat \ {0} /\ n \in Nat
    BY SizeFacts
  <2>2. e \in Nat /\ e * S <= a /\ a < border
    BY EpochOfSlot
  <2>3. /\ border <= b /\ b < border + S
        /\ compute_epoch_at_slot(b) = e + 1
        /\ border = (e + 1) * S
    <3> DEFINE f == compute_epoch_at_slot(b)
    <3>1. f \in Nat /\ f * S <= b /\ b < f * S + S
      BY EpochOfSlot
    <3>2. e <= f
      <4>1. e * S <= b /\ e \in Nat
        <5>1. e * S \in Nat
          BY <2>1, <2>2
        <5> HIDE DEF e, S
        <5> QED BY <2>2, <5>1
      <4> QED BY <4>1, EpochBounds
    <3>3. f <= e + 1
      <4>1. a + S - 1 \in Nat /\ b + 1 \in Nat
        BY <2>1
      <4>2. compute_epoch_at_slot(b + 1) <= compute_epoch_at_slot(a + S - 1)
        <5>1. /\ compute_epoch_at_slot(a + S - 1) \in Nat
              /\ compute_epoch_at_slot(b + 1) \in Nat
          BY <4>1, EpochOfSlot
        <5> QED BY <1>3, <5>1 DEF is_full_validator_set_covered
      <4>3. compute_epoch_at_slot(a + S - 1) < e + 2
        <5>1. (e + 2) * S = e * S + S + S /\ e * S \in Nat
          BY <2>1, <2>2
        <5>2. a + S - 1 < (e + 2) * S /\ e + 2 \in Nat
          <6> HIDE DEF e, S
          <6> QED BY <2>1, <2>2, <5>1 DEF border
        <5> QED BY <4>1, <5>2, EpochBounds
      <4>4. f <= compute_epoch_at_slot(b + 1)
        <5>1. f * S <= b + 1
          <6>1. f * S \in Nat
            BY <2>1, <3>1
          <6> HIDE DEF f, S
          <6> QED BY <3>1, <6>1
        <5> QED BY <3>1, <4>1, <5>1, EpochBounds
      <4>5. /\ compute_epoch_at_slot(a + S - 1) \in Nat
            /\ compute_epoch_at_slot(b + 1) \in Nat
        BY <4>1, EpochOfSlot
      <4> HIDE DEF f, e
      <4> QED BY <2>2, <3>1, <4>2, <4>3, <4>4, <4>5
    <3>4. f = e + 1
      <4>1. f # e
        BY <1>3
      <4> HIDE DEF f, e
      <4> QED BY <2>2, <3>1, <3>2, <3>3, <4>1
    <3>5. (e + 1) * S = e * S + S
      BY <2>1, <2>2
    <3> HIDE DEF e, S
    <3> QED BY <3>1, <3>4, <3>5
  <2>4. border \in Nat /\ k1 \in Nat /\ k2 \in Nat /\ k1 # 0 /\ k2 # 0 /\ k2 <= S
    <3>1. e * S \in Nat
      BY <2>1, <2>2
    <3> HIDE DEF e, S
    <3> QED BY <2>1, <2>2, <2>3, <3>1
  <2>5. \A s \in a..border-1 : s \in DOMAIN committees /\ compute_epoch_at_slot(s) = e
    <3> SUFFICES ASSUME NEW s \in a..border-1
                 PROVE  s \in DOMAIN committees /\ compute_epoch_at_slot(s) = e
      OBVIOUS
    <3>1. s \in Nat /\ s \in a..b
      <4> HIDE DEF border
      <4> QED BY <2>3, <2>4
    <3>2. e <= compute_epoch_at_slot(s)
      <4>1. e * S <= s
        <5>1. e * S \in Nat
          BY <2>1, <2>2
        <5> HIDE DEF e, S
        <5> QED BY <2>2, <3>1, <5>1
      <4> QED BY <2>2, <3>1, <4>1, EpochBounds
    <3>3. compute_epoch_at_slot(s) < e + 1
      <4>1. s < (e + 1) * S /\ e + 1 \in Nat
        <5> HIDE DEF border, e, S
        <5> QED BY <2>2, <2>3, <2>4
      <4> QED BY <3>1, <4>1, EpochBounds
    <3>4. compute_epoch_at_slot(s) \in Nat
      BY <3>1, EpochOfSlot
    <3> HIDE DEF e
    <3> QED BY <2>2, <3>1, <3>2, <3>3, <3>4
  <2>6. \A t \in border..b : t \in DOMAIN committees /\ compute_epoch_at_slot(t) = e + 1
    <3> SUFFICES ASSUME NEW t \in border..b
                 PROVE  t \in DOMAIN committees /\ compute_epoch_at_slot(t) = e + 1
      OBVIOUS
    <3>1. t \in Nat /\ t \in a..b
      <4> HIDE DEF e, S
      <4> QED BY <2>2, <2>4
    <3>2. e + 1 <= compute_epoch_at_slot(t)
      <4>1. (e + 1) * S <= t /\ e + 1 \in Nat
        <5> HIDE DEF border, e, S
        <5> QED BY <2>2, <2>3, <2>4
      <4> QED BY <3>1, <4>1, EpochBounds
    <3>3. compute_epoch_at_slot(t) < e + 2
      <4>1. (e + 2) * S = border + S
        BY <2>1, <2>2
      <4>2. t < (e + 2) * S /\ e + 2 \in Nat
        <5> HIDE DEF border, e, S
        <5> QED BY <2>1, <2>2, <2>3, <2>4, <4>1
      <4> QED BY <3>1, <4>2, EpochBounds
    <3>4. compute_epoch_at_slot(t) \in Nat
      BY <3>1, EpochOfSlot
    <3> HIDE DEF e
    <3> QED BY <2>2, <3>1, <3>2, <3>3, <3>4
  <2> DEFINE q == Cardinality(committees[a] \cap committees[b])
             later == members_between(border, b)
             earlier == members_between(a, border - 1)
  <2>7. ASSUME NEW s \in a..border-1
        PROVE  IsFiniteSet(committees[s]) /\ Cardinality(committees[s]) = n
    <3>1. committees[s] \in SUBSET ValidatorIndex /\ Cardinality(committees[s]) = n
      BY <2>5 DEF CommitteesSound
    <3> QED BY <3>1, SizeFacts, FS_Subset
  <2>8. ASSUME NEW s \in a..border-1, NEW t \in border..b
        PROVE  /\ Cardinality(committees[s] \cap committees[t]) \in Nat
               /\ Cardinality(committees[s] \cap committees[t]) * S = n
    <3>1. IsFiniteSet(committees[s] \cap committees[t])
      BY <2>7, FS_Intersection
    <3>2. Cardinality(committees[s] \cap committees[t]) * S = Cardinality(committees[s])
      BY <2>5, <2>6 DEF PerfectlyMixed
    <3> QED BY <2>7, <3>1, <3>2, FS_CardinalityType
  <2>9. q \in Nat /\ q * S = n
    <3>1. a \in a..border-1 /\ b \in border..b
      <4> HIDE DEF border
      <4> QED BY <2>2, <2>3, <2>4
    <3> QED BY <2>8, <3>1
  <2>10. ASSUME NEW s \in a..border-1, NEW t \in border..b
         PROVE  Cardinality(committees[s] \cap committees[t]) = q
    <3> DEFINE r == Cardinality(committees[s] \cap committees[t])
    <3>1. r \in Nat /\ r * S = n
      BY <2>8
    <3> HIDE DEF r, q, S, n
    <3>2. (r * S) \div S = r /\ (q * S) \div S = q
      BY <2>1, <2>9, <3>1, DivisionExact
    <3> QED BY <2>9, <3>1, <3>2 DEF r
  <2> HIDE DEF q, S, e, k1, k2, n, border
  <2>11. border + k2 - 1 = b /\ a + k1 - 1 = border - 1
    BY <2>4 DEF k1, k2
  <2>12. ASSUME NEW s \in a..border-1
         PROVE  Cardinality(committees[s] \ later) = n - k2 * q
    <3>1. /\ border..border+k2-1 \subseteq DOMAIN committees
          /\ \A t, u \in border..border+k2-1 :
               compute_epoch_at_slot(t) = compute_epoch_at_slot(u)
      BY <2>6, <2>11
    <3>2. \A t \in border..border+k2-1 : Cardinality(committees[s] \cap committees[t]) = q
      BY <2>10, <2>11
    <3> DEFINE X == committees[s]
    <3>3. IsFiniteSet(X) /\ Cardinality(X) = n
          /\ \A t \in border..border+k2-1 : Cardinality(X \cap committees[t]) = q
      BY <2>7, <3>2
    <3> HIDE DEF X
    <3>4. Cardinality(X \ members_between(border, border + k2 - 1)) = Cardinality(X) - k2 * q
      BY <2>4, <2>9, <3>1, <3>3, SpanOverlap
    <3> QED BY <2>11, <3>3, <3>4 DEF X
  <2>13. n - k2 * q \in Nat
    <3>1. a \in a..border-1
      BY <2>2, <2>4
    <3>2. IsFiniteSet(committees[a] \ later)
      BY <2>7, <3>1, FS_Difference
    <3> QED BY <2>12, <3>1, <3>2, FS_CardinalityType
  <2>14. /\ IsFiniteSet(earlier) /\ earlier \in SUBSET ValidatorIndex
         /\ IsFiniteSet(later) /\ later \in SUBSET ValidatorIndex
         /\ members_between(a, b) = earlier \cup later
         /\ members_between(a, b) \in SUBSET ValidatorIndex
    <3>1. a..border-1 \subseteq a..b /\ border..b \subseteq a..b
      BY <2>2, <2>3, <2>4
    <3>2. a..border-1 \subseteq DOMAIN committees /\ border..b \subseteq DOMAIN committees
      BY <3>1
    <3>3. earlier \in SUBSET ValidatorIndex /\ later \in SUBSET ValidatorIndex
      BY <3>2, MembersType
    <3>4. a..b = (a..border-1) \cup (border..b)
      BY <2>2, <2>3, <2>4
    <3>5. members_between(a, b) = earlier \cup later
      BY <3>4 DEF members_between
    <3> QED BY <3>3, <3>5, SizeFacts, FS_Subset
  <2>15. Cardinality(earlier \ later) <= k1 * (n - k2 * q)
    <3> DEFINE m == n - k2 * q
    <3>1. m \in Nat /\ \A s \in a..a+k1-1 : Cardinality(committees[s] \ later) <= m
      <4> HIDE DEF later
      <4> QED BY <2>11, <2>12, <2>13
    <3>2. a..a+k1-1 \subseteq DOMAIN committees
      BY <2>5, <2>11
    <3> HIDE DEF m, later
    <3>3. Cardinality(members_between(a, a + k1 - 1) \ later) <= k1 * m
      BY <2>4, <3>1, <3>2, SpanOutside
    <3> QED BY <2>11, <3>3 DEF m
  <2>16. Cardinality(later) <= k2 * n
    <3>1. border..border+k2-1 \subseteq DOMAIN committees
      BY <2>6, <2>11
    <3>2. Cardinality(members_between(border, border + k2 - 1)) <= k2 * CommitteeSize
      BY <2>4, <3>1, SpanSize
    <3> QED BY <2>11, <3>2 DEF n
  <2> DEFINE bound == k1 * (n - k2 * q) + k2 * n
  <2>17. /\ Cardinality(members_between(a, b)) \in Nat
         /\ Cardinality(members_between(a, b)) <= bound
    <3> HIDE DEF earlier, later
    <3>1. IsFiniteSet(earlier \ later)
      BY <2>14, FS_Difference
    <3>2. earlier \cup later = (earlier \ later) \cup later
      OBVIOUS
    <3>3. (earlier \ later) \cap later = {}
      OBVIOUS
    <3> DEFINE only == earlier \ later
    <3>4. IsFiniteSet(only) /\ only \cap later = {} /\ earlier \cup later = only \cup later
      BY <3>1, <3>2, <3>3
    <3>5. Cardinality(only) <= k1 * (n - k2 * q)
      BY <2>15
    <3> HIDE DEF only
    <3>6. Cardinality(only \cup later) = Cardinality(only) + Cardinality(later) - 0
      BY <2>14, <3>4, FS_Union, FS_EmptySet
    <3>7. Cardinality(only) \in Nat /\ Cardinality(later) \in Nat
      BY <2>14, <3>4, FS_CardinalityType
    <3> DEFINE x == k1 * (n - k2 * q)
               y == k2 * n
    <3>8. x \in Int /\ y \in Int /\ bound = x + y
      BY <2>1, <2>4, <2>13
    <3>9. Cardinality(only) <= x /\ Cardinality(later) <= y
      BY <2>16, <3>5
    <3>10. members_between(a, b) = only \cup later
      BY <2>14, <3>4
    <3> HIDE DEF x, y, bound
    <3> QED BY <3>6, <3>7, <3>8, <3>9, <3>10
  <2>18. PICK w \in Nat :
           /\ \A members \in SUBSET ValidatorIndex :
                weight_of(members) = w * Cardinality(members)
           /\ total_balance \div SLOTS_PER_EPOCH = w * CommitteeSize
    BY EqualWeights
  <2> DEFINE pro_rated == (((w * n) * k1) \div S) * (S - k2)
             counted == pro_rated + (w * n) * k2
  <2>19. estimate_committee_weight_between_slots(total_balance, a, b)
           = adjust_committee_weight_estimate_to_ensure_safety(counted)
    <3>1. S - compute_slots_since_epoch_start(a) = k1
      <4>1. e * S \in Nat
        BY <2>1, <2>2
      <4>2. compute_slots_since_epoch_start(a) = a - e * S
        BY DEF compute_slots_since_epoch_start, compute_start_slot_at_epoch, e, S
      <4> QED BY <2>1, <4>1, <4>2 DEF k1, border
    <3>2. compute_slots_since_epoch_start(b) + 1 = k2
      <4>1. compute_slots_since_epoch_start(b) = b - (e + 1) * S
        BY <2>3 DEF compute_slots_since_epoch_start, compute_start_slot_at_epoch, S
      <4> QED BY <2>3, <2>4, <4>1 DEF k2
    <3>3. total_balance \div S = w * n
      BY <2>18 DEF S, n
    <3>4. ~ (a > b)
      OBVIOUS
    <3> QED BY <1>3, <3>1, <3>2, <3>3, <3>4 DEF estimate_committee_weight_between_slots, S
  <2>20. pro_rated = ((w * q) * k1) * (S - k2)
    <3>1. (w * n) * k1 = ((w * q) * k1) * S
      <4>1. (w * (q * S)) * k1 = ((w * q) * k1) * S
        BY <2>1, <2>4, <2>9
      <4> QED BY <2>9, <4>1
    <3>2. (w * q) * k1 \in Nat
      BY <2>4, <2>9
    <3>3. (((w * q) * k1) * S) \div S = (w * q) * k1
      BY <2>1, <3>2, DivisionExact
    <3> QED BY <3>1, <3>3
  <2>21. counted = w * bound
    <3>1. n - k2 * q = q * (S - k2)
      <4>1. q * (S - k2) = q * S - k2 * q
        BY <2>1, <2>4, <2>9
      <4> QED BY <2>9, <4>1
    <3>2. w * (k1 * (q * (S - k2))) = ((w * q) * k1) * (S - k2)
      BY <2>1, <2>4, <2>9
    <3>3. w * (k2 * n) = (w * n) * k2
      BY <2>1, <2>4
    <3> DEFINE x == k1 * (q * (S - k2))
               y == k2 * n
    <3>4. x \in Int /\ y \in Int /\ bound = x + y
      BY <2>1, <2>4, <2>9, <3>1
    <3> HIDE DEF pro_rated
    <3>5. counted = w * x + w * y
      BY <2>20, <3>2, <3>3
    <3> HIDE DEF x, y, bound, counted
    <3>6. w * (x + y) = w * x + w * y
      BY <3>4
    <3> QED BY <3>4, <3>5, <3>6
  <2> HIDE DEF bound, counted
  <2>22. bound \in Nat /\ w * Cardinality(members_between(a, b)) <= w * bound
    <3> DEFINE m == Cardinality(members_between(a, b))
    <3>1. bound \in Int
      BY <2>1, <2>4, <2>13 DEF bound
    <3>2. m \in Nat /\ m <= bound /\ bound \in Nat
      BY <2>17, <3>1
    <3> HIDE DEF m
    <3>3. m * w <= bound * w
      BY <3>2, ProductMonotone
    <3>4. m * w = w * m /\ bound * w = w * bound
      BY <3>2
    <3> QED BY <3>2, <3>3, <3>4 DEF m
  <2>23. weight_of(members_between(a, b)) = w * Cardinality(members_between(a, b))
    BY <2>14, <2>18
  <2>24. /\ counted \in Nat
         /\ weight_of(members_between(a, b)) \in Nat
         /\ weight_of(members_between(a, b)) <= counted
    <3>1. w * bound \in Nat /\ w * Cardinality(members_between(a, b)) \in Nat
      BY <2>17, <2>22
    <3> QED BY <2>21, <2>22, <2>23, <3>1
  <2>25. /\ adjust_committee_weight_estimate_to_ensure_safety(counted) \in Nat
         /\ counted <= adjust_committee_weight_estimate_to_ensure_safety(counted)
    BY <2>24, AdjustmentRaises
  <2> QED BY <2>19, <2>24, <2>25 DEF exceeds
<1> QED BY <1>1, <1>2, <1>3
-----------------------------------------------------------------------------
(* The invariant. *)

(* The sums in the invariant are those of the lemmas.                      *)
LEMMA OutweighsIsExceeds ==
  ASSUME balances \in BALANCES, CommitteesSound, NEW a, NEW b, a..b \subseteq DOMAIN committees
  PROVE  outweighs(<<a, b>>) <=> exceeds(<<a, b>>)
<1>1. members_between(a, b) \in SUBSET ValidatorIndex
  BY MembersType
<1>2. weight_of(members_between(a, b)) = Total(balances, members_between(a, b))
  BY <1>1, WeightIsTotal
<1>3. total_balance = Total(balances, ValidatorIndex)
  BY WeightIsTotal DEF total_balance
<1> QED BY <1>2, <1>3 DEF outweighs, exceeds

LEMMA AllSlotsRead ==
  ASSUME CommitteesSound, LastSlot \in DOMAIN committees
  PROVE  DOMAIN committees = Slots
<1> DEFINE S == SLOTS_PER_EPOCH
<1>1. S \in Nat \ {0} /\ EPOCHS \in Nat \ {0}
  BY SizeFacts
<1>2. PICK n \in 1..EPOCHS : DOMAIN committees = 0..n * S - 1
  BY DEF CommitteesSound
<1>3. n * S <= EPOCHS * S /\ n * S \in Nat /\ EPOCHS * S \in Nat
  BY <1>1, <1>2, ProductMonotone
<1>4. EPOCHS * S - 1 \in 0..n * S - 1
  BY <1>2 DEF LastSlot
<1> HIDE DEF S
<1>5. n * S = EPOCHS * S
  BY <1>3, <1>4
<1> QED BY <1>2, <1>5 DEF Slots, LastSlot, S

(* Every span the loops have compared lies in the epochs read.             *)
LEMMA ComparedSpans ==
  ASSUME SpansInv, NEW s \in Slots \X Slots, compared(s)
  PROVE  /\ DOMAIN committees = Slots
         /\ s[1] \in Nat /\ s[2] \in Nat
         /\ s[1]..s[2] \subseteq DOMAIN committees
         /\ s = <<s[1], s[2]>>
<1>1. s[1] \in Nat /\ s[2] \in Nat /\ s[1] \in Slots /\ s[2] \in Slots
  BY DEF Slots
<1>2. LastSlot \in DOMAIN committees
  BY <1>1 DEF SpansInv, SpanSound, compared
<1>3. DOMAIN committees = Slots
  BY <1>2, AllSlotsRead DEF SpansInv
<1>4. s[1]..s[2] \subseteq Slots
  BY <1>1, SizeFacts DEF Slots
<1> QED BY <1>1, <1>3, <1>4

LEMMA InvariantIsSound == SpansInv => EstimatesSound
<1> SUFFICES ASSUME SpansInv PROVE EstimatesSound
  OBVIOUS
<1> DEFINE found == {s \in Slots \X Slots : s[1] <= s[2] /\ compared(s) /\ exceeds(s)}
<1>1. balances \in BALANCES /\ CommitteesSound
  BY DEF SpansInv
<1>2. \A s \in Slots \X Slots : compared(s) => (outweighs(s) <=> exceeds(s))
  BY <1>1, ComparedSpans, OutweighsIsExceeds
<1>3. /\ failures["within_epoch"] =
           {s \in found : compute_epoch_at_slot(s[1]) = compute_epoch_at_slot(s[2])}
      /\ failures["cross_boundary"] =
           {s \in found : compute_epoch_at_slot(s[1]) # compute_epoch_at_slot(s[2])}
  BY <1>2 DEF SpansInv, FailuresSound, Kinds, kind_of
<1>4. AllFailures = found
  <2> HIDE DEF found
  <2> QED BY <1>3 DEF AllFailures
<1>5. ASSUME NEW s \in found
      PROVE  /\ s[1] \in Nat /\ s[2] \in Nat /\ s[1] <= s[2]
             /\ s[1]..s[2] \subseteq DOMAIN committees
             /\ exceeds(<<s[1], s[2]>>)
  BY ComparedSpans
<1> HIDE DEF found
<1>6. UniformWithinEpochSound
  BY <1>1, <1>3, <1>5, EpochSpanSound DEF UniformWithinEpochSound
<1>7. MixedShuffleSound
  BY <1>1, <1>4, <1>5, MixedSpanSound DEF MixedShuffleSound
<1>8. WholeEpochSound
  <2> SUFFICES ASSUME NEW s \in found, NEW e \in 0..EPOCHS-1,
                      s[1] <= e * SLOTS_PER_EPOCH, (e + 1) * SLOTS_PER_EPOCH - 1 <= s[2]
               PROVE  FALSE
    BY <1>4 DEF WholeEpochSound
  <2>1. e \in Nat
    OBVIOUS
  <2>2. is_full_validator_set_covered(s[1], s[2])
    BY <1>5, <2>1, WholeEpoch
  <2> QED BY <1>1, <1>5, <2>2, CoveredSpanSound
<1>9. SpansCompared
  <2>1. found = {s \in (0..LastSlot) \X (0..LastSlot) :
                   /\ s[1] <= s[2]
                   /\ \/ s[1] < span.a
                      \/ s[1] = span.a /\ s[2] < span.b
                   /\ weight_of(UNION {committees[slot] : slot \in s[1]..s[2]})
                        > estimate_committee_weight_between_slots(total_balance, s[1], s[2])}
    BY DEF found, Slots, compared, exceeds, members_between
  <2> QED BY <1>4, <2>1 DEF SpansCompared
<1> QED BY <1>6, <1>7, <1>8, <1>9 DEF EstimatesSound
LEMMA FirstShuffleSize ==
  ASSUME NEW slot \in 0..SLOTS_PER_EPOCH-1
  PROVE  Cardinality({i \in ValidatorIndex : i \div CommitteeSize = slot}) = CommitteeSize
<1> DEFINE n == CommitteeSize
           S == SLOTS_PER_EPOCH
           first == slot * n
           chosen == {i \in ValidatorIndex : i \div n = slot}
<1>1. n \in Nat \ {0} /\ S \in Nat \ {0} /\ ValidatorIndex = 0..n * S - 1
  <2>1. Cardinality(ValidatorIndex) = n * S
    BY SizeFacts
  <2> QED BY <2>1, SizeFacts, SpansAssumption
<1>2. slot \in Nat /\ slot + 1 <= S
  BY <1>1
<1> HIDE DEF n, S
<1>3. first \in Nat /\ first + n <= n * S
  <2>1. (slot + 1) * n <= S * n
    BY <1>1, <1>2, ProductMonotone
  <2>2. (slot + 1) * n = slot * n + n /\ S * n = n * S /\ slot * n \in Nat
    BY <1>1, <1>2
  <2> QED BY <2>1, <2>2
<1>4. ASSUME NEW i \in Nat
      PROVE  i \div n = slot <=> i \in first..first+n-1
  <2> DEFINE d == i \div n
  <2>1. d \in Nat /\ d * n <= i /\ i < d * n + n
    BY <1>1
  <2> HIDE DEF d
  <2>2. d * n \in Nat
    BY <1>1, <2>1
  <2>3. ASSUME d + 1 <= slot PROVE i < first
    <3>1. (d + 1) * n <= slot * n
      BY <1>1, <1>2, <2>1, <2>3, ProductMonotone
    <3>2. (d + 1) * n = d * n + n
      BY <1>1, <2>1
    <3> HIDE DEF first
    <3> QED BY <1>1, <1>3, <2>1, <2>2, <3>1, <3>2 DEF first
  <2>4. ASSUME slot + 1 <= d PROVE first + n <= i
    <3>1. (slot + 1) * n <= d * n
      BY <1>1, <1>2, <2>1, <2>4, ProductMonotone
    <3>2. (slot + 1) * n = first + n
      BY <1>1, <1>2
    <3> HIDE DEF first
    <3> QED BY <1>1, <1>3, <2>1, <2>2, <3>1, <3>2
  <2>5. d = slot \/ d + 1 <= slot \/ slot + 1 <= d
    BY <1>2, <2>1
  <2>6. d = slot => i \in first..first+n-1
    <3>1. d = slot => d * n = first
      OBVIOUS
    <3> HIDE DEF first
    <3> QED BY <1>1, <1>3, <2>1, <3>1
  <2>7. i \in first..first+n-1 => d = slot
    <3> HIDE DEF first
    <3> QED BY <1>1, <1>3, <2>3, <2>4, <2>5
  <2> QED BY <2>6, <2>7 DEF d
<1> HIDE DEF first
<1>5. chosen = first..first+n-1
  <2>1. n * S \in Nat
    BY <1>1
  <2>2. \A i \in first..first+n-1 : i \in Nat /\ i \in ValidatorIndex
    BY <1>1, <1>3, <2>1
  <2>3. \A i \in ValidatorIndex : i \in Nat
    BY <1>1
  <2> QED BY <1>4, <2>2, <2>3
<1>6. Cardinality(first..first+n-1) = n
  <2>1. Cardinality(first..first+n-1)
          = IF first > first + n - 1 THEN 0 ELSE first + n - 1 - first + 1
    BY <1>1, <1>3, FS_Interval
  <2> QED BY <1>1, <1>3, <2>1
<1> QED BY <1>5, <1>6 DEF n

(* Before the loops begin no span has been compared.                       *)
LEMMA NothingCompared ==
  ASSUME span.a = 0, span.b = 0, NEW s \in Slots \X Slots
  PROVE  ~ compared(s)
BY DEF compared, Slots

LEMMA SpansInvInit == SpansInit => SpansInv
<1> SUFFICES ASSUME SpansInit PROVE SpansInv
  OBVIOUS
<1> DEFINE S == SLOTS_PER_EPOCH
<1> USE DEF SpansInit
<1>1. S \in Nat \ {0} /\ EPOCHS \in Nat \ {0} /\ LastSlot \in Nat
  BY SizeFacts
<1>2. /\ DOMAIN committees = 0..S-1
      /\ \A slot \in 0..S-1 :
           committees[slot] = {i \in ValidatorIndex : i \div CommitteeSize = slot}
  BY DEF FirstShuffle, CommitteeSize
<1>3. CommitteesSound
  <2>1. 1 \in 1..EPOCHS /\ DOMAIN committees = 0..1 * S - 1
    BY <1>1, <1>2
  <2>2. \A slot \in DOMAIN committees :
          /\ committees[slot] \subseteq ValidatorIndex
          /\ Cardinality(committees[slot]) = CommitteeSize
    BY <1>2, FirstShuffleSize
  <2>3. \A s, t \in DOMAIN committees : s # t => committees[s] \cap committees[t] = {}
    BY <1>2
  <2> QED BY <2>1, <2>2, <2>3 DEF CommitteesSound
<1>4. SpanSound
  <2>1. members_between(0, 0 - 1) = {}
    BY DEF members_between
  <2> QED BY <1>1, <2>1 DEF SpanSound
<1>5. FailuresSound
  <2>1. \A s \in Slots \X Slots : ~ compared(s)
    BY NothingCompared
  <2> QED BY <2>1 DEF FailuresSound, Kinds
<1> QED BY <1>3, <1>4, <1>5 DEF SpansInv

(* The next epoch: the slots that follow those read, none of whose         *)
(* committees shares an epoch with an earlier one.                         *)
LEMMA ReadEpochKeeps ==
  ASSUME SpansInv, ReadEpoch
  PROVE  SpansInv'
<1> DEFINE S == SLOTS_PER_EPOCH
<1>1. S \in Nat \ {0} /\ EPOCHS \in Nat \ {0} /\ LastSlot \in Nat
  BY SizeFacts
<1>2. PICK n \in 1..EPOCHS : DOMAIN committees = 0..n * S - 1
  BY DEF SpansInv, CommitteesSound
<1>3. n \in Nat /\ n * S \in Nat /\ n + 1 <= EPOCHS
  <2>1. n # EPOCHS
    BY <1>1, <1>2 DEF ReadEpoch, LastSlot
  <2>2. n \in Nat /\ n * S \in Nat
    BY <1>1, <1>2
  <2> QED BY <1>1, <1>2, <2>1, <2>2
<1> DEFINE begin == n * S
<1>4. Cardinality(DOMAIN committees) = begin
  <2>1. begin \in Nat /\ DOMAIN committees = 0..begin-1
    BY <1>2, <1>3
  <2> HIDE DEF begin
  <2>2. Cardinality(0..begin-1) = IF 0 > begin - 1 THEN 0 ELSE begin - 1 - 0 + 1
    <3>1. begin - 1 \in Int /\ 0 \in Int
      BY <2>1
    <3> QED BY <3>1, FS_Interval
  <2> QED BY <2>1, <2>2
<1>5. PICK shuffle \in Shuffles(begin) :
        committees' = [slot \in DOMAIN committees \cup DOMAIN shuffle |->
                         IF slot \in DOMAIN committees THEN committees[slot] ELSE shuffle[slot]]
  BY <1>4 DEF ReadEpoch
<1>6. /\ DOMAIN shuffle = begin..begin+S-1
      /\ \A slot \in DOMAIN shuffle :
           shuffle[slot] \subseteq ValidatorIndex /\ Cardinality(shuffle[slot]) = CommitteeSize
      /\ \A s, t \in DOMAIN shuffle : s # t => shuffle[s] \cap shuffle[t] = {}
  BY DEF Shuffles, kSubset, CommitteeSize
<1> HIDE DEF begin
<1>7. DOMAIN committees' = (0..begin-1) \cup (begin..begin+S-1)
  BY <1>2, <1>5, <1>6 DEF begin
<1>8. \A slot \in 0..begin-1 : committees'[slot] = committees[slot]
  BY <1>2, <1>5 DEF begin
<1>9. \A slot \in begin..begin+S-1 : committees'[slot] = shuffle[slot]
  <2>1. \A slot \in begin..begin+S-1 : slot \notin 0..begin-1
    BY <1>3 DEF begin
  <2> QED BY <1>2, <1>5, <1>6, <2>1 DEF begin
<1>10. \A slot \in 0..begin-1 : compute_epoch_at_slot(slot) < n
  BY <1>3, EpochBounds DEF begin
<1>11. \A slot \in begin..begin+S-1 : slot \in Nat /\ n <= compute_epoch_at_slot(slot)
  <2>1. \A slot \in begin..begin+S-1 : slot \in Nat /\ n * S <= slot
    BY <1>3 DEF begin
  <2> QED BY <1>3, <2>1, EpochBounds
<1>12. CommitteesSound'
  <2>1. n + 1 \in 1..EPOCHS /\ DOMAIN committees' = 0..(n + 1) * S - 1
    <3>1. (n + 1) * S = begin + S
      BY <1>1, <1>3 DEF begin
    <3>2. begin \in Nat
      BY <1>3 DEF begin
    <3> HIDE DEF S
    <3>3. (0..begin-1) \cup (begin..begin+S-1) = 0..begin+S-1
      BY <1>1, <3>2 DEF S
    <3>4. n + 1 \in 1..EPOCHS
      BY <1>1, <1>3
    <3>5. DOMAIN committees' = 0..begin+S-1
      BY <1>7, <3>3
    <3> DEFINE border == (n + 1) * S
    <3>6. border = begin + S
      BY <3>1
    <3> HIDE DEF border
    <3>7. DOMAIN committees' = 0..border-1
      BY <1>1, <3>2, <3>5, <3>6
    <3> QED BY <3>4, <3>7 DEF border
  <2>2. \A slot \in DOMAIN committees' :
          committees'[slot] \subseteq ValidatorIndex /\ Cardinality(committees'[slot]) = CommitteeSize
    <3>1. \A slot \in 0..begin-1 :
            committees[slot] \subseteq ValidatorIndex /\ Cardinality(committees[slot]) = CommitteeSize
      BY <1>2 DEF SpansInv, CommitteesSound, begin
    <3> QED BY <1>6, <1>7, <1>8, <1>9, <3>1
  <2>3. ASSUME NEW s \in DOMAIN committees', NEW t \in DOMAIN committees', s # t,
               compute_epoch_at_slot(s) = compute_epoch_at_slot(t)
        PROVE  committees'[s] \cap committees'[t] = {}
    <3>1. CASE s \in 0..begin-1 /\ t \in 0..begin-1
      <4>1. s \in DOMAIN committees /\ t \in DOMAIN committees
        BY <1>2, <3>1 DEF begin
      <4>2. committees[s] \cap committees[t] = {}
        BY <2>3, <4>1 DEF SpansInv, CommitteesSound
      <4> QED BY <1>8, <3>1, <4>2
    <3>2. CASE s \in begin..begin+S-1 /\ t \in begin..begin+S-1
      BY <1>6, <1>9, <2>3, <3>2
    <3>3. ASSUME NEW old \in 0..begin-1, NEW new \in begin..begin+S-1
          PROVE  compute_epoch_at_slot(old) # compute_epoch_at_slot(new)
      <4>1. compute_epoch_at_slot(old) \in Nat /\ compute_epoch_at_slot(new) \in Nat
        BY <1>11, EpochOfSlot
      <4>2. compute_epoch_at_slot(old) < n /\ n <= compute_epoch_at_slot(new)
        BY <1>10, <1>11
      <4> QED BY <1>3, <4>1, <4>2
    <3> QED BY <1>7, <2>3, <3>1, <3>2, <3>3
  <2> QED BY <2>1, <2>2, <2>3 DEF CommitteesSound, S
<1>13. span' = span /\ span.a = 0 /\ span.b = 0
  BY DEF ReadEpoch, SpansInv, SpanSound
<1>14. SpanSound'
  <2>1. members_between(0, 0 - 1) = {} /\ members_between(0, 0 - 1)' = {}
    BY DEF members_between
  <2> QED BY <1>13, <2>1 DEF SpansInv, SpanSound
<1>15. FailuresSound'
  <2>1. \A s \in Slots \X Slots : ~ compared(s)
    BY <1>13, NothingCompared
  <2>2. \A s \in Slots \X Slots : ~ compared(s)'
    BY <1>13, <2>1 DEF compared
  <2>3. failures' = failures
    BY DEF ReadEpoch
  <2> QED BY <2>1, <2>2, <2>3 DEF SpansInv, FailuresSound
<1> QED BY <1>12, <1>14, <1>15 DEF SpansInv, ReadEpoch

(* One iteration compares the span it is at and goes to the next.          *)
LEMMA CheckSpanKeeps ==
  ASSUME SpansInv, CheckSpan
  PROVE  SpansInv'
<1> DEFINE a == span.a
           b == span.b
           members == span.members \cup committees[b]
<1>1. DOMAIN committees = Slots /\ LastSlot \in Nat
  BY AllSlotsRead, SizeFacts DEF CheckSpan, SpansInv
<1>2. a \in Nat /\ b \in Nat /\ a <= b /\ b <= LastSlot /\ b \in Slots
  BY <1>1 DEF CheckSpan, SpansInv, SpanSound, Slots
<1>3. balances' = balances /\ committees' = committees
  BY DEF CheckSpan
<1>4. members = members_between(a, b) /\ members \in SUBSET ValidatorIndex
  <2>1. span.members = members_between(a, b - 1)
    BY DEF SpansInv, SpanSound
  <2>2. a..b = (a..(b-1)) \cup {b}
    BY <1>2
  <2>3. members_between(a, b) = members_between(a, b - 1) \cup committees[b]
    <3> HIDE DEF a, b
    <3> QED BY <2>2 DEF members_between
  <2>4. a..b \subseteq DOMAIN committees
    BY <1>1, <1>2 DEF Slots
  <2> QED BY <2>1, <2>3, <2>4, MembersType DEF SpansInv
<1> DEFINE here == <<a, b>>
           kind == kind_of(a, b)
           over == weight_of(members) > estimate_committee_weight_between_slots(total_balance, a, b)
<1>5. /\ failures' = IF over THEN [failures EXCEPT ![kind] = @ \cup {here}] ELSE failures
      /\ span' = next_span(members)
  BY DEF CheckSpan
<1>6. over <=> outweighs(here)
  <2>1. weight_of(members) = Total(balances, members_between(a, b))
    BY <1>4, WeightIsTotal DEF SpansInv
  <2>2. total_balance = Total(balances, ValidatorIndex)
    BY WeightIsTotal DEF total_balance, SpansInv
  <2> QED BY <2>1, <2>2 DEF outweighs
<1> HIDE DEF members, over
<1>7. ASSUME NEW s \in Slots \X Slots, s[1] <= s[2]
      PROVE  compared(s)' <=> compared(s) \/ s = here
  <2>1. /\ s[1] \in Nat /\ s[2] \in Nat /\ s[2] <= LastSlot
        /\ (s = here <=> s[1] = a /\ s[2] = b)
    BY DEF Slots
  <2>2. compared(s) <=> s[1] < a \/ (s[1] = a /\ s[2] < b)
    BY DEF compared
  <2>3. compared(s)' <=> s[1] < span'.a \/ (s[1] = span'.a /\ s[2] < span'.b)
    BY DEF compared
  <2>4. CASE b < LastSlot
    <3>1. span'.a = a /\ span'.b = b + 1
      BY <1>5, <2>4 DEF next_span, SpansInv, SpanSound
    <3> HIDE DEF a, b, here
    <3> QED BY <1>2, <2>1, <2>2, <2>3, <3>1
  <2>5. CASE ~ (b < LastSlot)
    <3>1. span'.a = a + 1 /\ span'.b = a + 1 /\ b = LastSlot
      BY <1>1, <1>2, <1>5, <2>5 DEF next_span
    <3> HIDE DEF a, b, here
    <3> QED BY <1>1, <1>2, <1>7, <2>1, <2>2, <2>3, <3>1
  <2> QED BY <2>4, <2>5
<1>8. SpanSound'
  <2>1. /\ span' \in [a : Nat, b : Nat, members : SUBSET ValidatorIndex]
        /\ span'.a <= span'.b
        /\ span'.b <= LastSlot \/ (span'.a = LastSlot + 1 /\ span'.b = LastSlot + 1)
        /\ span'.members = members_between(span'.a, span'.b - 1)
    <3>1. CASE b < LastSlot
      <4>1. /\ span'.a = a /\ span'.b = b + 1 /\ span'.members = members
            /\ span' = [a |-> a, b |-> b + 1, members |-> members]
        BY <1>5, <3>1 DEF next_span, SpansInv, SpanSound
      <4>2. b + 1 - 1 = b
        BY <1>2
      <4> HIDE DEF a, b
      <4> QED BY <1>1, <1>2, <1>4, <3>1, <4>1, <4>2
    <3>2. CASE ~ (b < LastSlot)
      <4>1. /\ span'.a = a + 1 /\ span'.b = a + 1 /\ span'.members = {}
            /\ span' = [a |-> a + 1, b |-> a + 1, members |-> {}]
        BY <1>5, <3>2 DEF next_span
      <4>2. members_between(a + 1, a + 1 - 1) = {}
        <5> HIDE DEF a
        <5> QED BY <1>2 DEF members_between
      <4>3. a + 1 <= LastSlot \/ a + 1 = LastSlot + 1
        <5> HIDE DEF a, b
        <5> QED BY <1>1, <1>2, <3>2
      <4> HIDE DEF a, b
      <4> QED BY <1>1, <1>2, <4>1, <4>2, <4>3
    <3> QED BY <3>1, <3>2
  <2>2. LastSlot \in DOMAIN committees'
    BY <1>3 DEF CheckSpan
  <2>3. members_between(span.a, span.b - 1)' = members_between(span'.a, span'.b - 1)
    BY <1>3 DEF members_between
  <2> QED BY <2>1, <2>2, <2>3 DEF SpanSound
<1>9. FailuresSound'
  <2> DEFINE wanted(k) == {s \in Slots \X Slots :
               s[1] <= s[2] /\ compared(s) /\ kind_of(s[1], s[2]) = k /\ outweighs(s)}
             wanted_next(k) == {s \in Slots \X Slots :
               s[1] <= s[2] /\ compared(s)' /\ kind_of(s[1], s[2]) = k /\ outweighs(s)}
  <2>1. failures = [k \in Kinds |-> wanted(k)]
    BY DEF SpansInv, FailuresSound
  <2>2. \A s \in Slots \X Slots : outweighs(s)' <=> outweighs(s)
    BY <1>3 DEF outweighs, members_between
  <2>3. kind \in Kinds /\ here \in Slots \X Slots /\ here[1] <= here[2]
        /\ kind_of(here[1], here[2]) = kind
    BY <1>1, <1>2 DEF kind_of, Kinds, Slots
  <2>4. ASSUME NEW k \in Kinds
        PROVE  wanted_next(k) = wanted(k) \cup IF k = kind /\ over THEN {here} ELSE {}
    <3> HIDE DEF here, kind
    <3> QED BY <1>6, <1>7, <2>3
  <2>5. failures' = [k \in Kinds |-> wanted_next(k)]
    <3> HIDE DEF wanted, wanted_next, here, kind
    <3> QED BY <1>5, <2>1, <2>3, <2>4
  <2>6. \A k \in Kinds : wanted_next(k) = {s \in Slots \X Slots :
               s[1] <= s[2] /\ compared(s)' /\ kind_of(s[1], s[2]) = k /\ outweighs(s)'}
    BY <2>2
  <2> QED BY <2>5, <2>6 DEF FailuresSound
<1>10. CommitteesSound' /\ balances' \in BALANCES
  BY <1>3 DEF SpansInv, CommitteesSound
<1> QED BY <1>8, <1>9, <1>10 DEF SpansInv

(* The loops of estimate_spans: the committees read so far are equal       *)
(* partitions, the members are those of the span, and the failures are the *)
(* spans compared whose weight exceeds the estimate.                       *)
THEOREM SpansInvariant == SpansSpec => []SpansInv
<1>1. SpansInit => SpansInv
  BY SpansInvInit
<1>2. SpansInv /\ [SpansNext]_span_vars => SpansInv'
  <2> SUFFICES ASSUME SpansInv, [SpansNext]_span_vars PROVE SpansInv'
    OBVIOUS
  <2>1. CASE ReadEpoch
    BY <2>1, ReadEpochKeeps
  <2>2. CASE CheckSpan
    BY <2>2, CheckSpanKeeps
  <2>3. CASE UNCHANGED span_vars
    BY <2>3 DEF span_vars, SpansInv, CommitteesSound, SpanSound, FailuresSound,
                compared, outweighs, members_between
  <2> QED BY <2>1, <2>2, <2>3 DEF SpansNext
<1> QED BY <1>1, <1>2, PTL DEF SpansSpec

(* For any number of validators, slots and epochs, any balances and any    *)
(* shuffles, estimate_committee_weight_between_slots is never too low for  *)
(* a span that holds a whole epoch; nor, when balances are equal, for one  *)
(* inside an epoch, or for any span if the shuffles are perfectly mixed.   *)
(* The loops report exactly the spans for which it is too low.             *)
THEOREM EstimateIsSound == SpansSpec => []EstimatesSound
BY SpansInvariant, InvariantIsSound, PTL
=============================================================================
