---------------------------- MODULE EstimateSpans ----------------------------
(***************************************************************************)
(* The economic part of check_real_bundle.py: the committees of every slot *)
(* are read epoch by epoch from an accepted run, and the rule's estimate   *)
(* of the weight between two slots is compared with the weight of the      *)
(* committees, span by span, in two nested loops.                          *)
(*                                                                         *)
(* The script has one shuffle per epoch, that of its run; here an epoch's  *)
(* shuffle is any partition into equal committees.                         *)
(***************************************************************************)
EXTENDS FastConfirmation

CONSTANTS
  EPOCHS,       \* bound: the epochs whose committees are read
  BALANCES      \* the effective balances a genesis may give the validators

(* A genesis has the same number of validators for every slot.             *)
ASSUME SpansAssumption ==
  /\ EPOCHS \in Nat \ {0}
  /\ BALANCES \subseteq [ValidatorIndex -> Nat]
  /\ ValidatorIndex = 0..Cardinality(ValidatorIndex)-1
  /\ ValidatorIndex # {}
  /\ Cardinality(ValidatorIndex) % SLOTS_PER_EPOCH = 0

VARIABLES
  balances,     \* the effective balance of every validator
  committees,   \* a dictionary from slots
  span,         \* the loops: the slots a and b, and the members since a
  failures      \* of either kind, the spans whose weight exceeds the estimate

span_vars == <<balances, committees, span, failures>>

weight_of(members) == MapThenSumSet(LAMBDA i : balances[i], members)

total_balance == weight_of(ValidatorIndex)

LastSlot == EPOCHS * SLOTS_PER_EPOCH - 1

(* The ways to give each slot of an epoch as many validators as the others. *)
Shuffles(first) ==
  LET size == Cardinality(ValidatorIndex) \div SLOTS_PER_EPOCH
      slot_sets == kSubset(size, ValidatorIndex)
  IN  {shuffle \in [first..first+SLOTS_PER_EPOCH-1 -> slot_sets] :
         \A s, t \in DOMAIN shuffle : s # t => shuffle[s] \cap shuffle[t] = {}}

(* The first epoch's shuffle only names the validators. *)
FirstShuffle ==
  LET size == Cardinality(ValidatorIndex) \div SLOTS_PER_EPOCH
  IN  [slot \in 0..SLOTS_PER_EPOCH-1 |-> {i \in ValidatorIndex : i \div size = slot}]

kind_of(a, b) ==
  IF compute_epoch_at_slot(a) = compute_epoch_at_slot(b) THEN "within_epoch" ELSE "cross_boundary"

-----------------------------------------------------------------------------
SpansInit ==
  /\ balances \in BALANCES
  /\ committees = FirstShuffle
  /\ span = [a |-> 0, b |-> 0, members |-> {}]
  /\ failures = [kind \in {"within_epoch", "cross_boundary"} |-> {}]

ReadEpoch ==
  /\ LastSlot \notin DOMAIN committees
  /\ \E shuffle \in Shuffles(Cardinality(DOMAIN committees)) :
       committees' = [slot \in DOMAIN committees \cup DOMAIN shuffle |->
                        IF slot \in DOMAIN committees THEN committees[slot] ELSE shuffle[slot]]
  /\ UNCHANGED <<balances, span, failures>>

(* Mutant: the members of the last start are kept. *)
next_span_keeping(members) ==
  IF span.b < LastSlot THEN [span EXCEPT !.b = @ + 1, !.members = members]
  ELSE [a |-> span.a + 1, b |-> span.a + 1, members |-> members]

next_span(members) ==
  IF span.b < LastSlot THEN [span EXCEPT !.b = @ + 1, !.members = members]
  ELSE [a |-> span.a + 1, b |-> span.a + 1, members |-> {}]

(* One iteration of the inner loop. *)
CheckSpan ==
  /\ LastSlot \in DOMAIN committees
  /\ span.a <= LastSlot
  /\ LET members == span.members \cup committees[span.b]
         estimate == estimate_committee_weight_between_slots(total_balance, span.a, span.b)
     IN  /\ failures' = IF weight_of(members) > estimate
                        THEN [failures EXCEPT ![kind_of(span.a, span.b)] = @ \cup {<<span.a, span.b>>}]
                        ELSE failures
         /\ span' = next_span(members)
  /\ UNCHANGED <<balances, committees>>

SpansNext == ReadEpoch \/ CheckSpan

SpansSpec == SpansInit /\ [][SpansNext]_span_vars

-----------------------------------------------------------------------------
(* Properties. *)

EqualBalances == \A i, j \in ValidatorIndex : balances[i] = balances[j]

AllFailures == failures["within_epoch"] \cup failures["cross_boundary"]

(* Every committee takes the same number of validators from every committee *)
(* of the epoch before.                                                     *)
PerfectlyMixed ==
  \A s, t \in DOMAIN committees :
    compute_epoch_at_slot(t) = compute_epoch_at_slot(s) + 1 =>
      Cardinality(committees[s] \cap committees[t]) * SLOTS_PER_EPOCH = Cardinality(committees[s])

(* What the script requires of its uniform genesis: with equal balances the *)
(* estimate of a span inside an epoch is never too low, whatever the        *)
(* shuffle.                                                                 *)
UniformWithinEpochSound ==
  EqualBalances => failures["within_epoch"] = {}

(* The reading of the pro-rated estimate the script gives for its failures  *)
(* across a boundary: they are those of the shuffle, and there are none in  *)
(* a perfectly mixed one, the rounding of the estimate included.            *)
MixedShuffleSound ==
  EqualBalances /\ PerfectlyMixed => AllFailures = {}

(* Where a span holds a whole epoch the estimate is all the stake, and no   *)
(* balances and no shuffle can exceed it.                                   *)
WholeEpochSound ==
  \A failed \in AllFailures : \A e \in 0..EPOCHS-1 :
    ~ (failed[1] <= e * SLOTS_PER_EPOCH /\ (e + 1) * SLOTS_PER_EPOCH - 1 <= failed[2])

(* The loops have compared every span up to where they are, with the weight *)
(* of all its members and none of another span's.                           *)
SpansCompared ==
  AllFailures =
    {s \in (0..LastSlot) \X (0..LastSlot) :
       /\ s[1] <= s[2]
       /\ \/ s[1] < span.a
          \/ s[1] = span.a /\ s[2] < span.b
       /\ weight_of(UNION {committees[slot] : slot \in s[1]..s[2]})
            > estimate_committee_weight_between_slots(total_balance, s[1], s[2])}

(* The estimate of the rule, and the loops that measure it.                *)
EstimatesSound ==
  /\ UniformWithinEpochSound
  /\ MixedShuffleSound
  /\ WholeEpochSound
  /\ SpansCompared
=============================================================================
