----------------------- MODULE FastConfirmationProofs -----------------------
(***************************************************************************)
(* A node that runs the rule keeps its fork-choice store as it would       *)
(* without it; the checkpoints the rule observes stay behind those of the  *)
(* store; a block the rule confirms has the margin that keeps it ahead of  *)
(* its rivals; what a query confirms is canonical, and within an epoch it  *)
(* only extends what was confirmed before; and the execution block the     *)
(* node reports as safe was verified.                                      *)
(***************************************************************************)
EXTENDS FastConfirmationNode, ForkChoiceProofs

-----------------------------------------------------------------------------
(* The rule reads the store and never writes it.                           *)

LEMMA NodeStepIsStoreStep == [NodeNext]_node_vars => [Next]_vars
<1>1. ASSUME TickSecond PROVE Next
  BY <1>1 DEF TickSecond, Next
<1>2. ASSUME FinishTick PROVE Next
  BY <1>2 DEF FinishTick, Next
<1>3. ASSUME HandleMessage PROVE Next
  BY <1>3 DEF HandleMessage, Next
<1>4. ASSUME OnFastConfirmation PROVE UNCHANGED vars
  BY <1>4 DEF OnFastConfirmation
<1>5. ASSUME UNCHANGED node_vars PROVE UNCHANGED vars
  BY <1>5 DEF node_vars, vars
<1> QED BY <1>1, <1>2, <1>3, <1>4, <1>5 DEF NodeNext

(* Whatever holds of the store by itself holds of it in a node: running    *)
(* on_fast_confirmation in between has no effect on the fork choice.       *)
THEOREM RuleLeavesStoreAlone == NodeSpec => Spec
<1>1. NodeInit => Init
  BY DEF NodeInit
<1> QED BY <1>1, NodeStepIsStoreStep, PTL DEF NodeSpec, Spec

-----------------------------------------------------------------------------
(* What a query does to the checkpoints the rule keeps.                    *)

Kept(f) ==
  [confirmed_root |-> f.confirmed_root,
   previous_epoch_observed_justified_checkpoint |->
     f.previous_epoch_observed_justified_checkpoint,
   current_epoch_observed_justified_checkpoint |->
     f.current_epoch_observed_justified_checkpoint,
   previous_epoch_greatest_unrealized_checkpoint |->
     f.previous_epoch_greatest_unrealized_checkpoint,
   previous_slot_head |-> f.previous_slot_head,
   current_slot_head |-> f.current_slot_head]

LEMMA QueryEffect ==
  ASSUME NEW s, NEW f, f = Kept(f)
  PROVE  LET g == on_fast_confirmation(s, f)
             greatest == IF is_start_slot_at_epoch(get_current_slot(s) + 1)
                         THEN s.unrealized_justified_checkpoint
                         ELSE f.previous_epoch_greatest_unrealized_checkpoint
         IN  /\ g = Kept(g)
             /\ g.previous_epoch_greatest_unrealized_checkpoint = greatest
             /\ g.previous_epoch_observed_justified_checkpoint =
                  IF at_epoch_start(s)
                  THEN f.current_epoch_observed_justified_checkpoint
                  ELSE f.previous_epoch_observed_justified_checkpoint
             /\ g.current_epoch_observed_justified_checkpoint =
                  IF at_epoch_start(s) THEN greatest
                  ELSE f.current_epoch_observed_justified_checkpoint
<1> DEFINE greatest == IF is_start_slot_at_epoch(get_current_slot(s) + 1)
                       THEN s.unrealized_justified_checkpoint
                       ELSE f.previous_epoch_greatest_unrealized_checkpoint
           head == get_head(s).root
           updated == update_fast_confirmation_variables(s, f, head)
           g == on_fast_confirmation(s, f)
<1>1. /\ updated = Kept(updated)
      /\ updated.previous_epoch_greatest_unrealized_checkpoint = greatest
      /\ updated.previous_epoch_observed_justified_checkpoint =
           IF at_epoch_start(s)
           THEN f.current_epoch_observed_justified_checkpoint
           ELSE f.previous_epoch_observed_justified_checkpoint
      /\ updated.current_epoch_observed_justified_checkpoint =
           IF at_epoch_start(s) THEN greatest
           ELSE f.current_epoch_observed_justified_checkpoint
  <2> HIDE DEF greatest, head
  <2>1. updated = [f EXCEPT
           !.previous_slot_head = f.current_slot_head,
           !.current_slot_head = head,
           !.previous_epoch_greatest_unrealized_checkpoint = greatest,
           !.previous_epoch_observed_justified_checkpoint =
             IF at_epoch_start(s)
             THEN f.current_epoch_observed_justified_checkpoint ELSE @,
           !.current_epoch_observed_justified_checkpoint =
             IF at_epoch_start(s) THEN greatest ELSE @]
    BY DEF update_fast_confirmation_variables, greatest
  <2> HIDE DEF updated
  <2> QED BY <2>1 DEF Kept
<1>2. g = [updated EXCEPT !.confirmed_root = get_latest_confirmed(s, updated, head)]
  BY DEF on_fast_confirmation, query
<1> HIDE DEF head, updated, g, greatest
<1>3. /\ g = Kept(g)
      /\ g.previous_epoch_greatest_unrealized_checkpoint
           = updated.previous_epoch_greatest_unrealized_checkpoint
      /\ g.previous_epoch_observed_justified_checkpoint
           = updated.previous_epoch_observed_justified_checkpoint
      /\ g.current_epoch_observed_justified_checkpoint
           = updated.current_epoch_observed_justified_checkpoint
  BY <1>1, <1>2 DEF Kept
<1> QED BY <1>1, <1>3 DEF g, greatest

-----------------------------------------------------------------------------
(* The inductive invariant.  What the rule observes at an epoch start is   *)
(* the greatest unrealized checkpoint of the last query; the tick that     *)
(* opened the epoch has realized it, so between that tick and the query    *)
(* the store's justified checkpoint is already as recent.                  *)

KeptTypeOK ==
  /\ fcr_store = Kept(fcr_store)
  /\ fcr_store.previous_epoch_observed_justified_checkpoint \in Checkpoint
  /\ fcr_store.current_epoch_observed_justified_checkpoint \in Checkpoint
  /\ fcr_store.previous_epoch_greatest_unrealized_checkpoint \in Checkpoint
  /\ queried_time \in Nat

GreatestRealizedBeforeQuery ==
  IsQueryDue /\ at_epoch_start(store) =>
    fcr_store.previous_epoch_greatest_unrealized_checkpoint.epoch
      <= store.justified_checkpoint.epoch

RuleInv ==
  /\ KeptTypeOK
  /\ ObservedNeverAheadOfJustified
  /\ GreatestRealizedBeforeQuery

(* The justified checkpoint and the unrealized one do not move back.       *)
JustifiedAdvances ==
  /\ store.justified_checkpoint.epoch <= store'.justified_checkpoint.epoch
  /\ store.unrealized_justified_checkpoint.epoch
       <= store'.unrealized_justified_checkpoint.epoch

(* With more than one slot per epoch, an epoch's first slot is not its     *)
(* last.                                                                   *)
LEMMA FirstSlotIsNotLast ==
  ASSUME SLOTS_PER_EPOCH > 1, NEW slot \in Nat, is_start_slot_at_epoch(slot)
  PROVE  ~is_start_slot_at_epoch(slot + 1)
<1> DEFINE n == SLOTS_PER_EPOCH
           q == slot \div n
<1>1. n \in Nat \ {0} /\ q \in Nat
  BY ConfigAssumption
<1>2. slot = q * n
  BY <1>1 DEF is_start_slot_at_epoch, compute_slots_since_epoch_start,
              compute_start_slot_at_epoch, compute_epoch_at_slot
<1>3. IF ((slot + 1) \div n) * n = slot + 1
      THEN (slot + 1) \div n = q + 1 ELSE (slot + 1) \div n = q
  BY <1>1, DivSuccessor
<1>4. /\ (q + 1) * n = q * n + n
      /\ q * n + n # q * n + 1
  BY <1>1
<1> HIDE DEF q
<1>5. is_start_slot_at_epoch(slot + 1) <=> slot + 1 = ((slot + 1) \div n) * n
  <2>1. ((slot + 1) \div n) * n \in Nat
    BY <1>1
  <2> QED BY <2>1 DEF is_start_slot_at_epoch, compute_slots_since_epoch_start,
                      compute_start_slot_at_epoch, compute_epoch_at_slot
<1> QED BY <1>2, <1>3, <1>4, <1>5

LEMMA QueryKeepsInv ==
  ASSUME SLOTS_PER_EPOCH > 1, TypeOK, RuleInv, OnFastConfirmation
  PROVE  RuleInv'
<1> DEFINE f == fcr_store
           greatest == IF is_start_slot_at_epoch(get_current_slot(store) + 1)
                       THEN store.unrealized_justified_checkpoint
                       ELSE f.previous_epoch_greatest_unrealized_checkpoint
<1>1. /\ fcr_store' = Kept(fcr_store')
      /\ fcr_store'.previous_epoch_greatest_unrealized_checkpoint = greatest
      /\ fcr_store'.previous_epoch_observed_justified_checkpoint =
           IF at_epoch_start(store)
           THEN f.current_epoch_observed_justified_checkpoint
           ELSE f.previous_epoch_observed_justified_checkpoint
      /\ fcr_store'.current_epoch_observed_justified_checkpoint =
           IF at_epoch_start(store) THEN greatest
           ELSE f.current_epoch_observed_justified_checkpoint
  BY QueryEffect DEF OnFastConfirmation, RuleInv, KeptTypeOK
<1>2. store' = store /\ queried_time' = store.time /\ IsQueryDue
  BY DEF OnFastConfirmation, vars
<1>3. /\ store.time \in Nat
      /\ store.justified_checkpoint \in Checkpoint
      /\ store.unrealized_justified_checkpoint \in Checkpoint
  BY DEF TypeOK, IsStore, StoreOver
<1>4. \A c \in Checkpoint : c.epoch \in Nat
  BY DEF Checkpoint
<1>5. at_epoch_start(store)
        => greatest = f.previous_epoch_greatest_unrealized_checkpoint
  BY <1>3, FirstSlotIsNotLast, SlotType DEF at_epoch_start, get_current_slot
<1>6. greatest \in Checkpoint
  BY <1>3 DEF RuleInv, KeptTypeOK
<1>7. greatest.epoch <= store.unrealized_justified_checkpoint.epoch
  BY <1>3, <1>4 DEF RuleInv, ObservedNeverAheadOfJustified
<1>8. f.previous_epoch_greatest_unrealized_checkpoint.epoch <= greatest.epoch
  BY <1>3, <1>4 DEF RuleInv, KeptTypeOK, ObservedNeverAheadOfJustified
<1> HIDE DEF greatest
<1>9. KeptTypeOK'
  BY <1>1, <1>2, <1>3, <1>6 DEF RuleInv, KeptTypeOK
<1>10. ObservedNeverAheadOfJustified'
  <2>1. CASE at_epoch_start(store)
    BY <1>1, <1>2, <1>3, <1>4, <1>5, <1>6, <1>7, <2>1
       DEF RuleInv, KeptTypeOK, ObservedNeverAheadOfJustified, GreatestRealizedBeforeQuery
  <2>2. CASE ~at_epoch_start(store)
    BY <1>1, <1>2, <1>3, <1>4, <1>6, <1>7, <1>8, <2>2
       DEF RuleInv, KeptTypeOK, ObservedNeverAheadOfJustified
  <2> QED BY <2>1, <2>2
<1>11. GreatestRealizedBeforeQuery'
  BY <1>2, <1>3, SlotType DEF GreatestRealizedBeforeQuery, IsQueryDue, get_current_slot
<1> QED BY <1>9, <1>10, <1>11 DEF RuleInv

(* A step of the store in the same slot keeps the invariant.               *)
LEMMA SameSlotKeepsInv ==
  ASSUME TypeOK, TypeOK', RuleInv, JustifiedAdvances, UNCHANGED rule_vars,
         get_current_slot(store') = get_current_slot(store)
  PROVE  RuleInv'
<1>1. /\ fcr_store' = fcr_store /\ queried_time' = queried_time
  BY DEF rule_vars
<1>2. /\ store.justified_checkpoint.epoch \in Nat
      /\ store.unrealized_justified_checkpoint.epoch \in Nat
      /\ store'.justified_checkpoint.epoch \in Nat
      /\ store'.unrealized_justified_checkpoint.epoch \in Nat
  BY DEF TypeOK, IsStore, StoreOver, Checkpoint
<1>3. /\ fcr_store.current_epoch_observed_justified_checkpoint.epoch \in Nat
      /\ fcr_store.previous_epoch_greatest_unrealized_checkpoint.epoch \in Nat
  BY DEF RuleInv, KeptTypeOK, Checkpoint
<1>4. KeptTypeOK'
  BY <1>1 DEF RuleInv, KeptTypeOK
<1>5. ObservedNeverAheadOfJustified'
  BY <1>1, <1>2, <1>3 DEF RuleInv, ObservedNeverAheadOfJustified, JustifiedAdvances
<1>6. GreatestRealizedBeforeQuery'
  BY <1>1, <1>2, <1>3
     DEF RuleInv, GreatestRealizedBeforeQuery, IsQueryDue, at_epoch_start, JustifiedAdvances
<1> QED BY <1>4, <1>5, <1>6 DEF RuleInv

(* The loop of on_tick moves one slot on; into a new epoch, it realizes    *)
(* what was unrealized, and so all that the rule may observe next.         *)
LEMMA CatchUpKeepsInv ==
  ASSUME TypeOK, TypeOK', RuleInv, JustifiedAdvances, CatchUp, UNCHANGED rule_vars
  PROVE  RuleInv'
<1> DEFINE time == next_slot_start(store)
<1>1. Shaped(store) /\ store.time \in Nat
  BY DEF TypeOK, IsStore, Shaped, StoreOver
<1>2. /\ time \in Nat /\ get_current_slot(store) \in Nat
      /\ slot_at(time) = get_current_slot(store) + 1
  BY <1>1, NextSlotStartType, NextSlotStart, SlotType DEF get_current_slot
<1>3. store' = on_tick_per_slot(store, time)
  BY DEF CatchUp
<1> HIDE DEF time
<1>4. slot_at(time) > get_current_slot(store)
  BY <1>2
<1>5. /\ store'.time = time
      /\ compute_slots_since_epoch_start(slot_at(time)) = 0 =>
           store'.justified_checkpoint
             = Tracker!newer(store.justified_checkpoint,
                             store.unrealized_justified_checkpoint)
  BY <1>1, <1>2, <1>3, <1>4, TickEffect
<1>6. /\ fcr_store' = fcr_store /\ queried_time' = queried_time
  BY DEF rule_vars
<1>7. /\ store.justified_checkpoint.epoch \in Nat
      /\ store.unrealized_justified_checkpoint.epoch \in Nat
      /\ store'.justified_checkpoint.epoch \in Nat
      /\ store'.unrealized_justified_checkpoint.epoch \in Nat
  BY DEF TypeOK, IsStore, StoreOver, Checkpoint
<1>8. /\ fcr_store.current_epoch_observed_justified_checkpoint.epoch \in Nat
      /\ fcr_store.previous_epoch_greatest_unrealized_checkpoint.epoch \in Nat
  BY DEF RuleInv, KeptTypeOK, Checkpoint
<1>9. KeptTypeOK'
  BY <1>6 DEF RuleInv, KeptTypeOK
<1>10. ObservedNeverAheadOfJustified'
  BY <1>6, <1>7, <1>8 DEF RuleInv, ObservedNeverAheadOfJustified, JustifiedAdvances
<1>11. GreatestRealizedBeforeQuery'
  <2> SUFFICES ASSUME at_epoch_start(store')
               PROVE  fcr_store.previous_epoch_greatest_unrealized_checkpoint.epoch
                        <= store'.justified_checkpoint.epoch
    BY <1>6 DEF GreatestRealizedBeforeQuery
  <2>1. compute_slots_since_epoch_start(slot_at(time)) = 0
    BY <1>5 DEF at_epoch_start, is_start_slot_at_epoch, get_current_slot
  <2>2. store.unrealized_justified_checkpoint.epoch <= store'.justified_checkpoint.epoch
    BY <1>5, <1>7, <2>1 DEF Tracker!newer
  <2> QED BY <1>7, <1>8, <2>2 DEF RuleInv, ObservedNeverAheadOfJustified
<1> QED BY <1>9, <1>10, <1>11 DEF RuleInv

LEMMA InitRuleInv == TypeOK /\ NodeInit => RuleInv
<1> SUFFICES ASSUME TypeOK, NodeInit PROVE RuleInv
  OBVIOUS
<1> DEFINE finalized == store.finalized_checkpoint
<1>1. /\ fcr_store = [confirmed_root |-> finalized.root,
            previous_epoch_observed_justified_checkpoint |-> finalized,
            current_epoch_observed_justified_checkpoint |-> finalized,
            previous_epoch_greatest_unrealized_checkpoint |-> finalized,
            previous_slot_head |-> finalized.root,
            current_slot_head |-> finalized.root]
      /\ queried_time = store.time
  BY DEF NodeInit, get_fast_confirmation_store
<1>2. /\ store.justified_checkpoint = finalized
      /\ store.unrealized_justified_checkpoint = finalized
  BY DEF NodeInit, Init, get_forkchoice_store
<1>3. finalized \in Checkpoint /\ finalized.epoch \in Nat /\ store.time \in Nat
  BY DEF TypeOK, IsStore, StoreOver, Checkpoint
<1> HIDE DEF finalized
<1>4. KeptTypeOK
  BY <1>1, <1>3 DEF KeptTypeOK, Kept
<1>5. ObservedNeverAheadOfJustified
  BY <1>1, <1>2, <1>3 DEF ObservedNeverAheadOfJustified
<1>6. GreatestRealizedBeforeQuery
  BY <1>1, <1>2, <1>3 DEF GreatestRealizedBeforeQuery
<1> QED BY <1>4, <1>5, <1>6 DEF RuleInv

LEMMA NodeStepKeepsInv ==
  ASSUME SLOTS_PER_EPOCH > 1, TypeOK, TypeOK', RuleInv,
         [Next]_vars => JustifiedAdvances, [NodeNext]_node_vars
  PROVE  RuleInv'
<1>1. JustifiedAdvances
  BY NodeStepIsStoreStep
<1>2. Shaped(store) /\ store.time \in Nat /\ tick_time \in Nat
  BY DEF TypeOK, IsStore, Shaped, StoreOver
<1>3. CASE TickSecond
  BY <1>1, <1>3, SameSlotKeepsInv DEF TickSecond, BeginTick
<1>4. CASE FinishTick
  <2>1. CASE EndTick
    <3>1. store'.time = tick_time
      BY <1>2, <2>1, TickEffect DEF EndTick
    <3>2. /\ slot_at(store.time) <= slot_at(tick_time)
          /\ slot_at(store.time) \in Nat /\ slot_at(tick_time) \in Nat
      BY <1>2, <2>1, SlotMonotone, SlotType DEF EndTick
    <3>3. get_current_slot(store') = get_current_slot(store)
      BY <2>1, <3>1, <3>2 DEF EndTick, get_current_slot
    <3> QED BY <1>1, <1>4, <3>3, SameSlotKeepsInv DEF FinishTick
  <2> QED BY <1>1, <1>4, <2>1, CatchUpKeepsInv DEF FinishTick
<1>5. CASE HandleMessage
  <2>1. store'.time = store.time
    <3>1. ASSUME NEW sb \in SIGNED_BLOCKS, OnBlock(sb) PROVE store'.time = store.time
      BY <3>1, OnBlockEffect DEF OnBlock, TypeOK
    <3>2. SameTracked(store, store') => store'.time = store.time
      BY DEF SameTracked
    <3> QED BY <1>5, <3>1, <3>2, MessagesUntracked DEF HandleMessage
  <2>2. get_current_slot(store') = get_current_slot(store)
    BY <2>1 DEF get_current_slot
  <2> QED BY <1>1, <1>5, <2>2, SameSlotKeepsInv DEF HandleMessage
<1>6. CASE OnFastConfirmation
  BY <1>6, QueryKeepsInv
<1>7. CASE UNCHANGED node_vars
  BY <1>1, <1>7, SameSlotKeepsInv DEF node_vars, rule_vars
<1> QED BY <1>3, <1>4, <1>5, <1>6, <1>7 DEF NodeNext

(* The rule never observes a checkpoint that the fork choice of its node   *)
(* has not realized, in whatever order blocks, ticks and queries come, as  *)
(* long as an epoch has more than one slot.                                *)
THEOREM ObservedStaysBehind ==
  ASSUME SLOTS_PER_EPOCH > 1
  PROVE  NodeSpec => []ObservedNeverAheadOfJustified
<1>1. NodeSpec => [][JustifiedAdvances]_vars
  <2>1. TypeOK /\ TypeOK' /\ Proved!IInv /\ [Next]_vars => [JustifiedAdvances]_vars
    <3> SUFFICES ASSUME TypeOK, TypeOK', Proved!IInv, [Next]_vars
                 PROVE  JustifiedAdvances
      OBVIOUS
    <3>1. /\ Proved!only_newer(store.justified_checkpoint, store'.justified_checkpoint)
          /\ Proved!only_newer(store.unrealized_justified_checkpoint,
                               store'.unrealized_justified_checkpoint)
      BY StepRefines, SameNames, Proved!StepOnlyAdvances
    <3>2. /\ store.justified_checkpoint.epoch \in Nat
          /\ store.unrealized_justified_checkpoint.epoch \in Nat
          /\ store'.justified_checkpoint.epoch \in Nat
          /\ store'.unrealized_justified_checkpoint.epoch \in Nat
      BY DEF TypeOK, IsStore, StoreOver, Checkpoint
    <3> QED BY <3>1, <3>2 DEF Proved!only_newer, JustifiedAdvances
  <2> QED BY <2>1, RuleLeavesStoreAlone, StoreTypeCorrect, TrackerInvariantHere, PTL DEF Spec
<1>2. TypeOK /\ TypeOK' /\ RuleInv /\ [JustifiedAdvances]_vars /\ [NodeNext]_node_vars
        => RuleInv'
  <2>1. TypeOK /\ TypeOK' /\ UNCHANGED vars => JustifiedAdvances
    BY DEF vars, JustifiedAdvances, TypeOK, IsStore, StoreOver, Checkpoint
  <2> QED BY <2>1, NodeStepKeepsInv
<1>3. RuleInv => ObservedNeverAheadOfJustified
  BY DEF RuleInv
<1>4. NodeSpec => NodeInit /\ [][NodeNext]_node_vars
  BY DEF NodeSpec
<1> QED BY <1>1, <1>2, <1>3, <1>4, InitRuleInv, RuleLeavesStoreAlone, StoreTypeCorrect, PTL

-----------------------------------------------------------------------------
(* Votes come from the committees, and the clock stays in scope.           *)

(* The message that counts for a validator is of a slot whose committee it *)
(* sat in.                                                                 *)
VotesConfined ==
  \A i \in DOMAIN store.latest_messages :
    i \in get_beacon_committee(store.latest_messages[i].slot)

ClockInHorizon ==
  /\ slot_at(tick_time) \in HorizonSlots
  /\ get_current_slot(store) <= slot_at(tick_time)

(* The handler has checked the vote against a state in scope.              *)
LEMMA AcceptedIsConfined ==
  ASSUME TypeOK, NEW a \in ATTESTATIONS, NEW from_block \in BOOLEAN,
         on_attestation_accepts(store, a, from_block)
  PROVE  a.attesting_indices \subseteq get_beacon_committee(a.data.slot)
<1> DEFINE target == a.data.target
           r == store_target_checkpoint_state(store, target)
<1>1. target.root \in DOMAIN store.blocks
  BY DEF on_attestation_accepts, validate_on_attestation
<1>2. IsStore(r)
  BY <1>1, TargetStateType DEF TypeOK
<1>3. target \in DOMAIN r.checkpoint_states
  BY DEF store_target_checkpoint_state, put, TypeOK, IsStore, StoreOver
<1>4. is_valid_indexed_attestation(checkpoint_state(r, target), a)
  BY DEF on_attestation_accepts
<1> HIDE DEF r, target
<1>5. checkpoint_state(r, target) \in BeaconStates
  BY <1>2, <1>3 DEF checkpoint_state, IsStore, StoreOver
<1> QED BY <1>4, <1>5, ConfinementAssumption

LEMMA ConfinedStep ==
  ASSUME TypeOK, VotesConfined, [Next]_vars
  PROVE  VotesConfined'
<1>1. IsStore(store) /\ Shaped(store)
  BY DEF TypeOK, IsStore, Shaped
<1>2. CASE store'.latest_messages = store.latest_messages
  BY <1>2 DEF VotesConfined
<1>3. ASSUME NEW a \in ATTESTATIONS, NEW from_block \in BOOLEAN,
             on_attestation_accepts(store, a, from_block),
             store' = on_attestation(store, a)
      PROVE  VotesConfined'
  <2> DEFINE message == [slot |-> a.data.slot, root |-> a.data.beacon_block_root,
                         payload_present |-> a.data.index = 1]
             newer == newer_voters(store, a)
  <2>1. store'.latest_messages =
          [j \in DOMAIN store.latest_messages \cup newer |->
             IF j \in newer THEN message ELSE store.latest_messages[j]]
    <3>1. on_attestation(store, a).latest_messages =
            [j \in DOMAIN store.latest_messages \cup newer |->
               IF j \in newer THEN message ELSE store.latest_messages[j]]
      BY <1>1, OnAttestationLeaves
    <3> QED BY ONLY <1>3, <3>1
  <2>2. newer \subseteq get_beacon_committee(message.slot)
    <3>1. a.attesting_indices \subseteq get_beacon_committee(a.data.slot)
      BY <1>3, AcceptedIsConfined
    <3>2. newer \subseteq a.attesting_indices
      BY DEF newer_voters
    <3>3. message.slot = a.data.slot
      OBVIOUS
    <3> QED BY ONLY <3>1, <3>2, <3>3
  <2> HIDE DEF newer, message
  <2>3. SUFFICES ASSUME NEW i \in DOMAIN store'.latest_messages
                 PROVE  i \in get_beacon_committee(store'.latest_messages[i].slot)
    BY DEF VotesConfined
  <2>4. CASE i \in newer
    BY <2>1, <2>2, <2>4
  <2>5. CASE i \notin newer
    <3>1. /\ i \in DOMAIN store.latest_messages
          /\ store'.latest_messages[i] = store.latest_messages[i]
      BY ONLY <2>1, <2>3, <2>5
    <3> QED BY <3>1 DEF VotesConfined
  <2> QED BY <2>4, <2>5
<1>4. TickStep => store'.latest_messages = store.latest_messages
  BY <1>1, TickLeaves DEF TickStep, SameVotes
<1>5. \A sb \in SIGNED_BLOCKS : on_block_accepts(store, sb) /\ store' = on_block(store, sb)
        => store'.latest_messages = store.latest_messages
  BY <1>1, OnBlockLeaves DEF SameVotes
<1>6. \A slashing : store' = on_attester_slashing(store, slashing)
        => store'.latest_messages = store.latest_messages
  BY <1>1, OnAttesterSlashingLeaves
<1>7. \A root : store' = on_execution_payload_envelope(store, root)
        => store'.latest_messages = store.latest_messages
  BY <1>1, OnEnvelopeLeaves DEF SameVotes
<1>8. \A message : store' = on_payload_attestation_message(store, message)
        => store'.latest_messages = store.latest_messages
  BY <1>1, RecordVotesLeaves DEF on_payload_attestation_message, SameVotes
<1> QED BY <1>2, <1>3, <1>4, <1>5, <1>6, <1>7, <1>8, StepKinds

LEMMA HorizonStep ==
  ASSUME TypeOK, TypeOK', ClockInHorizon, [Next]_vars
  PROVE  ClockInHorizon'
<1>1. /\ store.time \in Nat /\ tick_time \in Nat /\ store'.time \in Nat
      /\ get_current_slot(store) \in Nat /\ get_current_slot(store') \in Nat
      /\ slot_at(tick_time) \in Nat
  <2>1. store.time \in Nat /\ tick_time \in Nat /\ store'.time \in Nat
    BY DEF TypeOK, IsStore, StoreOver
  <2> QED BY <2>1, SlotType DEF get_current_slot
<1>2. Shaped(store)
  BY DEF TypeOK, IsStore, Shaped
<1>3. ASSUME NEW time \in TickTimes, BeginTick(time) PROVE ClockInHorizon'
  <2>1. /\ tick_time' = time /\ store' = store
        /\ time \in Nat /\ store.time <= time
    BY <1>1, <1>3, MessagesAssumption DEF BeginTick
  <2>2. get_current_slot(store) <= slot_at(time)
    BY <1>1, <2>1, SlotMonotone DEF get_current_slot
  <2> QED BY <2>1, <2>2, HorizonAssumption DEF ClockInHorizon
<1>4. CASE CatchUp
  <2>1. /\ get_current_slot(store) < slot_at(tick_time)
        /\ store' = on_tick_per_slot(store, next_slot_start(store))
        /\ tick_time' = tick_time
    BY <1>4 DEF CatchUp
  <2>2. next_slot_start(store) \in Nat
    BY <1>1, NextSlotStartType
  <2>3. get_current_slot(store') = slot_at(next_slot_start(store))
    BY <1>2, <2>1, <2>2, TickLeaves DEF get_current_slot
  <2>4. slot_at(next_slot_start(store)) = get_current_slot(store) + 1
    BY <1>1, NextSlotStart
  <2> QED BY <1>1, <2>1, <2>3, <2>4 DEF ClockInHorizon
<1>5. CASE EndTick
  <2>1. store' = on_tick_per_slot(store, tick_time) /\ tick_time' = tick_time
    BY <1>5 DEF EndTick
  <2>2. get_current_slot(store') = slot_at(tick_time)
    BY <1>1, <1>2, <2>1, TickLeaves DEF get_current_slot
  <2> QED BY <1>1, <2>1, <2>2 DEF ClockInHorizon
<1>6. CASE store'.time = store.time /\ tick_time' = tick_time
  BY <1>6 DEF ClockInHorizon, get_current_slot
<1>7. ASSUME NEW sb \in SIGNED_BLOCKS, OnBlock(sb)
      PROVE  store'.time = store.time /\ tick_time' = tick_time
  BY <1>2, <1>7, OnBlockLeaves DEF OnBlock, TypeOK
<1>8. ASSUME NEW a, NEW from_block, OnAttestation(a, from_block)
      PROVE  store'.time = store.time /\ tick_time' = tick_time
  BY <1>8, OnAttestationLeaves DEF SameClock, OnAttestation, TypeOK
<1>9. ASSUME NEW slashing, OnAttesterSlashing(slashing)
      PROVE  store'.time = store.time /\ tick_time' = tick_time
  BY <1>2, <1>9, OnAttesterSlashingLeaves DEF SameClock, OnAttesterSlashing
<1>10. ASSUME NEW root, OnExecutionPayloadEnvelope(root)
       PROVE  store'.time = store.time /\ tick_time' = tick_time
  BY <1>2, <1>10, OnEnvelopeLeaves DEF SameClock, OnExecutionPayloadEnvelope
<1>11. ASSUME NEW message, NEW from_block, OnPayloadAttestationMessage(message, from_block)
       PROVE  store'.time = store.time /\ tick_time' = tick_time
  BY <1>2, <1>11, RecordVotesLeaves DEF SameClock, OnPayloadAttestationMessage,
                                        on_payload_attestation_message
<1>12. CASE UNCHANGED vars
  BY <1>6, <1>12 DEF vars
<1> QED BY <1>3, <1>4, <1>5, <1>6, <1>7, <1>8, <1>9, <1>10, <1>11, <1>12 DEF Next

LEMMA InitScope == Init => VotesConfined /\ ClockInHorizon
<1> SUFFICES ASSUME Init PROVE VotesConfined /\ ClockInHorizon
  OBVIOUS
<1>1. VotesConfined
  BY DEF VotesConfined, Init, get_forkchoice_store, EmptyDict
<1>2. slot_at(store.time) \in HorizonSlots
  BY HorizonAssumption DEF Init
<1>3. slot_at(store.time) <= slot_at(store.time)
  BY <1>2 DEF HorizonSlots
<1> QED BY <1>1, <1>2, <1>3 DEF ClockInHorizon, get_current_slot, Init

LEMMA ScopeInvariant == Spec => [](VotesConfined /\ ClockInHorizon)
<1>1. TypeOK /\ TypeOK' /\ VotesConfined /\ ClockInHorizon /\ [Next]_vars
        => VotesConfined' /\ ClockInHorizon'
  BY ConfinedStep, HorizonStep
<1> QED BY <1>1, InitScope, StoreTypeCorrect, PTL DEF Spec

-----------------------------------------------------------------------------
(* The margin of a confirmed block.  Whoever votes for the block, for a    *)
(* rival or for their parent alone sits in a committee of the slots after  *)
(* the parent's, and votes for one of the three only; the estimate bounds  *)
(* the balance of them all.                                                *)

branch_of(root) == parent_node(store, get_node_for_root(root))

(* The siblings of a block, and the other payload node of its parent.      *)
rivals_of(root) ==
  {get_node_for_root(r) : r \in {r \in known \ {root} : branch_of(r) = branch_of(root)}}
    \cup {NewNode(branch_of(root).root, s) :
            s \in {EMPTY, FULL} \ {branch_of(root).payload_status}}

first_slot(root) == block_slot(store, block_at(store, root).parent_root) + 1

(* The slots whose committees may have voted for a block or its rivals.    *)
span_of(root) == get_slot_committees(first_slot(root), last_slot(store))

(* The votes that compute_empty_slot_support_discount counts.              *)
bound_to_parent(state, root) ==
  {i \in get_slot_committees(first_slot(root), saturating_sub(block_slot(store, root), 1))
           \cap active_in(state) :
     /\ ~REGISTRY[i].slashed
     /\ i \in DOMAIN store.latest_messages
     /\ i \notin store.equivocating_indices
     /\ store.latest_messages[i].root = block_at(store, root).parent_root
     /\ get_supported_node(store, store.latest_messages[i]).payload_status
          \in {get_parent_payload_status(store, block_at(store, root)), PENDING}}

Scene == TypeOK /\ StoreSound /\ VotesConfined /\ ClockInHorizon

(* A block of the tree and its parent.                                     *)
LEMMA BranchType ==
  ASSUME TypeOK, StoreSound, NEW root \in known \ {ANCHOR_BLOCK.root}
  PROVE  LET branch == branch_of(root)
         IN  /\ branch \in ForkChoiceNode
             /\ branch.root = block_at(store, root).parent_root
             /\ branch.root \in known
             /\ branch.payload_status = get_parent_payload_status(store, block_at(store, root))
             /\ branch.payload_status \in {EMPTY, FULL}
             /\ block_slot(store, branch.root) \in Nat
             /\ block_slot(store, branch.root) < block_slot(store, root)
             /\ block_slot(store, branch.root) + 1 = first_slot(root)
             /\ store.blocks[ANCHOR_BLOCK.root].slot <= block_slot(store, branch.root)
             /\ get_node_for_root(root) \in ForkChoiceNode
             /\ get_node_for_root(root).root = root
             /\ get_node_for_root(root).payload_status = PENDING
<1> DEFINE node == get_node_for_root(root)
<1>1. IsStore(store) /\ TreeSound(store) /\ root \in DOMAIN store.blocks
  BY DEF TypeOK, StoreSound, known
<1>2. node \in ForkChoiceNode /\ node.root = root /\ node.payload_status = PENDING
  BY <1>1, NewNodeType DEF get_node_for_root, IsStore, PayloadStatus
<1> HIDE DEF node
<1>3. block_at(store, root) = store.blocks[root]
  BY <1>1 DEF block_at
<1>4. /\ parent_node(store, node) \in ForkChoiceNode
      /\ parent_node(store, node).root = store.blocks[root].parent_root
      /\ parent_node(store, node).payload_status
           = get_parent_payload_status(store, store.blocks[root])
  BY <1>1, <1>2, ParentNodeType
<1>5. /\ store.blocks[root].parent_root \in known
      /\ store.blocks[store.blocks[root].parent_root].slot < store.blocks[root].slot
      /\ store.blocks[ANCHOR_BLOCK.root].slot
           <= store.blocks[store.blocks[root].parent_root].slot
  BY <1>1 DEF TreeSound, known
<1>6. /\ block_slot(store, root) = store.blocks[root].slot
      /\ block_slot(store, store.blocks[root].parent_root)
           = store.blocks[store.blocks[root].parent_root].slot
  BY <1>1, <1>5 DEF block_slot, block_at, known
<1>7. get_parent_payload_status(store, store.blocks[root]) \in {EMPTY, FULL}
  BY DEF get_parent_payload_status
<1>8. block_slot(store, store.blocks[root].parent_root) \in Nat
  BY <1>1, BlockSlotType
<1> QED BY <1>2, <1>3, <1>4, <1>5, <1>6, <1>7, <1>8 DEF branch_of, node, first_slot

(* A vote for a node from slot low on, or for a payload node of the slot   *)
(* before, is itself of slot low or later.                                 *)
LEMMA LateVote ==
  ASSUME TypeOK, StoreSound, NEW i \in DOMAIN store.latest_messages,
         NEW node \in ForkChoiceNode, node.root \in known, NEW low \in Nat,
         \/ low <= block_slot(store, node.root)
         \/ block_slot(store, node.root) + 1 = low /\ node.payload_status # PENDING,
         is_ancestor(store, get_supported_node(store, store.latest_messages[i]), node)
  PROVE  low <= store.latest_messages[i].slot
<1> DEFINE message == store.latest_messages[i]
           supported == get_supported_node(store, message)
           slot == block_slot(store, node.root)
<1>1. IsStore(store) /\ TreeSound(store)
  BY DEF TypeOK, StoreSound
<1>2. slot \in Nat /\ store.blocks[ANCHOR_BLOCK.root].slot <= slot
  <2>1. slot = store.blocks[node.root].slot
    BY DEF known, block_slot, block_at
  <2> QED BY <1>1, <2>1, BlockSlotType DEF TreeSound, known
<1>3. /\ supported \in ForkChoiceNode /\ supported.root = message.root
      /\ supported.payload_status # PENDING => block_slot(store, message.root) < message.slot
  <2>1. supported \in ForkChoiceNode
    BY SupportIsVerified DEF verified_nodes
  <2> QED BY <2>1 DEF get_supported_node, NewNode
<1>4. /\ block_slot(store, message.root) <= message.slot
      /\ block_slot(store, message.root) \in Nat /\ message.slot \in Nat
  BY <1>1, BlockSlotType DEF StoreSound, LatestMessagesSound, IsStore, StoreOver, LatestMessage
<1>5. CASE block_slot(store, message.root) > slot
  BY <1>2, <1>4, <1>5
<1>6. CASE ~ (block_slot(store, message.root) > slot)
  <2>1. Descending(store, slot)
    BY <1>1, <1>2, KnownDescend
  <2> HIDE DEF supported, slot, message
  <2>2. get_ancestor(store, supported, slot) = supported
    BY <1>1, <1>2, <1>3, <1>6, <2>1, AncestorEquation
  <2>3. message.root = node.root /\ node.payload_status \in {supported.payload_status, PENDING}
    BY <1>3, <2>2 DEF is_ancestor, supported, slot, message
  <2>4. CASE low <= slot
    BY <1>2, <1>4, <2>3, <2>4 DEF slot, message
  <2>5. CASE slot + 1 = low /\ node.payload_status # PENDING
    BY <1>2, <1>3, <1>4, <2>3, <2>5 DEF slot, message
  <2> QED BY <2>4, <2>5 DEF slot, message
<1> QED BY <1>5, <1>6

(* The voter then sits in a committee of the span.                         *)
LEMMA InSpan ==
  ASSUME Scene, NEW root \in known \ {ANCHOR_BLOCK.root},
         NEW i \in DOMAIN store.latest_messages,
         first_slot(root) <= store.latest_messages[i].slot
  PROVE  i \in span_of(root)
<1> DEFINE slot == store.latest_messages[i].slot
           current == get_current_slot(store)
<1>1. slot \in Nat /\ current \in Nat
  BY SlotType DEF Scene, TypeOK, IsStore, StoreOver, LatestMessage, get_current_slot
<1>2. slot < current /\ i \in get_beacon_committee(slot)
  BY DEF Scene, StoreSound, LatestMessagesSound, VotesConfined
<1>3. slot <= last_slot(store)
  BY <1>1, <1>2 DEF last_slot, saturating_sub
<1>4. first_slot(root) \in Nat /\ last_slot(store) \in Nat
  BY <1>1, BranchType DEF last_slot, saturating_sub, Scene
<1>5. slot \in first_slot(root)..last_slot(store)
  BY <1>1, <1>3, <1>4
<1> QED BY <1>2, <1>5 DEF span_of, get_slot_committees

(* What a rival is: a sibling in the tree, or the other payload node.      *)
LEMMA RivalKinds ==
  ASSUME TypeOK, StoreSound, NEW root \in known \ {ANCHOR_BLOCK.root},
         NEW rival \in rivals_of(root)
  PROVE  /\ rival \in ForkChoiceNode /\ rival.root \in known
         /\ \/ /\ rival = get_node_for_root(rival.root)
               /\ rival.root \in known \ {ANCHOR_BLOCK.root, root}
               /\ branch_of(rival.root) = branch_of(root)
               /\ first_slot(root) <= block_slot(store, rival.root)
            \/ /\ rival.root = branch_of(root).root
               /\ rival.payload_status \in {EMPTY, FULL}
               /\ rival.payload_status # branch_of(root).payload_status
               /\ block_slot(store, rival.root) + 1 = first_slot(root)
<1>1. CASE \E r \in known \ {root} : rival = get_node_for_root(r) /\ branch_of(r) = branch_of(root)
  <2>1. PICK r \in known \ {root} : rival = get_node_for_root(r) /\ branch_of(r) = branch_of(root)
    BY <1>1
  <2>2. r # ANCHOR_BLOCK.root
    <3>1. branch_of(ANCHOR_BLOCK.root).root = ANCHOR_BLOCK.message.parent_root
      BY DEF branch_of, parent_node, get_node_for_root, NewNode, block_at, StoreSound,
             AnchorSound, known
    <3>2. branch_of(root).root \in known
      BY BranchType
    <3> QED BY <2>1, <3>1, <3>2 DEF StoreSound, AnchorSound, known
  <2>3. /\ get_node_for_root(r) \in ForkChoiceNode
        /\ get_node_for_root(r).root = r
        /\ branch_of(r).root = block_at(store, r).parent_root
        /\ block_slot(store, branch_of(r).root) < block_slot(store, r)
        /\ block_slot(store, branch_of(r).root) \in Nat
    BY <2>2, BranchType
  <2>4. block_slot(store, branch_of(root).root) + 1 = first_slot(root)
    BY BranchType
  <2>5. first_slot(root) <= block_slot(store, r)
    <3>1. block_slot(store, r) \in Nat
      BY BlockSlotType DEF TypeOK
    <3> QED BY <2>1, <2>3, <2>4, <3>1
  <2> QED BY <2>1, <2>2, <2>3, <2>5
<1>2. CASE \E s \in {EMPTY, FULL} \ {branch_of(root).payload_status} :
             rival = NewNode(branch_of(root).root, s)
  <2>1. PICK s \in {EMPTY, FULL} \ {branch_of(root).payload_status} :
          rival = NewNode(branch_of(root).root, s)
    BY <1>2
  <2>2. /\ branch_of(root).root \in known
        /\ branch_of(root).root \in Root
        /\ block_slot(store, branch_of(root).root) + 1 = first_slot(root)
    BY BranchType DEF ForkChoiceNode
  <2>3. s \in PayloadStatus
    BY DEF PayloadStatus
  <2>4. rival \in ForkChoiceNode /\ rival.root = branch_of(root).root /\ rival.payload_status = s
    BY <2>1, <2>2, <2>3, NewNodeType
  <2> QED BY <2>1, <2>2, <2>4
<1> QED BY <1>1, <1>2 DEF rivals_of

(* A vote for the block is none for a rival.                               *)
LEMMA RivalsApart ==
  ASSUME TypeOK, StoreSound, NEW root \in known \ {ANCHOR_BLOCK.root},
         NEW rival \in rivals_of(root), NEW state
  PROVE  supporters(store, get_node_for_root(root), state)
           \cap supporters(store, rival, state) = {}
<1> DEFINE node == get_node_for_root(root)
           branch == branch_of(root)
           low == block_slot(store, branch.root)
<1> SUFFICES ASSUME NEW i, i \in supporters(store, node, state),
                           i \in supporters(store, rival, state)
             PROVE  FALSE
  OBVIOUS
<1> DEFINE vote == get_supported_node(store, store.latest_messages[i])
<1>1. /\ IsStore(store) /\ TreeSound(store)
      /\ i \in DOMAIN store.latest_messages
      /\ is_ancestor(store, vote, node)
      /\ is_ancestor(store, vote, rival)
  BY DEF supporters, TypeOK, StoreSound
<1>2. vote \in ForkChoiceNode
  BY <1>1, SupportIsVerified DEF verified_nodes
<1>3. /\ branch \in ForkChoiceNode
      /\ node \in ForkChoiceNode /\ node.root = root
      /\ low \in Nat
      /\ low < block_slot(store, root)
      /\ store.blocks[ANCHOR_BLOCK.root].slot <= low
      /\ branch.payload_status \in {EMPTY, FULL}
  BY BranchType
<1>4. Descending(store, low)
  BY <1>1, <1>3, KnownDescend DEF TypeOK
<1>5. /\ get_ancestor(store, vote, block_slot(store, root)).root = root
      /\ get_ancestor(store, vote, block_slot(store, rival.root)).root = rival.root
      /\ rival.payload_status
           \in {get_ancestor(store, vote, block_slot(store, rival.root)).payload_status, PENDING}
  BY <1>1, <1>3 DEF is_ancestor
<1>6. node = NewNode(root, PENDING) /\ parent_node(store, NewNode(root, PENDING)) = branch
  BY DEF get_node_for_root, branch_of
<1> HIDE DEF vote
<1>7. CASE /\ rival = get_node_for_root(rival.root)
           /\ rival.root \in known \ {ANCHOR_BLOCK.root, root}
           /\ branch_of(rival.root) = branch_of(root)
  <2> DEFINE nodes == {node, rival}
  <2>1. ChildrenOf(store, branch, nodes)
    <3>1. low < block_slot(store, rival.root)
      BY <1>7, BranchType
    <3>2. rival = NewNode(rival.root, PENDING) /\ parent_node(store, rival) = branch
      BY <1>7 DEF get_node_for_root, branch_of
    <3> HIDE DEF branch, node, low
    <3> QED BY <1>3, <1>6, <1>7, <3>1, <3>2 DEF ChildrenOf, low, known
  <2>2. \/ block_slot(store, node.root) <= block_slot(store, rival.root)
        \/ block_slot(store, rival.root) <= block_slot(store, node.root)
    BY <1>1, BlockSlotType
  <2>3. node \in nodes /\ rival \in nodes /\ node # rival
    BY <1>3, <1>7
  <2> HIDE DEF branch, node, nodes
  <2> QED BY <1>1, <1>2, <1>3, <1>4, <1>5, <2>1, <2>2, <2>3, OneChild DEF low
<1>8. CASE /\ rival.root = branch.root
           /\ rival.payload_status \in {EMPTY, FULL}
           /\ rival.payload_status # branch.payload_status
  <2>1. get_ancestor(store, vote, low) = branch
    <3>1. root \in DOMAIN store.blocks /\ low <= low
      BY <1>3 DEF known
    <3> HIDE DEF branch
    <3> QED BY <1>1, <1>2, <1>3, <1>4, <1>5, <1>6, <3>1, BranchOfChild DEF low
  <2>2. rival.payload_status \in {branch.payload_status, PENDING}
    BY <1>5, <1>8, <2>1
  <2> QED BY <1>8, <2>2 DEF EMPTY, FULL, PENDING
<1> QED BY <1>7, <1>8, RivalKinds

(* A vote bound to the parent is for neither.                              *)
LEMMA BoundApart ==
  ASSUME TypeOK, StoreSound, NEW root \in known \ {ANCHOR_BLOCK.root},
         NEW rival \in rivals_of(root), NEW state
  PROVE  bound_to_parent(state, root)
           \cap (supporters(store, get_node_for_root(root), state)
                   \cup supporters(store, rival, state)) = {}
<1> DEFINE branch == branch_of(root)
<1>1. ASSUME NEW i \in bound_to_parent(state, root), NEW node \in ForkChoiceNode,
             node.root \in known, i \in supporters(store, node, state),
             block_slot(store, branch.root) <= block_slot(store, node.root)
      PROVE  /\ node.root = branch.root
             /\ \/ node.payload_status = PENDING
                \/ node.payload_status = branch.payload_status
  <2> DEFINE vote == get_supported_node(store, store.latest_messages[i])
             slot == block_slot(store, node.root)
  <2>1. /\ i \in DOMAIN store.latest_messages
        /\ store.latest_messages[i].root = branch.root
        /\ vote.payload_status \in {branch.payload_status, PENDING}
    BY BranchType DEF bound_to_parent
  <2>2. vote \in ForkChoiceNode /\ vote.root = branch.root
    <3>1. vote \in ForkChoiceNode
      BY <2>1, SupportIsVerified DEF verified_nodes
    <3>2. vote.root = store.latest_messages[i].root
      BY DEF get_supported_node, NewNode
    <3> QED BY <2>1, <3>1, <3>2
  <2>3. IsStore(store) /\ TreeSound(store)
    BY DEF TypeOK, StoreSound
  <2>4. slot \in Nat /\ store.blocks[ANCHOR_BLOCK.root].slot <= slot
    <3>1. slot = store.blocks[node.root].slot
      BY <1>1 DEF known, block_slot, block_at
    <3> QED BY <1>1, <2>3, <3>1, BlockSlotType DEF TreeSound, known
  <2>5. Descending(store, slot)
    BY <2>3, <2>4, KnownDescend
  <2>6. is_ancestor(store, vote, node)
    BY <1>1 DEF supporters
  <2> HIDE DEF vote, slot
  <2>7. ~ (block_slot(store, vote.root) > slot)
    BY <1>1, <2>2, <2>3, <2>4, BlockSlotType DEF slot
  <2>8. get_ancestor(store, vote, slot) = vote
    BY <2>2, <2>3, <2>4, <2>5, <2>7, AncestorEquation
  <2>9. node.root = vote.root /\ node.payload_status \in {vote.payload_status, PENDING}
    BY <2>6, <2>8 DEF is_ancestor, slot
  <2> QED BY <2>1, <2>2, <2>9 DEF vote
<1>2. /\ get_node_for_root(root) \in ForkChoiceNode
      /\ get_node_for_root(root).root = root
      /\ block_slot(store, branch.root) \in Nat
      /\ block_slot(store, branch.root) < block_slot(store, root)
      /\ block_slot(store, branch.root) + 1 = first_slot(root)
      /\ branch.root \in known
  BY BranchType
<1>3. block_slot(store, root) \in Nat /\ block_slot(store, rival.root) \in Nat
  BY BlockSlotType DEF TypeOK
<1>4. ASSUME NEW i \in bound_to_parent(state, root)
      PROVE  i \notin supporters(store, get_node_for_root(root), state)
  BY <1>1, <1>2, <1>3
<1>5. ASSUME NEW i \in bound_to_parent(state, root), i \in supporters(store, rival, state)
      PROVE  FALSE
  <2>1. rival \in ForkChoiceNode /\ rival.root \in known
    BY RivalKinds
  <2>2. CASE first_slot(root) <= block_slot(store, rival.root)
    <3>1. block_slot(store, branch.root) <= block_slot(store, rival.root)
      BY <1>2, <1>3, <2>2
    <3>2. rival.root = branch.root
      BY <1>1, <1>5, <2>1, <3>1
    <3> QED BY <1>2, <1>3, <2>2, <3>2
  <2>3. CASE /\ rival.root = branch.root
             /\ rival.payload_status \in {EMPTY, FULL}
             /\ rival.payload_status # branch.payload_status
    <3>1. block_slot(store, branch.root) <= block_slot(store, rival.root)
      BY <1>2, <2>3
    <3>2. \/ rival.payload_status = PENDING
          \/ rival.payload_status = branch.payload_status
      BY <1>1, <1>5, <2>1, <3>1
    <3> QED BY <2>3, <3>2 DEF EMPTY, FULL, PENDING
  <2> QED BY <2>2, <2>3, RivalKinds
<1> QED BY <1>4, <1>5

(* The committees of the span, and the votes that sit in them.             *)
LEMMA SpanInHorizon ==
  ASSUME Scene, NEW root \in known \ {ANCHOR_BLOCK.root},
         block_slot(store, root) <= get_current_slot(store)
  PROVE  /\ first_slot(root) \in HorizonSlots /\ last_slot(store) \in HorizonSlots
         /\ span_of(root) \in SUBSET ValidatorIndex
<1> DEFINE N == VERIFICATION_HORIZON * SLOTS_PER_EPOCH
           current == get_current_slot(store)
<1>1. N \in Nat
  BY HorizonAssumption, ConfigAssumption
<1>2. current \in Nat /\ current < N
  <2>1. slot_at(tick_time) \in 0..N - 1 /\ current <= slot_at(tick_time)
    BY DEF Scene, ClockInHorizon, HorizonSlots
  <2>2. current \in Nat
    BY SlotType DEF Scene, TypeOK, IsStore, StoreOver, get_current_slot
  <2> HIDE DEF N, current
  <2> QED BY <1>1, <2>1, <2>2
<1>3. /\ block_slot(store, branch_of(root).root) \in Nat
      /\ block_slot(store, branch_of(root).root) < block_slot(store, root)
      /\ block_slot(store, branch_of(root).root) + 1 = first_slot(root)
      /\ block_slot(store, root) \in Nat
  BY BranchType, BlockSlotType DEF Scene, TypeOK
<1>4. first_slot(root) \in 0..N - 1 /\ last_slot(store) \in 0..N - 1
  <2> HIDE DEF N
  <2>1. first_slot(root) \in Nat /\ first_slot(root) <= current
    BY <1>2, <1>3
  <2>2. last_slot(store) \in Nat /\ last_slot(store) <= current
    BY <1>2 DEF last_slot, saturating_sub
  <2> HIDE DEF current
  <2> QED BY <1>1, <1>2, <2>1, <2>2
<1>5. \A slot \in first_slot(root)..last_slot(store) : slot \in HorizonSlots
  <2> HIDE DEF N
  <2>1. \A slot \in first_slot(root)..last_slot(store) : slot \in 0..N - 1
    BY <1>1, <1>4
  <2> QED BY <2>1 DEF HorizonSlots, N
<1>6. span_of(root) \subseteq ValidatorIndex
  BY <1>5, CommitteeAssumption DEF span_of, get_slot_committees
<1> QED BY <1>4, <1>6 DEF HorizonSlots

LEMMA VotesInSpan ==
  ASSUME Scene, NEW root \in known \ {ANCHOR_BLOCK.root}, NEW rival \in rivals_of(root),
         NEW state
  PROVE  /\ supporters(store, get_node_for_root(root), state) \subseteq span_of(root)
         /\ supporters(store, rival, state) \subseteq span_of(root)
<1>1. TypeOK /\ StoreSound
  BY DEF Scene
<1>2. /\ get_node_for_root(root) \in ForkChoiceNode
      /\ get_node_for_root(root).root = root
      /\ first_slot(root) \in Nat
      /\ first_slot(root) <= block_slot(store, root)
  <2>1. block_slot(store, root) \in Nat
    BY <1>1, BlockSlotType DEF TypeOK
  <2> QED BY <1>1, <2>1, BranchType
<1>3. ASSUME NEW i \in supporters(store, get_node_for_root(root), state)
      PROVE  i \in span_of(root)
  <2>1. /\ i \in DOMAIN store.latest_messages
        /\ is_ancestor(store, get_supported_node(store, store.latest_messages[i]),
                       get_node_for_root(root))
    BY DEF supporters
  <2>2. first_slot(root) <= store.latest_messages[i].slot
    BY <1>1, <1>2, <2>1, LateVote
  <2> QED BY <2>1, <2>2, InSpan
<1>4. ASSUME NEW i \in supporters(store, rival, state)
      PROVE  i \in span_of(root)
  <2>1. /\ i \in DOMAIN store.latest_messages
        /\ is_ancestor(store, get_supported_node(store, store.latest_messages[i]), rival)
    BY DEF supporters
  <2>2. /\ rival \in ForkChoiceNode /\ rival.root \in known
        /\ \/ first_slot(root) <= block_slot(store, rival.root)
           \/ /\ block_slot(store, rival.root) + 1 = first_slot(root)
              /\ rival.payload_status # PENDING
    <3>1. PENDING \notin {EMPTY, FULL}
      BY DEF EMPTY, FULL, PENDING
    <3> QED BY <1>1, <3>1, RivalKinds
  <2>3. first_slot(root) <= store.latest_messages[i].slot
    BY <1>1, <1>2, <2>1, <2>2, LateVote
  <2> QED BY <2>1, <2>3, InSpan
<1> QED BY <1>3, <1>4

LEMMA BoundInSpan ==
  ASSUME Scene, NEW root \in known \ {ANCHOR_BLOCK.root}, NEW state,
         block_slot(store, root) <= get_current_slot(store)
  PROVE  bound_to_parent(state, root) \subseteq span_of(root)
<1>1. /\ block_slot(store, root) \in Nat /\ get_current_slot(store) \in Nat
      /\ first_slot(root) \in Nat
  BY BlockSlotType, SlotType, BranchType
     DEF Scene, TypeOK, IsStore, StoreOver, get_current_slot
<1>2. \A slot \in first_slot(root)..saturating_sub(block_slot(store, root), 1) :
        slot \in first_slot(root)..last_slot(store)
  BY <1>1 DEF last_slot, saturating_sub
<1> QED BY <1>2 DEF bound_to_parent, span_of, get_slot_committees

(* The block, a rival and the votes bound to the parent share the span.    *)
LEMMA SpanShared ==
  ASSUME Scene, NEW root \in known \ {ANCHOR_BLOCK.root}, NEW rival \in rivals_of(root),
         NEW state, state.validators \subseteq ValidatorIndex,
         block_slot(store, root) <= get_current_slot(store)
  PROVE  /\ get_attestation_score(store, get_node_for_root(root), state) \in Nat
         /\ get_attestation_score(store, rival, state) \in Nat
         /\ balance_of(bound_to_parent(state, root)) \in Nat
         /\ get_attestation_score(store, get_node_for_root(root), state)
              + get_attestation_score(store, rival, state)
              + balance_of(bound_to_parent(state, root))
            <= balance_of(span_of(root))
<1> DEFINE a == supporters(store, get_node_for_root(root), state)
           b == supporters(store, rival, state)
           c == bound_to_parent(state, root)
           all == span_of(root)
           w == balances
<1>1. /\ get_attestation_score(store, get_node_for_root(root), state) = Total(w, a)
      /\ get_attestation_score(store, rival, state) = Total(w, b)
  BY SupportersType
<1>2. a \subseteq all /\ b \subseteq all /\ c \subseteq all /\ all \in SUBSET ValidatorIndex
  BY VotesInSpan, BoundInSpan, SpanInHorizon
<1>3. a \cap b = {} /\ c \cap (a \cup b) = {}
  BY RivalsApart, BoundApart DEF Scene
<1> HIDE DEF a, b, c, all, w
<1>4. /\ IsFiniteSet(a) /\ IsFiniteSet(b) /\ IsFiniteSet(c) /\ IsFiniteSet(all)
      /\ balance_of(c) = Total(w, c) /\ balance_of(all) = Total(w, all)
      /\ \A i \in all : w[i] \in Nat
  <2>1. a \in SUBSET ValidatorIndex /\ b \in SUBSET ValidatorIndex /\ c \in SUBSET ValidatorIndex
    BY <1>2
  <2> QED BY <1>2, <2>1, BalanceIsTotal, BalancesType DEF w
<1>5. Total(w, a \cup b) = Total(w, a) + Total(w, b) /\ IsFiniteSet(a \cup b)
  <2>1. \A i \in a \cup b : w[i] \in Nat
    BY <1>2, <1>4
  <2>2. IsFiniteSet(a \cup b)
    BY <1>4, FS_Union
  <2>3. Total(w, a \cup b) = Total(w, a) + Total(w, b)
    BY <1>3, <1>4, <2>1, TotalUnion
  <2> QED BY <2>2, <2>3
<1>6. Total(w, (a \cup b) \cup c) = Total(w, a \cup b) + Total(w, c)
  <2>1. (a \cup b) \cap c = {} /\ \A i \in (a \cup b) \cup c : w[i] \in Nat
    BY <1>2, <1>3, <1>4
  <2> QED BY <1>4, <1>5, <2>1, TotalUnion
<1>7. Total(w, (a \cup b) \cup c) <= Total(w, all)
  <2>1. (a \cup b) \cup c \subseteq all
    BY <1>2
  <2> QED BY <1>4, <2>1, TotalMonotone
<1>8. Total(w, a) \in Nat /\ Total(w, b) \in Nat /\ Total(w, c) \in Nat /\ Total(w, all) \in Nat
  BY <1>2, <1>4, TotalType
<1> QED BY <1>1, <1>4, <1>5, <1>6, <1>7, <1>8 DEF c, all

(* The registry is static, so the states in scope have one total balance.  *)
LEMMA TotalIsStatic ==
  ASSUME NEW state \in BeaconStates
  PROVE  /\ get_total_active_balance(state) = get_total_active_balance(ANCHOR_STATE)
         /\ get_total_active_balance(state) \in Nat
         /\ state.validators \subseteq ValidatorIndex
<1> DEFINE active(s) == get_active_validator_indices(s, get_current_epoch(s))
<1>1. /\ ANCHOR_STATE \in BeaconStates
      /\ state.validators = ANCHOR_STATE.validators
      /\ state.slot \in HorizonSlots /\ ANCHOR_STATE.slot \in HorizonSlots
  BY AnchorAssumption, HorizonAssumption
<1>2. state.validators \subseteq ValidatorIndex
  BY ExternalsAssumption DEF BeaconState
<1>3. active(state) = active(ANCHOR_STATE) /\ active(state) \in SUBSET ValidatorIndex
  BY <1>1, <1>2, HorizonAssumption DEF get_active_validator_indices, get_current_epoch
<1> HIDE DEF active
<1>4. balance_of(active(state)) \in Nat
  <2>1. IsFiniteSet(active(state)) /\ balance_of(active(state)) = Total(balances, active(state))
    BY <1>3, BalanceIsTotal
  <2>2. \A i \in active(state) : balances[i] \in Nat
    BY <1>3, BalancesType
  <2> QED BY <2>1, <2>2, TotalType
<1>5. EFFECTIVE_BALANCE_INCREMENT \in Nat
  BY ConfigAssumption
<1> QED BY <1>2, <1>3, <1>4, <1>5 DEF get_total_active_balance, active

(* The estimate of a span is a number.                                     *)
LEMMA EstimateType ==
  ASSUME NEW total \in Nat, NEW start \in Int, NEW end \in Int
  PROVE  estimate_committee_weight_between_slots(total, start, end) \in Int
<1>1. /\ SLOTS_PER_EPOCH \in Nat \ {0}
      /\ COMMITTEE_WEIGHT_ESTIMATION_ADJUSTMENT_FACTOR \in Nat
  BY ConfigAssumption, RuleConfigAssumption
<1> DEFINE weight == total \div SLOTS_PER_EPOCH
           ends == compute_slots_since_epoch_start(end)
           starts == compute_slots_since_epoch_start(start)
<1>2. weight \in Int
  BY <1>1
<1>3. \A slot \in Int : compute_slots_since_epoch_start(slot) \in Int
  <2> SUFFICES ASSUME NEW slot \in Int PROVE compute_slots_since_epoch_start(slot) \in Int
    OBVIOUS
  <2>1. slot \div SLOTS_PER_EPOCH \in Int
    BY <1>1
  <2>2. (slot \div SLOTS_PER_EPOCH) * SLOTS_PER_EPOCH \in Int
    BY <1>1, <2>1
  <2> QED BY <2>2 DEF compute_slots_since_epoch_start, compute_start_slot_at_epoch,
                      compute_epoch_at_slot
<1>4. ends \in Int /\ starts \in Int
  BY <1>3
<1> HIDE DEF weight, ends, starts
<1>5. weight * (end - start + 1) \in Int /\ weight * (ends + 1) \in Int
      /\ weight * (SLOTS_PER_EPOCH - starts) \in Int
  BY <1>1, <1>2, <1>4
<1>6. ((weight * (SLOTS_PER_EPOCH - starts)) \div SLOTS_PER_EPOCH) \in Int
  BY <1>1, <1>5
<1>7. ((weight * (SLOTS_PER_EPOCH - starts)) \div SLOTS_PER_EPOCH)
         * (SLOTS_PER_EPOCH - (ends + 1)) \in Int
  BY <1>1, <1>4, <1>6
<1>8. \A n \in Int : adjust_committee_weight_estimate_to_ensure_safety(n) \in Int
  <2> SUFFICES ASSUME NEW n \in Int
               PROVE  adjust_committee_weight_estimate_to_ensure_safety(n) \in Int
    OBVIOUS
  <2>1. (n + 999) \div 1000 \in Int
    OBVIOUS
  <2> QED BY <1>1, <2>1 DEF adjust_committee_weight_estimate_to_ensure_safety
<1>9. adjust_committee_weight_estimate_to_ensure_safety(
        ((weight * (SLOTS_PER_EPOCH - starts)) \div SLOTS_PER_EPOCH)
           * (SLOTS_PER_EPOCH - (ends + 1)) + weight * (ends + 1)) \in Int
  BY <1>5, <1>7, <1>8
<1> QED BY <1>5, <1>9 DEF estimate_committee_weight_between_slots, weight, ends, starts

(* The adversary's weight is a number, and what the discount saturates     *)
(* against is never negative.                                              *)
LEMMA AdversarialType ==
  ASSUME NEW state, state.validators \subseteq ValidatorIndex,
         get_total_active_balance(state) \in Nat, NEW start \in Int, NEW end \in Int
  PROVE  compute_adversarial_weight(store, state, start, end) \in Nat
<1> DEFINE estimate == estimate_committee_weight_between_slots(
                         get_total_active_balance(state), start, end)
           equivocators == get_slot_committees(start, end)
                             \cap store.equivocating_indices \cap active_in(state)
<1>1. estimate \in Int
  BY EstimateType
<1>2. equivocators \in SUBSET ValidatorIndex
  BY DEF active_in, get_active_validator_indices
<1>3. balance_of(equivocators) \in Nat
  <2> HIDE DEF equivocators
  <2>1. /\ IsFiniteSet(equivocators)
        /\ balance_of(equivocators) = Total(balances, equivocators)
        /\ \A i \in equivocators : balances[i] \in Nat
    BY <1>2, BalanceIsTotal, BalancesType
  <2> QED BY <2>1, TotalType
<1> HIDE DEF estimate, equivocators
<1>4. (estimate \div 100) * CONFIRMATION_BYZANTINE_THRESHOLD \in Int
  <2>1. estimate \div 100 \in Int /\ CONFIRMATION_BYZANTINE_THRESHOLD \in Int
    BY <1>1, RuleConfigAssumption
  <2> QED BY <2>1
<1>5. \A m \in Int, n \in Nat : saturating_sub(m, n) \in Nat
  BY DEF saturating_sub
<1> QED BY <1>3, <1>4, <1>5 DEF compute_adversarial_weight, get_equivocation_score,
                                estimate, equivocators

LEMMA ScoresType ==
  ASSUME NEW state, get_total_active_balance(state) \in Nat
  PROVE  compute_proposer_score(state) \in Int
<1> DEFINE total == get_total_active_balance(state)
<1>1. SLOTS_PER_EPOCH \in Nat \ {0} /\ PROPOSER_SCORE_BOOST \in Nat /\ total \in Nat
  BY ConfigAssumption
<1> HIDE DEF total
<1>2. total \div SLOTS_PER_EPOCH \in Int
  BY <1>1
<1>3. (total \div SLOTS_PER_EPOCH) * PROPOSER_SCORE_BOOST \in Int
  BY <1>1, <1>2
<1> QED BY <1>3 DEF compute_proposer_score, calculate_committee_fraction, total

LEMMA AdversarialOfBlockType ==
  ASSUME TypeOK, NEW state, state.validators \subseteq ValidatorIndex,
         get_total_active_balance(state) \in Nat, NEW root
  PROVE  get_adversarial_weight(store, state, root) \in Nat
<1> DEFINE epoch == get_block_epoch(store, root)
           start == IF epoch > get_block_epoch(store, block_at(store, root).parent_root)
                    THEN compute_start_slot_at_epoch(epoch) ELSE block_slot(store, root)
<1>1. SLOTS_PER_EPOCH \in Nat \ {0} /\ block_slot(store, root) \in Nat
  BY ConfigAssumption, BlockSlotType DEF TypeOK
<1>2. compute_start_slot_at_epoch(epoch) \in Int
  <2>1. epoch \in Int
    BY <1>1 DEF get_block_epoch, compute_epoch_at_slot
  <2> HIDE DEF epoch
  <2> QED BY <1>1, <2>1 DEF compute_start_slot_at_epoch
<1>3. start \in Int
  BY <1>1, <1>2
<1>4. last_slot(store) \in Int
  <2>1. get_current_slot(store) \in Nat
    BY SlotType DEF TypeOK, IsStore, StoreOver, get_current_slot
  <2> QED BY <2>1 DEF last_slot, saturating_sub
<1> HIDE DEF start
<1>5. compute_adversarial_weight(store, state, start, last_slot(store)) \in Nat
  BY <1>3, <1>4, AdversarialType
<1> QED BY <1>5 DEF get_adversarial_weight, start, epoch

(* What is discounted is at most the weight bound to the parent.           *)
LEMMA DiscountIsBound ==
  ASSUME Scene, NEW root \in known \ {ANCHOR_BLOCK.root},
         NEW state, state.validators \subseteq ValidatorIndex,
         get_total_active_balance(state) \in Nat,
         balance_of(bound_to_parent(state, root)) \in Nat
  PROVE  /\ compute_empty_slot_support_discount(store, state, root) \in Nat
         /\ compute_empty_slot_support_discount(store, state, root)
              <= balance_of(bound_to_parent(state, root))
<1> DEFINE bound == balance_of(bound_to_parent(state, root))
           last == saturating_sub(block_slot(store, root), 1)
           moved == compute_adversarial_weight(store, state, first_slot(root), last)
           discount == compute_empty_slot_support_discount(store, state, root)
<1>1. block_at(store, root).slot = block_slot(store, root)
  BY DEF block_slot
<1>2. get_parent_payload_support_between_slots(store, state, block_at(store, root).parent_root,
        get_parent_payload_status(store, block_at(store, root)), first_slot(root), last) = bound
  BY DEF get_parent_payload_support_between_slots, bound_to_parent
<1>3. moved \in Nat
  <2>1. block_slot(store, root) \in Nat /\ first_slot(root) \in Int
    BY BlockSlotType, BranchType DEF Scene, TypeOK
  <2>2. last \in Int
    BY <2>1 DEF saturating_sub
  <2> HIDE DEF last
  <2> QED BY <2>1, <2>2, AdversarialType
<1>4. \/ discount = 0
      \/ discount = saturating_sub(bound, moved)
  <2> HIDE DEF bound
  <2> QED BY <1>1, <1>2 DEF compute_empty_slot_support_discount, first_slot
<1> HIDE DEF bound, moved, discount
<1>5. bound \in Nat
  BY DEF bound
<1>6. discount \in Nat /\ discount <= bound
  BY <1>3, <1>4, <1>5 DEF saturating_sub
<1> QED BY <1>6 DEF bound, discount

(* Above half of what may vote, the boost and twice the adversary, less    *)
(* the discount, leaves the margin over any rival.                         *)
LEMMA MarginArithmetic ==
  ASSUME NEW score \in Nat, NEW rival \in Nat, NEW bound \in Nat, NEW weight \in Nat,
         NEW estimate \in Int, NEW boost \in Int, NEW moved \in Nat, NEW discount \in Nat,
         score + rival + bound <= weight, weight <= estimate, discount <= bound,
         score > saturating_sub(estimate + boost + 2 * moved, discount) \div 2
  PROVE  score > rival + boost + 2 * moved
<1> DEFINE need == estimate + boost + 2 * moved
<1>1. need \in Int
  OBVIOUS
<1> HIDE DEF need
<1>2. saturating_sub(need, discount) \in Nat /\ need - discount <= saturating_sub(need, discount)
  BY <1>1 DEF saturating_sub
<1> DEFINE left == saturating_sub(need, discount)
<1> HIDE DEF left
<1>3. left \in Nat /\ score > left \div 2
  BY <1>2 DEF left, need
<1>4. left < 2 * score
  BY <1>3
<1>5. need - discount < 2 * score
  BY <1>1, <1>2, <1>4 DEF left
<1> QED BY <1>5 DEF need

(* A test that succeeds has votes to count.                                *)
LEMMA ConfirmedIsVoted ==
  ASSUME Scene, NEW root \in known \ {ANCHOR_BLOCK.root},
         NEW state, state.validators \subseteq ValidatorIndex,
         get_total_active_balance(state) \in Nat, is_one_confirmed(store, state, root)
  PROVE  supporters(store, get_node_for_root(root), state) # {}
<1> DEFINE voters == supporters(store, get_node_for_root(root), state)
           score == get_attestation_score(store, get_node_for_root(root), state)
           set == bound_to_parent(state, root)
           estimate == estimate_committee_weight_between_slots(
                         get_total_active_balance(state), first_slot(root), last_slot(store))
           boost == compute_proposer_score(state)
           moved == get_adversarial_weight(store, state, root)
           discount == compute_empty_slot_support_discount(store, state, root)
<1> SUFFICES ASSUME voters = {} PROVE FALSE
  OBVIOUS
<1>1. TypeOK /\ StoreSound
  BY DEF Scene
<1>2. boost \in Int /\ moved \in Nat
  BY <1>1, ScoresType, AdversarialOfBlockType
<1>3. score > saturating_sub(estimate + boost + 2 * moved, discount) \div 2
  BY DEF is_one_confirmed, compute_safety_threshold, first_slot
<1>4. score = 0
  <2>1. score = Total(balances, {})
    BY SupportersType
  <2> QED BY <2>1, TotalEmpty
<1>5. discount \in Int
  <2>1. set \in SUBSET ValidatorIndex
    BY DEF bound_to_parent, active_in, get_active_validator_indices
  <2> HIDE DEF set
  <2>2. /\ IsFiniteSet(set) /\ balance_of(set) = Total(balances, set)
        /\ \A i \in set : balances[i] \in Nat
    BY <2>1, BalanceIsTotal, BalancesType
  <2>3. balance_of(set) \in Nat
    BY <2>2, TotalType
  <2> QED BY <2>3, DiscountIsBound DEF set
<1>6. estimate \in Int
  <2>1. first_slot(root) \in Int /\ last_slot(store) \in Int
    BY <1>1, BranchType, SlotType
       DEF last_slot, saturating_sub, get_current_slot, TypeOK, IsStore, StoreOver
  <2> QED BY <2>1, EstimateType
<1> HIDE DEF score, estimate, boost, moved, discount, voters, set
<1>7. saturating_sub(estimate + boost + 2 * moved, discount) \in Nat
  BY <1>2, <1>5, <1>6 DEF saturating_sub
<1> QED BY <1>3, <1>4, <1>7

(* Without balances, as with the state of an unprepared checkpoint, no     *)
(* block passes the test.                                                  *)
LEMMA DefaultConfirmsNothing ==
  ASSUME Scene, NEW root \in known \ {ANCHOR_BLOCK.root}
  PROVE  ~ is_one_confirmed(store, DefaultState, root)
<1>1. DefaultState.validators = {}
  BY DEF DefaultState
<1>2. \A epoch : get_active_validator_indices(DefaultState, epoch) = {}
  BY <1>1 DEF get_active_validator_indices
<1>3. get_total_active_balance(DefaultState) \in Nat
  BY <1>2, NoBalance, ConfigAssumption DEF get_total_active_balance
<1>4. supporters(store, get_node_for_root(root), DefaultState) = {}
  BY <1>2 DEF supporters
<1> QED BY <1>1, <1>3, <1>4, ConfirmedIsVoted

LEMMA ConfirmedHasMargin ==
  ASSUME Scene, NEW root \in known \ {ANCHOR_BLOCK.root}, NEW rival \in rivals_of(root),
         NEW state \in BeaconStates, is_one_confirmed(store, state, root)
  PROVE  get_attestation_score(store, get_node_for_root(root), state)
           > get_attestation_score(store, rival, state) + compute_proposer_score(state)
               + 2 * get_adversarial_weight(store, state, root)
<1> DEFINE score == get_attestation_score(store, get_node_for_root(root), state)
           other == get_attestation_score(store, rival, state)
           bound == balance_of(bound_to_parent(state, root))
           weight == balance_of(span_of(root))
           estimate == estimate_committee_weight_between_slots(
                         get_total_active_balance(state), first_slot(root), last_slot(store))
           boost == compute_proposer_score(state)
           moved == get_adversarial_weight(store, state, root)
           discount == compute_empty_slot_support_discount(store, state, root)
<1>1. TypeOK /\ StoreSound
  BY DEF Scene
<1>2. /\ get_total_active_balance(state) = get_total_active_balance(ANCHOR_STATE)
      /\ get_total_active_balance(state) \in Nat
      /\ state.validators \subseteq ValidatorIndex
  BY TotalIsStatic
<1>3. boost \in Int /\ moved \in Nat
  BY <1>1, <1>2, ScoresType, AdversarialOfBlockType
<1>4. score > saturating_sub(estimate + boost + 2 * moved, discount) \div 2
  BY DEF is_one_confirmed, compute_safety_threshold, first_slot
<1>5. block_slot(store, root) <= get_current_slot(store)
  <2> DEFINE voters == supporters(store, get_node_for_root(root), state)
  <2>1. voters # {}
    BY <1>1, <1>2, ConfirmedIsVoted
  <2>2. PICK i \in voters : TRUE
    BY <2>1
  <2>3. /\ i \in DOMAIN store.latest_messages
        /\ is_ancestor(store, get_supported_node(store, store.latest_messages[i]),
                       get_node_for_root(root))
    BY <2>2 DEF supporters
  <2>4. /\ block_slot(store, root) \in Nat /\ get_current_slot(store) \in Nat
        /\ store.latest_messages[i].slot \in Nat
    BY <1>1, <2>3, BlockSlotType, SlotType
       DEF TypeOK, IsStore, StoreOver, get_current_slot, LatestMessage
  <2>5. block_slot(store, root) <= store.latest_messages[i].slot
    <3>1. /\ get_node_for_root(root) \in ForkChoiceNode
          /\ get_node_for_root(root).root = root
      BY <1>1, BranchType
    <3>2. block_slot(store, root) <= block_slot(store, get_node_for_root(root).root)
      BY <2>4, <3>1
    <3> QED BY <1>1, <2>3, <2>4, <3>1, <3>2, LateVote
  <2>6. store.latest_messages[i].slot < get_current_slot(store)
    BY <1>1, <2>3 DEF StoreSound, LatestMessagesSound
  <2> QED BY <2>4, <2>5, <2>6
<1>6. /\ score \in Nat /\ other \in Nat /\ bound \in Nat
      /\ score + other + bound <= weight
  BY <1>2, <1>5, SpanShared
<1>7. discount \in Nat /\ discount <= bound
  BY <1>2, <1>6, DiscountIsBound
<1>8. first_slot(root) \in HorizonSlots /\ last_slot(store) \in HorizonSlots
  BY <1>5, SpanInHorizon
<1>9. weight \in Nat /\ weight <= estimate
  <2>1. weight = committee_weight(first_slot(root), last_slot(store))
    BY DEF committee_weight, span_of
  <2>2. weight <= estimate
    BY <1>2, <1>8, <2>1, CommitteeAssumption
  <2>3. weight \in Nat
    <3> DEFINE set == span_of(root)
    <3>1. set \in SUBSET ValidatorIndex
      BY <1>5, SpanInHorizon
    <3> HIDE DEF set
    <3>2. /\ IsFiniteSet(set) /\ balance_of(set) = Total(balances, set)
          /\ \A i \in set : balances[i] \in Nat
      BY <3>1, BalanceIsTotal, BalancesType
    <3>3. balance_of(set) \in Nat
      BY <3>2, TotalType
    <3> QED BY <3>3 DEF set
  <2> QED BY <2>2, <2>3
<1>10. estimate \in Int
  <2>1. first_slot(root) \in Int /\ last_slot(store) \in Int
    BY <1>1, BranchType, SlotType
       DEF last_slot, saturating_sub, get_current_slot, TypeOK, IsStore, StoreOver
  <2> QED BY <1>2, <2>1, EstimateType
<1> HIDE DEF score, other, bound, weight, estimate, boost, moved, discount
<1>11. score > other + boost + 2 * moved
  BY <1>3, <1>4, <1>6, <1>7, <1>9, <1>10, MarginArithmetic
<1> QED BY <1>11 DEF score, other, boost, moved

(* Whatever blocks, votes and payloads arrive, a block that the rule's     *)
(* test confirms outweighs each rival by the boost a rival may get and     *)
(* twice the adversary's weight.                                           *)
THEOREM ConfirmedIsSafe == NodeSpec => []ConfirmedOutweighsRivals
<1>1. Scene => ConfirmedOutweighsRivals
  <2> SUFFICES ASSUME Scene PROVE ConfirmedOutweighsRivals
    OBVIOUS
  <2> DEFINE state == get_current_balance_source(store, fcr_store)
             checkpoint == fcr_store.current_epoch_observed_justified_checkpoint
  <2> SUFFICES ASSUME NEW root \in known \ {ANCHOR_BLOCK.root},
                      is_one_confirmed(store, state, root), NEW rival \in rivals_of(root)
               PROVE  get_attestation_score(store, get_node_for_root(root), state)
                        > get_attestation_score(store, rival, state)
                            + compute_proposer_score(state)
                            + 2 * get_adversarial_weight(store, state, root)
    BY DEF ConfirmedOutweighsRivals, rivals_of, branch_of
  <2>1. CASE checkpoint \in DOMAIN store.checkpoint_states
    <3>1. state \in BeaconStates
      BY <2>1 DEF get_current_balance_source, checkpoint_state, Scene, TypeOK, IsStore, StoreOver
    <3> HIDE DEF state
    <3> QED BY <3>1, ConfirmedHasMargin
  <2>2. CASE checkpoint \notin DOMAIN store.checkpoint_states
    <3>1. state = DefaultState
      BY <2>2 DEF get_current_balance_source, checkpoint_state
    <3> HIDE DEF state
    <3> QED BY <3>1, DefaultConfirmsNothing DEF Scene
  <2> QED BY <2>1, <2>2
<1>2. TypeOK /\ StoreSound /\ VotesConfined /\ ClockInHorizon => ConfirmedOutweighsRivals
  BY <1>1 DEF Scene
<1> QED BY <1>2, RuleLeavesStoreAlone, StoreTypeCorrect, StoreInvariant, ScopeInvariant, PTL

-----------------------------------------------------------------------------
(* The chain between two blocks.                                           *)

(* What get_ancestor_roots returns for a block: known blocks from above    *)
(* terminal on that the block descends from, and that descend from         *)
(* terminal.                                                               *)
IsChain(s, terminal, root, chain) ==
  /\ chain \in Seq(Root)
  /\ chain # <<>> => below(s, root, terminal)
  /\ \A k \in DOMAIN chain :
       /\ chain[k] \in DOMAIN s.blocks
       /\ block_slot(s, chain[k]) > block_slot(s, terminal)
       /\ below(s, root, chain[k])
       /\ below(s, chain[k], terminal)

RootsBody(s, terminal, root, chain_of_parent) ==
  LET parent == block_at(s, root).parent_root
  IN  IF block_slot(s, root) <= block_slot(s, terminal) THEN <<>>
      ELSE IF parent = terminal THEN <<root>>
      ELSE IF chain_of_parent = <<>> THEN <<>> ELSE Append(chain_of_parent, root)

LEMMA RootsEquation ==
  ASSUME NEW s, Tree(s), NEW terminal \in Root, NEW root \in Root
  PROVE  get_ancestor_roots(s, root, terminal)
           = RootsBody(s, terminal, root,
                       get_ancestor_roots(s, block_at(s, root).parent_root, terminal))
<1> DEFINE S == Root
           V == Seq(Root)
           Deep == {r \in S : block_slot(s, r) > block_slot(s, terminal)}
           step == [r \in Deep |-> block_at(s, r).parent_root]
           pred == [r \in S |-> IF r \in Deep THEN {step[r]} ELSE {}]
           rank == [r \in S |-> block_slot(s, r)]
           join(r, chain) == IF step[r] = terminal THEN <<r>>
                             ELSE IF chain = <<>> THEN <<>> ELSE Append(chain, r)
           body == [a \in S \X [S -> V] |->
                      IF a[1] \in Deep THEN join(a[1], a[2][step[a[1]]]) ELSE <<>>]
           walk == CHOOSE w : w = [r \in Root |->
                     LET parent == block_at(s, r).parent_root
                     IN  IF block_slot(s, r) <= block_slot(s, terminal) THEN <<>>
                         ELSE IF parent = terminal THEN <<r>>
                         ELSE IF w[parent] = <<>> THEN <<>> ELSE Append(w[parent], r)]
<1>1. ASSUME NEW r \in Deep PROVE step[r] \in S /\ rank[step[r]] < rank[r]
  <2>1. IsStore(s) /\ Descending(s, 0)
    BY TreeDescends
  <2>2. block_slot(s, r) \in Nat /\ block_slot(s, terminal) \in Nat
    BY <2>1, BlockSlotType
  <2>3. block_slot(s, r) > 0
    BY <2>2
  <2>4. r \in DOMAIN s.blocks
    BY <2>3, ConfigAssumption DEF block_slot, block_at
  <2>5. block_at(s, r) = s.blocks[r] /\ s.blocks[r].slot > 0 /\ s.blocks[r].parent_root \in Root
    BY <2>1, <2>3, <2>4 DEF block_slot, block_at, IsStore, StoreOver, BeaconBlock
  <2>6. block_slot(s, s.blocks[r].parent_root) < s.blocks[r].slot
    BY <2>1, <2>4, <2>5 DEF Descending
  <2> QED BY <2>5, <2>6 DEF block_slot
<1>2. Recursion(S, V, pred, rank, body)
  <2>1. rank \in [S -> Nat]
    BY TreeDescends, BlockSlotType
  <2>2. V # {}
    <3>1. <<>> \in V
      OBVIOUS
    <3> HIDE DEF V
    <3> QED BY <3>1
  <2>3. Deep \subseteq S
    OBVIOUS
  <2> HIDE DEF S, Deep, step, rank
  <2>4. \A n \in S : pred[n] \subseteq S /\ \A other \in pred[n] : rank[other] < rank[n]
    BY <1>1, <2>3
  <2>5. \A r \in S, chain \in V : join(r, chain) \in V
    BY DEF S
  <2> HIDE DEF join, V
  <2>6. body \in [S \X [S -> V] -> V]
    <3>1. <<>> \in V
      BY DEF V
    <3> QED BY <1>1, <2>5, <3>1
  <2>7. \A n \in S, f, g \in [S -> V] :
          (\A other \in pred[n] : f[other] = g[other]) => body[<<n, f>>] = body[<<n, g>>]
    OBVIOUS
  <2> HIDE DEF pred, body
  <2> QED BY <2>1, <2>2, <2>4, <2>6, <2>7 DEF Recursion
<1>3. PICK f \in [S -> V] : \A n \in S : f[n] = body[<<n, f>>]
  <2> HIDE DEF S, V, pred, rank, body
  <2> QED BY <1>2, RecursionExists
<1>4. \A r \in Root : f[r] = RootsBody(s, terminal, r, f[block_at(s, r).parent_root])
  <2> SUFFICES ASSUME NEW r \in Root
               PROVE  f[r] = RootsBody(s, terminal, r, f[block_at(s, r).parent_root])
    OBVIOUS
  <2>1. f[r] = IF r \in Deep THEN join(r, f[step[r]]) ELSE <<>>
    <3> HIDE DEF Deep, step, join
    <3> QED BY <1>3
  <2>2. r \in Deep <=> ~ (block_slot(s, r) <= block_slot(s, terminal))
    BY TreeDescends, BlockSlotType
  <2>3. r \in Deep => step[r] = block_at(s, r).parent_root
    OBVIOUS
  <2> HIDE DEF Deep, step
  <2> QED BY <2>1, <2>2, <2>3 DEF RootsBody
<1> HIDE DEF body, join, step, Deep, pred, rank
<1>5. f \in [Root -> Seq(Root)]
  BY <1>3 DEF S, V
<1>6. f = [r \in Root |->
             LET parent == block_at(s, r).parent_root
             IN  IF block_slot(s, r) <= block_slot(s, terminal) THEN <<>>
                 ELSE IF parent = terminal THEN <<r>>
                 ELSE IF f[parent] = <<>> THEN <<>> ELSE Append(f[parent], r)]
  BY <1>4, <1>5 DEF RootsBody
<1>7. walk = [r \in Root |->
             LET parent == block_at(s, r).parent_root
             IN  IF block_slot(s, r) <= block_slot(s, terminal) THEN <<>>
                 ELSE IF parent = terminal THEN <<r>>
                 ELSE IF walk[parent] = <<>> THEN <<>> ELSE Append(walk[parent], r)]
  BY <1>6
<1>8. \A r : get_ancestor_roots(s, r, terminal) = walk[r]
  BY DEF get_ancestor_roots
<1> HIDE DEF walk
<1>9. walk[root] = RootsBody(s, terminal, root, walk[block_at(s, root).parent_root])
  BY <1>7 DEF RootsBody
<1> QED BY <1>8, <1>9

LEMMA RootsFacts ==
  ASSUME NEW s, Tree(s), NEW terminal \in DOMAIN s.blocks, NEW root \in Root
  PROVE  IsChain(s, terminal, root, get_ancestor_roots(s, root, terminal))
<1> DEFINE chain(r) == get_ancestor_roots(s, r, terminal)
           bad == {r \in Root : ~ IsChain(s, terminal, r, chain(r))}
           ranks == {block_slot(s, r) : r \in bad}
           low == block_slot(s, terminal)
<1> SUFFICES ASSUME bad # {} PROVE FALSE
  OBVIOUS
<1>1. IsStore(s) /\ terminal \in Root /\ \A r : block_slot(s, r) \in Nat
  BY TreeDescends, BlockSlotType DEF IsStore
<1>2. ranks \subseteq Nat /\ ranks # {}
  BY <1>1
<1>3. PICK m \in ranks : \A other \in ranks : m <= other
  BY <1>2, LeastNatural
<1>4. PICK r \in bad : m = block_slot(s, r)
  OBVIOUS
<1>5. r \in Root /\ ~ IsChain(s, terminal, r, chain(r))
  OBVIOUS
<1> DEFINE parent == block_at(s, r).parent_root
<1>6. chain(r) = RootsBody(s, terminal, r, chain(parent))
  BY <1>1, <1>5, RootsEquation
<1>7. parent \notin bad \/ block_slot(s, r) <= block_slot(s, parent)
  BY <1>3, <1>4
<1> HIDE DEF bad, ranks, chain
<1>8. IsChain(s, terminal, r, <<>>)
  BY DEF IsChain
<1>9. block_slot(s, r) > low
  <2>1. block_slot(s, r) <= low => chain(r) = <<>>
    BY <1>6 DEF RootsBody
  <2> QED BY <1>1, <1>5, <1>8, <2>1
<1>10. r \in DOMAIN s.blocks /\ block_at(s, r) = s.blocks[r]
  BY <1>1, <1>9, ConfigAssumption DEF block_slot, block_at
<1>11. parent \in Root /\ block_slot(s, parent) < block_slot(s, r)
  <2>1. parent \in Root
    BY <1>1, <1>10 DEF IsStore, StoreOver, BeaconBlock
  <2>2. Descending(s, 0) /\ s.blocks[r].slot > 0
    BY <1>1, <1>9, <1>10, TreeDescends DEF block_slot
  <2> QED BY <1>10, <2>1, <2>2 DEF Descending, block_slot
<1>12. IsChain(s, terminal, parent, chain(parent))
  BY <1>1, <1>7, <1>11 DEF bad
<1>13. below(s, r, r)
  BY <1>5, BelowSelf
<1>14. CASE parent = terminal
  <2>1. chain(r) = <<r>>
    BY <1>1, <1>6, <1>9, <1>14 DEF RootsBody
  <2>2. below(s, r, terminal)
    BY <1>1, <1>10, <1>14, BelowSelf, BelowParent
  <2> QED BY <1>5, <1>9, <1>10, <1>13, <2>1, <2>2 DEF IsChain
<1>15. CASE parent # terminal
  <2>1. chain(r) = IF chain(parent) = <<>> THEN <<>> ELSE Append(chain(parent), r)
    BY <1>1, <1>6, <1>9, <1>15 DEF RootsBody
  <2>2. CASE chain(parent) = <<>>
    BY <1>5, <1>8, <2>1, <2>2
  <2>3. CASE chain(parent) # <<>>
    <3> DEFINE c == chain(parent)
               longer == Append(c, r)
    <3>1. /\ c \in Seq(Root) /\ below(s, parent, terminal)
          /\ \A k \in DOMAIN c :
               /\ c[k] \in DOMAIN s.blocks
               /\ block_slot(s, c[k]) > block_slot(s, terminal)
               /\ below(s, parent, c[k])
               /\ below(s, c[k], terminal)
      BY <1>12, <2>3 DEF IsChain
    <3>2. chain(r) = longer
      BY <2>1, <2>3
    <3> HIDE DEF c
    <3>3. parent \in DOMAIN s.blocks
      <4>1. 1 \in DOMAIN c
        BY <2>3, <3>1 DEF c
      <4>2. block_slot(s, c[1]) > low /\ block_slot(s, c[1]) <= block_slot(s, parent)
        BY <1>11, <3>1, <4>1, BelowSlots
      <4>3. block_slot(s, parent) > 0
        BY <1>1, <4>2
      <4> QED BY <4>3, ConfigAssumption DEF block_slot, block_at
    <3>4. below(s, r, terminal)
      BY <1>10, <3>1, <3>3, BelowParent
    <3>5. ASSUME NEW k \in DOMAIN c PROVE below(s, r, c[k])
      BY <1>10, <3>1, <3>3, BelowParent
    <3>6. /\ longer \in Seq(Root)
          /\ \A k \in DOMAIN longer : \/ k \in DOMAIN c /\ longer[k] = c[k]
                                      \/ longer[k] = r
      BY <1>5, <3>1
    <3> HIDE DEF longer
    <3>7. ASSUME NEW k \in DOMAIN longer
          PROVE  /\ longer[k] \in DOMAIN s.blocks
                 /\ block_slot(s, longer[k]) > block_slot(s, terminal)
                 /\ below(s, r, longer[k])
                 /\ below(s, longer[k], terminal)
      BY <1>9, <1>10, <1>13, <3>1, <3>4, <3>5, <3>6
    <3>8. IsChain(s, terminal, r, longer)
      BY <3>4, <3>6, <3>7 DEF IsChain
    <3> QED BY <1>5, <3>2, <3>8
  <2> QED BY <2>2, <2>3
<1> QED BY <1>14, <1>15

(* The loops stop at the block they start from or at one whose check       *)
(* succeeded.                                                              *)
LEMMA AdvanceFacts ==
  ASSUME NEW first \in Root, NEW roots \in Seq(Root), NEW ok, DOMAIN ok = 1..Len(roots)
  PROVE  LET found == advance(<<first>> \o roots, ok)
         IN  \/ found = first
             \/ \E k \in DOMAIN roots : ok[k] /\ found = roots[k]
<1> DEFINE n == Len(roots)
           P == {k \in DOMAIN ok : \A j \in 1..k : ok[j]}
           m == Cardinality(P)
           chain == <<first>> \o roots
<1>1. n \in Nat /\ P \subseteq 1..n
  OBVIOUS
<1> HIDE DEF n
<1>2. IsFiniteSet(1..n) /\ Cardinality(1..n) = n
  <2>1. 1 \in Int /\ n \in Int
    BY <1>1
  <2>2. IsFiniteSet(1..n) /\ Cardinality(1..n) = IF 1 > n THEN 0 ELSE n - 1 + 1
    BY ONLY <2>1, FS_Interval
  <2>3. (IF 1 > n THEN 0 ELSE n - 1 + 1) = n
    BY <1>1
  <2> QED BY <2>2, <2>3
<1>3. IsFiniteSet(P) /\ m \in Nat /\ m <= n
  <2> HIDE DEF P
  <2>1. IsFiniteSet(P) /\ Cardinality(P) <= Cardinality(1..n)
    BY <1>1, <1>2, FS_Subset
  <2> QED BY <1>2, <2>1, FS_CardinalityType
<1>4. ASSUME m # 0 PROVE m \in P
  <2>1. SUFFICES ASSUME m \notin P PROVE FALSE
    OBVIOUS
  <2>2. m \in 1..n
    BY <1>1, <1>3, <1>4
  <2>3. \A p \in P, q \in 1..n : q <= p => q \in P
    <3> SUFFICES ASSUME NEW p \in P, NEW q \in 1..n, q <= p PROVE q \in P
      OBVIOUS
    <3>1. 1..q \subseteq 1..p /\ p \in DOMAIN ok /\ q \in DOMAIN ok
      BY <1>1 DEF n
    <3> QED BY <3>1
  <2> HIDE DEF P, m
  <2>4. P \subseteq 1..(m - 1)
    <3> SUFFICES ASSUME NEW p \in P, ~ (p <= m - 1) PROVE FALSE
      BY <1>1
    <3>1. p \in 1..n /\ m <= p
      BY <1>1, <1>3, <2>2
    <3> QED BY <2>1, <2>2, <2>3, <3>1
  <2> DEFINE last == m - 1
             T == 1..last
  <2>5. 1 \in Int /\ last \in Int /\ (IF 1 > last THEN 0 ELSE last - 1 + 1) = last
    BY <1>3, <2>2
  <2> HIDE DEF last
  <2>6. IsFiniteSet(T) /\ Cardinality(T) = IF 1 > last THEN 0 ELSE last - 1 + 1
    BY ONLY <2>5, FS_Interval
  <2>7. P \subseteq T
    BY <2>4 DEF last
  <2> HIDE DEF T
  <2>8. Cardinality(P) <= Cardinality(T)
    BY <2>6, <2>7, FS_Subset
  <2> QED BY <1>3, <2>5, <2>6, <2>8 DEF m, last
<1>5. advance(chain, ok) = chain[1 + m]
  BY DEF advance
<1>6. CASE m = 0
  <2>1. chain[1] = first
    OBVIOUS
  <2> HIDE DEF chain, m
  <2> QED BY <1>5, <1>6, <2>1 DEF chain
<1>7. CASE m # 0
  <2>1. m \in DOMAIN ok /\ m \in 1..m
    <3> HIDE DEF m
    <3>1. m \in DOMAIN ok
      BY <1>4, <1>7
    <3> QED BY <1>1, <1>3, <1>7, <3>1
  <2>2. \A k \in P : \A j \in 1..k : ok[j]
    OBVIOUS
  <2> HIDE DEF P, m
  <2>3. ok[m]
    BY <1>4, <1>7, <2>1, <2>2
  <2>4. chain[1 + m] = roots[m] /\ m \in DOMAIN roots
    BY <2>1
  <2> HIDE DEF chain
  <2> QED BY <1>5, <2>3, <2>4 DEF chain
<1> QED BY <1>6, <1>7

-----------------------------------------------------------------------------
(* Where the rule's answer lies.                                           *)

(* Blocks only join the tree.                                              *)
LEMMA KnownGrows ==
  ASSUME TypeOK, [Next]_vars
  PROVE  known \subseteq known'
<1>1. ASSUME SameBlocks(store, store') PROVE known \subseteq known'
  BY <1>1 DEF SameBlocks, known
<1>2. ASSUME NEW sb \in SIGNED_BLOCKS, on_block_accepts(store, sb), store' = on_block(store, sb)
      PROVE  known \subseteq known'
  <2>1. store'.blocks = put(store.blocks, sb.root, sb.message)
    BY <1>2, ImportedBlock DEF TypeOK
  <2> QED BY <2>1 DEF put, known
<1> QED BY <1>1, <1>2, BlocksStep

(* Every known block descends from the anchor.                             *)
LEMMA KnownBelowAnchor ==
  ASSUME TypeOK, StoreSound, NEW root \in known
  PROVE  below(store, root, ANCHOR_BLOCK.root)
<1> DEFINE bad == {r \in known : ~ below(store, r, ANCHOR_BLOCK.root)}
           slots == {store.blocks[r].slot : r \in bad}
<1> SUFFICES ASSUME bad # {} PROVE FALSE
  OBVIOUS
<1>1. Tree(store) /\ known = DOMAIN store.blocks /\ known \subseteq Root
  BY StoreIsTree DEF known, TypeOK, IsStore
<1>2. \A r \in known : store.blocks[r].slot \in Nat
  BY <1>1 DEF Tree, IsStore, StoreOver, BeaconBlock
<1>3. slots \subseteq Nat /\ slots # {}
  BY <1>2
<1>4. PICK m \in slots : \A k \in slots : m <= k
  BY <1>3, LeastNatural
<1>5. PICK r \in bad : m = store.blocks[r].slot
  OBVIOUS
<1>6. r \in known /\ r \in Root /\ ~ below(store, r, ANCHOR_BLOCK.root)
  BY <1>1
<1>7. r # ANCHOR_BLOCK.root
  BY <1>1, <1>6, BelowSelf
<1> DEFINE parent == store.blocks[r].parent_root
<1>8. parent \in known /\ store.blocks[parent].slot < store.blocks[r].slot
  BY <1>6, <1>7 DEF StoreSound, TreeSound, known
<1>9. below(store, parent, ANCHOR_BLOCK.root)
  <2>1. parent \in bad => store.blocks[r].slot <= store.blocks[parent].slot
    BY <1>4, <1>5
  <2>2. store.blocks[r].slot \in Nat /\ store.blocks[parent].slot \in Nat
    BY <1>2, <1>6, <1>8
  <2>3. parent \notin bad
    <3> HIDE DEF bad, parent
    <3> QED BY <1>8, <2>1, <2>2
  <2> QED BY <1>8, <2>3
<1> QED BY <1>1, <1>6, <1>8, <1>9, BelowParent

LEMMA EpochMonotone ==
  ASSUME NEW s, IsStore(s), NEW a, NEW b, block_slot(s, a) <= block_slot(s, b)
  PROVE  /\ get_block_epoch(s, a) \in Nat /\ get_block_epoch(s, b) \in Nat
         /\ get_block_epoch(s, a) <= get_block_epoch(s, b)
<1>1. /\ block_slot(s, a) \in Nat /\ block_slot(s, b) \in Nat
      /\ SLOTS_PER_EPOCH \in Nat \ {0}
  BY BlockSlotType, ConfigAssumption
<1> QED BY <1>1, DivMonotone DEF get_block_epoch, compute_epoch_at_slot

(* On from c towards the head, by the one-block test.                      *)
Advances(s, state, head, c, found) ==
  \/ found = c
  \/ /\ found \in DOMAIN s.blocks
     /\ block_slot(s, found) > block_slot(s, c)
     /\ below(s, head, found)
     /\ below(s, found, c)
     /\ is_one_confirmed(s, state, found)

LEMMA LoopAdvances ==
  ASSUME NEW s, Tree(s), NEW head \in Root, NEW c \in DOMAIN s.blocks, NEW state, NEW ok,
         DOMAIN ok = 1..Len(chain_to_head(s, head, c)) - 1,
         \A k \in DOMAIN ok : ok[k] => is_one_confirmed(s, state, chain_to_head(s, head, c)[k + 1])
  PROVE  Advances(s, state, head, c, advance(chain_to_head(s, head, c), ok))
<1> DEFINE roots == get_ancestor_roots(s, head, c)
           found == advance(<<c>> \o roots, ok)
<1>1. IsChain(s, c, head, roots) /\ c \in Root
  BY RootsFacts DEF Tree, IsStore
<1>2. chain_to_head(s, head, c) = <<c>> \o roots
  BY DEF chain_to_head
<1> HIDE DEF roots
<1>3. roots \in Seq(Root)
  BY <1>1 DEF IsChain
<1>4. Len(<<c>> \o roots) - 1 = Len(roots)
  BY <1>1, <1>3
<1>5. DOMAIN ok = 1..Len(roots)
  BY <1>2, <1>4
<1>6. \/ found = c
      \/ \E k \in DOMAIN roots : ok[k] /\ found = roots[k]
  BY <1>1, <1>3, <1>5, AdvanceFacts
<1> HIDE DEF found
<1>7. ASSUME NEW k \in DOMAIN roots, ok[k], found = roots[k]
      PROVE  Advances(s, state, head, c, found)
  <2>1. (<<c>> \o roots)[k + 1] = roots[k] /\ k \in DOMAIN ok
    BY <1>1, <1>3, <1>5
  <2>2. is_one_confirmed(s, state, found)
    BY <1>2, <1>7, <2>1
  <2> QED BY <1>1, <1>7, <2>2 DEF IsChain, Advances
<1> QED BY <1>2, <1>6, <1>7 DEF Advances, found

LEMMA PreviousAdvances ==
  ASSUME NEW s, Tree(s), NEW head \in Root, NEW c \in DOMAIN s.blocks, NEW f
  PROVE  Advances(s, get_current_balance_source(s, f), head, c,
                  previous_epoch_advance(s, f, head, c))
<1> DEFINE chain == chain_to_head(s, head, c)
           state == get_current_balance_source(s, f)
           ok == [k \in 1..Len(chain) - 1 |->
                    /\ get_block_epoch(s, chain[k + 1]) # get_current_store_epoch(s)
                    /\ descends(s, f.previous_slot_head, chain[k + 1])
                    /\ is_one_confirmed(s, state, chain[k + 1])]
<1>1. previous_epoch_advance(s, f, head, c) = advance(chain, ok)
  BY DEF previous_epoch_advance
<1>2. DOMAIN ok = 1..Len(chain) - 1
  OBVIOUS
<1>3. \A k \in DOMAIN ok : ok[k] => is_one_confirmed(s, state, chain[k + 1])
  OBVIOUS
<1> HIDE DEF ok, state
<1> QED BY <1>1, <1>2, <1>3, LoopAdvances DEF state

LEMMA TentativeAdvances ==
  ASSUME NEW s, Tree(s), NEW head \in Root, NEW c \in DOMAIN s.blocks, NEW f
  PROVE  Advances(s, get_current_balance_source(s, f), head, c,
                  tentative_advance(s, f, head, c))
<1> DEFINE chain == chain_to_head(s, head, c)
           state == get_current_balance_source(s, f)
           ok == [k \in 1..Len(chain) - 1 |->
                    /\ get_block_epoch(s, chain[k + 1]) > get_block_epoch(s, chain[k])
                         => will_current_target_be_justified(s, head)
                    /\ is_one_confirmed(s, state, chain[k + 1])]
<1>1. tentative_advance(s, f, head, c) = advance(chain, ok)
  BY DEF tentative_advance
<1>2. DOMAIN ok = 1..Len(chain) - 1
  OBVIOUS
<1>3. \A k \in DOMAIN ok : ok[k] => is_one_confirmed(s, state, chain[k + 1])
  OBVIOUS
<1> HIDE DEF ok, state
<1> QED BY <1>1, <1>2, <1>3, LoopAdvances DEF state

(* The search for a later block advances from c, in one stage or two.      *)
LEMMA SearchAdvances ==
  ASSUME NEW s, Tree(s), NEW head \in Root, NEW c \in DOMAIN s.blocks, NEW f
  PROVE  Advances(s, get_current_balance_source(s, f), head, c,
                  find_latest_confirmed_descendant(s, f, head, c))
<1> DEFINE state == get_current_balance_source(s, f)
           found == find_latest_confirmed_descendant(s, f, head, c)
           first == previous_epoch_advance(s, f, head, c)
           current_epoch == get_current_store_epoch(s)
           is_recent(checkpoint) == checkpoint.epoch + 1 >= current_epoch
           is_voting_source_recent(root) ==
             get_voting_source(s, root).epoch + 2 >= current_epoch
           reached ==
             IF /\ get_block_epoch(s, c) + 1 = current_epoch
                /\ is_voting_source_recent(f.previous_slot_head)
                /\ \/ at_epoch_start(s)
                   \/ /\ will_no_conflicting_checkpoint_be_justified(s, head)
                      /\ \/ is_recent(s.unrealized_justifications[f.previous_slot_head])
                         \/ is_recent(s.unrealized_justifications[head])
             THEN first ELSE c
           tentative == tentative_advance(s, f, head, reached)
<1>1. \E middle \in {c, first} : found \in {middle, tentative_advance(s, f, head, middle)}
  <2>1. reached \in {c, first}
    <3> HIDE DEF first, is_voting_source_recent, is_recent, current_epoch
    <3> QED OBVIOUS
  <2>2. found =
          IF /\ at_epoch_start(s) \/ is_recent(s.unrealized_justifications[head])
             /\ \/ get_block_epoch(s, tentative) = current_epoch
                \/ /\ is_voting_source_recent(tentative)
                   /\ \/ at_epoch_start(s)
                      \/ will_no_conflicting_checkpoint_be_justified(s, head)
          THEN tentative ELSE reached
    BY DEF find_latest_confirmed_descendant
  <2>3. found \in {reached, tentative}
    <3> HIDE DEF found, reached, tentative, is_voting_source_recent, is_recent, current_epoch
    <3> QED BY <2>2
  <2> HIDE DEF reached, found, first
  <2> QED BY <2>1, <2>3
<1> HIDE DEF reached, is_recent, is_voting_source_recent, tentative, current_epoch
<1>2. PICK middle \in {c, first} : found \in {middle, tentative_advance(s, f, head, middle)}
  BY <1>1
<1>3. Advances(s, state, head, c, middle)
  BY <1>2, PreviousAdvances DEF Advances
<1> HIDE DEF state, found, first
<1>4. middle \in DOMAIN s.blocks /\ c \in Root
  BY <1>3 DEF Advances, Tree, IsStore
<1>5. Advances(s, state, head, middle, found)
  BY <1>2, <1>4, TentativeAdvances DEF Advances, state
<1>6. CASE found = middle \/ middle = c
  BY <1>3, <1>5, <1>6 DEF Advances, state, found
<1>7. CASE found # middle /\ middle # c
  <2>1. /\ found \in DOMAIN s.blocks /\ found \in Root /\ middle \in Root
        /\ block_slot(s, found) > block_slot(s, middle)
        /\ block_slot(s, middle) > block_slot(s, c)
        /\ below(s, found, middle) /\ below(s, middle, c)
    BY <1>3, <1>4, <1>5, <1>7 DEF Advances, Tree, IsStore
  <2>2. below(s, found, c)
    BY <2>1, BelowTransitive
  <2>3. block_slot(s, found) > block_slot(s, c)
    <3>1. block_slot(s, found) \in Nat /\ block_slot(s, middle) \in Nat /\ block_slot(s, c) \in Nat
      BY BlockSlotType DEF Tree
    <3> QED BY <2>1, <3>1
  <2> QED BY <1>5, <1>7, <2>2, <2>3 DEF Advances, state, found
<1> QED BY <1>6, <1>7

LEMMA DescendsIsBelow ==
  ASSUME NEW s, NEW root, NEW ancestor
  PROVE  descends(s, root, ancestor) <=> below(s, root, ancestor)
BY DEF descends, below, get_node_for_root

(* Where the search starts from.                                           *)
LEMMA RevertKinds ==
  ASSUME NEW s, NEW f, NEW head
  PROVE  LET c == revert_to_finalized(s, f, head)
         IN  /\ \/ c = s.finalized_checkpoint.root
                \/ /\ c = f.confirmed_root
                   /\ below(s, head, c)
                   /\ ~ (get_block_epoch(s, c) + 1 < get_current_store_epoch(s))
             /\ (/\ ~ at_epoch_start(s)
                 /\ below(s, head, f.confirmed_root)
                 /\ ~ (get_block_epoch(s, f.confirmed_root) + 1 < get_current_store_epoch(s)))
                  => c = f.confirmed_root
<1> DEFINE old == get_block_epoch(s, f.confirmed_root) + 1 < get_current_store_epoch(s)
           off == ~ descends(s, head, f.confirmed_root)
           failed == at_epoch_start(s) /\ ~ is_confirmed_chain_safe(s, f, f.confirmed_root)
           c == revert_to_finalized(s, f, head)
<1>1. c = IF old \/ off \/ failed THEN s.finalized_checkpoint.root ELSE f.confirmed_root
  BY DEF revert_to_finalized
<1>2. off <=> ~ below(s, head, f.confirmed_root)
  BY DescendsIsBelow
<1>3. ~ at_epoch_start(s) => ~ failed
  OBVIOUS
<1>4. old <=> get_block_epoch(s, f.confirmed_root) + 1 < get_current_store_epoch(s)
  OBVIOUS
<1> HIDE DEF old, off, failed, c
<1>5. CASE old \/ off \/ failed
  BY <1>1, <1>2, <1>3, <1>4, <1>5 DEF c
<1>6. CASE ~ (old \/ off \/ failed)
  BY <1>1, <1>2, <1>3, <1>4, <1>6 DEF c
<1> QED BY <1>5, <1>6

LEMMA RestartKinds ==
  ASSUME NEW s, NEW f, NEW head, NEW c
  PROVE  LET observed == f.current_epoch_observed_justified_checkpoint
             start == restart_from_observed(s, f, head, c)
         IN  \/ start = c
             \/ /\ at_epoch_start(s)
                /\ start = observed.root
                /\ observed = s.unrealized_justifications[head]
                /\ get_block_epoch(s, start) + 1 = get_current_store_epoch(s)
BY DEF restart_from_observed

(* What the rule may know: its blocks are in the store, its checkpoints    *)
(* are on known chains.                                                    *)
Grounded == TypeOK /\ StoreSound /\ ChainSound(store)

LEMMA ObservedIsOnChain ==
  ASSUME Grounded, NEW head \in known, NEW observed \in Checkpoint,
         OnKnownChain(store, observed), observed = store.unrealized_justifications[head]
  PROVE  observed.root \in known /\ below(store, head, observed.root)
<1>1. TypeOK /\ StoreSound /\ ChainSound(store) /\ ANCHOR_BLOCK.root \in known
  BY DEF Grounded, StoreSound, TreeSound, known
<1>2. CASE observed = anchor_checkpoint
  <2>1. observed.root = ANCHOR_BLOCK.root
    BY <1>2 DEF anchor_checkpoint
  <2> QED BY <1>1, <2>1, KnownBelowAnchor
<1>3. CASE observed # anchor_checkpoint
  <2>1. observed.epoch > get_current_epoch(ANCHOR_STATE)
    BY <1>3 DEF OnKnownChain
  <2>2. head \in DOMAIN store.blocks /\ head \in Root
    BY <1>1 DEF known, TypeOK, IsStore
  <2>3. head # ANCHOR_BLOCK.root
    BY <1>1, <1>3, <2>2 DEF ChainSound, BlocksDelivered
  <2>4. /\ observed = process_justification_and_finalization(
                        store.block_states[head]).current_justified_checkpoint
        /\ store.block_states[head] \in states_after(head)
    BY <1>1, <2>2, <2>3 DEF ChainSound, BlocksDelivered
  <2>5. observed.epoch <= get_current_epoch(ANCHOR_STATE) \/ observed.root \in chain_of(head)
    BY <2>2, <2>4, AcceptedStatesAssumption
  <2>6. observed.epoch \in Nat /\ get_current_epoch(ANCHOR_STATE) \in Nat
    BY AnchorEpochType DEF Checkpoint
  <2>7. observed.root \in chain_of(head)
    BY <2>1, <2>5, <2>6
  <2> QED BY <1>1, <2>7, ChainIsKnown
<1> QED BY <1>2, <1>3

(* The block the rule answers with.                                        *)
LEMMA LatestFacts ==
  ASSUME Grounded, NEW head \in known, NEW f, f.confirmed_root \in known,
         f.current_epoch_observed_justified_checkpoint \in Checkpoint,
         OnKnownChain(store, f.current_epoch_observed_justified_checkpoint)
  PROVE  LET found == get_latest_confirmed(store, f, head)
             finalized == store.finalized_checkpoint.root
             observed == f.current_epoch_observed_justified_checkpoint
             state == get_current_balance_source(store, f)
             recent(root) == get_block_epoch(store, root) + 1 >= get_current_store_epoch(store)
         IN  /\ found \in known
             /\ \/ found = finalized
                \/ below(store, head, found) /\ recent(found)
             /\ \/ found \in {f.confirmed_root, finalized, observed.root}
                \/ found # ANCHOR_BLOCK.root /\ is_one_confirmed(store, state, found)
             /\ (/\ ~ at_epoch_start(store)
                 /\ below(store, head, f.confirmed_root)
                 /\ recent(f.confirmed_root))
                  => below(store, found, f.confirmed_root)
             /\ ~ at_epoch_start(store)
                  => below(store, found, finalized) \/ below(store, found, f.confirmed_root)
<1> DEFINE finalized == store.finalized_checkpoint.root
           observed == f.current_epoch_observed_justified_checkpoint
           state == get_current_balance_source(store, f)
           recent(root) == get_block_epoch(store, root) + 1 >= get_current_store_epoch(store)
           kept == revert_to_finalized(store, f, head)
           start == restart_from_observed(store, f, head, kept)
           found == get_latest_confirmed(store, f, head)
           steady == /\ ~ at_epoch_start(store)
                     /\ below(store, head, f.confirmed_root)
                     /\ recent(f.confirmed_root)
<1>1. /\ TypeOK /\ StoreSound /\ ChainSound(store) /\ Tree(store) /\ IsStore(store)
      /\ known = DOMAIN store.blocks /\ known \subseteq Root
      /\ finalized \in known
  BY StoreIsTree, CheckpointsKnown DEF Grounded, known, TypeOK, IsStore
<1>2. \A root : get_block_epoch(store, root) \in Nat
  BY <1>1, EpochMonotone, BlockSlotType
<1>3. get_current_store_epoch(store) \in Nat
  <2>1. get_current_slot(store) \in Nat
    BY <1>1, SlotType DEF IsStore, StoreOver, get_current_slot
  <2> QED BY <2>1, ConfigAssumption DEF get_current_store_epoch, compute_epoch_at_slot
<1>4. /\ kept = finalized \/ (kept = f.confirmed_root /\ below(store, head, kept) /\ recent(kept))
      /\ steady => kept = f.confirmed_root
  BY <1>2, <1>3, RevertKinds
<1>5. \/ start = kept
      \/ /\ at_epoch_start(store)
         /\ start = observed.root
         /\ observed = store.unrealized_justifications[head]
         /\ recent(start)
  BY <1>2, <1>3, RestartKinds
<1>6. found = start \/ (recent(start) /\ found = find_latest_confirmed_descendant(store, f, head, start))
  BY DEF get_latest_confirmed
<1>7. steady <=> /\ ~ at_epoch_start(store)
                 /\ below(store, head, f.confirmed_root)
                 /\ recent(f.confirmed_root)
  OBVIOUS
<1>8. \A a, b : block_slot(store, a) <= block_slot(store, b) /\ recent(a) => recent(b)
  BY <1>1, <1>2, <1>3, EpochMonotone
<1> HIDE DEF kept, start, found, state, finalized, observed, recent, steady
<1>9. /\ start \in known
      /\ start = finalized \/ (below(store, head, start) /\ recent(start))
      /\ start \in {f.confirmed_root, finalized, observed.root}
      /\ steady => start = f.confirmed_root
      /\ ~ at_epoch_start(store) => start \in {finalized, f.confirmed_root}
  <2>1. CASE start = kept
    BY <1>1, <1>4, <2>1
  <2>2. CASE start # kept
    <3>1. start = observed.root /\ at_epoch_start(store) /\ recent(start)
      BY <1>5, <2>2
    <3>2. start \in known /\ below(store, head, start)
      BY <1>5, <2>2, ObservedIsOnChain DEF observed
    <3> QED BY <1>7, <3>1, <3>2
  <2> QED BY <2>1, <2>2
<1>10. \/ found = start
       \/ recent(start) /\ Advances(store, state, head, start, found)
  <2>1. head \in Root /\ start \in DOMAIN store.blocks
    BY <1>1, <1>9
  <2> QED BY <1>1, <1>6, <2>1, SearchAdvances DEF state
<1>11. below(store, start, start)
  BY <1>1, <1>9, BelowSelf
<1>12. CASE found = start
  BY <1>7, <1>9, <1>11, <1>12 DEF found, finalized, observed, state, recent
<1>13. CASE found # start
  <2>1. /\ found \in known /\ below(store, head, found) /\ below(store, found, start)
        /\ block_slot(store, found) > block_slot(store, start)
        /\ recent(start) /\ is_one_confirmed(store, state, found)
    BY <1>1, <1>10, <1>13 DEF Advances
  <2>2. /\ block_slot(store, found) \in Nat /\ block_slot(store, start) \in Nat
    BY <1>1, BlockSlotType
  <2>3. recent(found)
    BY <1>8, <2>1, <2>2
  <2>4. found # ANCHOR_BLOCK.root
    <3>1. store.blocks[ANCHOR_BLOCK.root].slot <= store.blocks[start].slot
      BY <1>1, <1>9 DEF StoreSound, TreeSound
    <3>2. /\ block_slot(store, start) = store.blocks[start].slot
          /\ block_slot(store, ANCHOR_BLOCK.root) = store.blocks[ANCHOR_BLOCK.root].slot
      BY <1>1, <1>9 DEF block_slot, block_at, StoreSound, TreeSound
    <3>3. block_slot(store, ANCHOR_BLOCK.root) \in Nat
      BY <1>1, BlockSlotType
    <3> QED BY <2>1, <2>2, <3>1, <3>2, <3>3
  <2> QED BY <1>7, <1>9, <2>1, <2>3, <2>4 DEF found, finalized, observed, state, recent
<1> QED BY <1>12, <1>13

-----------------------------------------------------------------------------
(* What the node keeps is in the store.                                    *)

(* The variables as the query leaves them, and the one answer from them.   *)
LEMMA UpdatedFields ==
  ASSUME NEW s, NEW f, f = Kept(f), NEW head
  PROVE  LET updated == update_fast_confirmation_variables(s, f, head)
         IN  /\ updated = Kept(updated)
             /\ updated.confirmed_root = f.confirmed_root
             /\ updated.previous_slot_head = f.current_slot_head
             /\ updated.current_slot_head = head
             /\ updated.current_epoch_observed_justified_checkpoint \in
                  {f.current_epoch_observed_justified_checkpoint,
                   f.previous_epoch_greatest_unrealized_checkpoint,
                   s.unrealized_justified_checkpoint}
             /\ updated.previous_epoch_observed_justified_checkpoint \in
                  {f.current_epoch_observed_justified_checkpoint,
                   f.previous_epoch_observed_justified_checkpoint}
             /\ updated.previous_epoch_greatest_unrealized_checkpoint \in
                  {f.previous_epoch_greatest_unrealized_checkpoint,
                   s.unrealized_justified_checkpoint}
<1> DEFINE greatest == IF is_start_slot_at_epoch(get_current_slot(s) + 1)
                       THEN s.unrealized_justified_checkpoint
                       ELSE f.previous_epoch_greatest_unrealized_checkpoint
           updated == update_fast_confirmation_variables(s, f, head)
<1>1. greatest \in {s.unrealized_justified_checkpoint,
                    f.previous_epoch_greatest_unrealized_checkpoint}
  OBVIOUS
<1> HIDE DEF greatest
<1>2. updated = [f EXCEPT
           !.previous_slot_head = f.current_slot_head,
           !.current_slot_head = head,
           !.previous_epoch_greatest_unrealized_checkpoint = greatest,
           !.previous_epoch_observed_justified_checkpoint =
             IF at_epoch_start(s)
             THEN f.current_epoch_observed_justified_checkpoint ELSE @,
           !.current_epoch_observed_justified_checkpoint =
             IF at_epoch_start(s) THEN greatest ELSE @]
  BY DEF update_fast_confirmation_variables, greatest
<1> HIDE DEF updated
<1>3. /\ updated = Kept(updated)
      /\ updated.confirmed_root = f.confirmed_root
      /\ updated.previous_slot_head = f.current_slot_head
      /\ updated.current_slot_head = head
      /\ updated.previous_epoch_greatest_unrealized_checkpoint = greatest
  BY <1>2 DEF Kept
<1>4. /\ updated.current_epoch_observed_justified_checkpoint \in
           {f.current_epoch_observed_justified_checkpoint, greatest}
      /\ updated.previous_epoch_observed_justified_checkpoint \in
           {f.current_epoch_observed_justified_checkpoint,
            f.previous_epoch_observed_justified_checkpoint}
  BY <1>2 DEF Kept
<1> QED BY <1>1, <1>3, <1>4 DEF updated

LEMMA QueryAnswer ==
  ASSUME NEW s, NEW f, f = Kept(f)
  PROVE  LET head == get_head(s).root
             updated == update_fast_confirmation_variables(s, f, head)
             g == on_fast_confirmation(s, f)
         IN  /\ g = Kept(g)
             /\ g.confirmed_root = get_latest_confirmed(s, updated, head)
             /\ g.previous_slot_head = updated.previous_slot_head
             /\ g.current_slot_head = updated.current_slot_head
             /\ g.current_epoch_observed_justified_checkpoint
                  = updated.current_epoch_observed_justified_checkpoint
             /\ g.previous_epoch_observed_justified_checkpoint
                  = updated.previous_epoch_observed_justified_checkpoint
             /\ g.previous_epoch_greatest_unrealized_checkpoint
                  = updated.previous_epoch_greatest_unrealized_checkpoint
<1> DEFINE head == get_head(s).root
           updated == update_fast_confirmation_variables(s, f, head)
           found == get_latest_confirmed(s, updated, head)
           g == on_fast_confirmation(s, f)
<1>1. updated = Kept(updated)
  BY UpdatedFields
<1>2. g = [updated EXCEPT !.confirmed_root = found]
  BY DEF on_fast_confirmation, query
<1> HIDE DEF updated, found, g
<1>3. /\ g = Kept(g)
      /\ g.confirmed_root = found
      /\ g.previous_slot_head = updated.previous_slot_head
      /\ g.current_slot_head = updated.current_slot_head
      /\ g.current_epoch_observed_justified_checkpoint
           = updated.current_epoch_observed_justified_checkpoint
      /\ g.previous_epoch_observed_justified_checkpoint
           = updated.previous_epoch_observed_justified_checkpoint
      /\ g.previous_epoch_greatest_unrealized_checkpoint
           = updated.previous_epoch_greatest_unrealized_checkpoint
  BY <1>1, <1>2 DEF Kept
<1> QED BY <1>3 DEF g, found, updated

(* The inductive invariant: blocks in the store, checkpoints on its chains.*)
RuleGrounded ==
  /\ KeptTypeOK
  /\ fcr_store.confirmed_root \in known
  /\ fcr_store.previous_slot_head \in known
  /\ fcr_store.current_slot_head \in known
  /\ OnKnownChain(store, fcr_store.previous_epoch_observed_justified_checkpoint)
  /\ OnKnownChain(store, fcr_store.current_epoch_observed_justified_checkpoint)
  /\ OnKnownChain(store, fcr_store.previous_epoch_greatest_unrealized_checkpoint)

(* One query, from a store and variables that are grounded.                *)
LEMMA QueryFacts ==
  ASSUME Grounded, RuleGrounded
  PROVE  LET head == get_head(store).root
             updated == update_fast_confirmation_variables(store, fcr_store, head)
         IN  /\ head \in known
             /\ updated.confirmed_root = fcr_store.confirmed_root
             /\ updated.current_epoch_observed_justified_checkpoint \in Checkpoint
             /\ OnKnownChain(store, updated.current_epoch_observed_justified_checkpoint)
<1> DEFINE head == get_head(store).root
           updated == update_fast_confirmation_variables(store, fcr_store, head)
<1>1. head \in known
  BY HeadIsKnown DEF Grounded
<1>2. /\ fcr_store = Kept(fcr_store)
      /\ store.unrealized_justified_checkpoint \in Checkpoint
      /\ OnKnownChain(store, store.unrealized_justified_checkpoint)
  BY StoreCheckpointsType DEF Grounded, RuleGrounded, KeptTypeOK, ChainSound, CheckpointsOnChains
<1>3. /\ updated.confirmed_root = fcr_store.confirmed_root
      /\ updated.current_epoch_observed_justified_checkpoint \in
           {fcr_store.current_epoch_observed_justified_checkpoint,
            fcr_store.previous_epoch_greatest_unrealized_checkpoint,
            store.unrealized_justified_checkpoint}
  BY <1>2, UpdatedFields
<1> HIDE DEF updated
<1> QED BY <1>1, <1>2, <1>3 DEF updated, RuleGrounded, KeptTypeOK

LEMMA QueryKeepsGrounded ==
  ASSUME Grounded, RuleGrounded, OnFastConfirmation
  PROVE  RuleGrounded'
<1> DEFINE head == get_head(store).root
           updated == update_fast_confirmation_variables(store, fcr_store, head)
           f == fcr_store
           g == on_fast_confirmation(store, fcr_store)
<1>1. fcr_store' = g /\ queried_time' = store.time /\ store' = store
  BY DEF OnFastConfirmation, vars
<1>2. /\ f = Kept(f)
      /\ store.unrealized_justified_checkpoint \in Checkpoint
      /\ OnKnownChain(store, store.unrealized_justified_checkpoint)
      /\ store.time \in Nat
  BY StoreCheckpointsType
     DEF Grounded, RuleGrounded, KeptTypeOK, ChainSound, CheckpointsOnChains, IsStore, StoreOver
<1>3. /\ head \in known
      /\ updated.confirmed_root = f.confirmed_root
      /\ updated.current_epoch_observed_justified_checkpoint \in Checkpoint
      /\ OnKnownChain(store, updated.current_epoch_observed_justified_checkpoint)
  BY QueryFacts
<1>4. /\ updated.previous_slot_head = f.current_slot_head
      /\ updated.current_slot_head = head
      /\ updated.previous_epoch_observed_justified_checkpoint \in
           {f.current_epoch_observed_justified_checkpoint,
            f.previous_epoch_observed_justified_checkpoint}
      /\ updated.previous_epoch_greatest_unrealized_checkpoint \in
           {f.previous_epoch_greatest_unrealized_checkpoint,
            store.unrealized_justified_checkpoint}
  BY <1>2, UpdatedFields
<1>5. /\ g = Kept(g)
      /\ g.confirmed_root = get_latest_confirmed(store, updated, head)
      /\ g.previous_slot_head = updated.previous_slot_head
      /\ g.current_slot_head = updated.current_slot_head
      /\ g.current_epoch_observed_justified_checkpoint
           = updated.current_epoch_observed_justified_checkpoint
      /\ g.previous_epoch_observed_justified_checkpoint
           = updated.previous_epoch_observed_justified_checkpoint
      /\ g.previous_epoch_greatest_unrealized_checkpoint
           = updated.previous_epoch_greatest_unrealized_checkpoint
  BY <1>2, QueryAnswer
<1> HIDE DEF updated, g, head
<1>6. get_latest_confirmed(store, updated, head) \in known
  BY <1>3, LatestFacts DEF RuleGrounded
<1>7. KeptTypeOK'
  BY <1>1, <1>2, <1>3, <1>4, <1>5 DEF RuleGrounded, KeptTypeOK
<1>8. /\ g.confirmed_root \in known /\ g.previous_slot_head \in known
      /\ g.current_slot_head \in known
  BY <1>3, <1>4, <1>5, <1>6 DEF RuleGrounded
<1>9. /\ OnKnownChain(store, g.previous_epoch_observed_justified_checkpoint)
      /\ OnKnownChain(store, g.current_epoch_observed_justified_checkpoint)
      /\ OnKnownChain(store, g.previous_epoch_greatest_unrealized_checkpoint)
  BY <1>2, <1>3, <1>4, <1>5 DEF RuleGrounded
<1>10. known' = known
  BY <1>1 DEF known
<1> QED BY <1>1, <1>7, <1>8, <1>9, <1>10 DEF RuleGrounded

LEMMA StoreKeepsGrounded ==
  ASSUME TypeOK, RuleGrounded, [Next]_vars, UNCHANGED rule_vars
  PROVE  RuleGrounded'
<1>1. fcr_store' = fcr_store /\ queried_time' = queried_time
  BY DEF rule_vars
<1>2. known \subseteq known'
  BY KnownGrows
<1>3. \A checkpoint : OnKnownChain(store, checkpoint) => OnKnownChain(store', checkpoint)
  BY <1>2 DEF OnKnownChain, known
<1>4. KeptTypeOK'
  BY <1>1 DEF RuleGrounded, KeptTypeOK
<1> QED BY <1>1, <1>2, <1>3, <1>4 DEF RuleGrounded

LEMMA InitGrounded == Grounded /\ NodeInit => RuleGrounded
<1> SUFFICES ASSUME Grounded, NodeInit PROVE RuleGrounded
  OBVIOUS
<1> DEFINE finalized == store.finalized_checkpoint
<1>1. /\ fcr_store = [confirmed_root |-> finalized.root,
            previous_epoch_observed_justified_checkpoint |-> finalized,
            current_epoch_observed_justified_checkpoint |-> finalized,
            previous_epoch_greatest_unrealized_checkpoint |-> finalized,
            previous_slot_head |-> finalized.root,
            current_slot_head |-> finalized.root]
      /\ queried_time = store.time
  BY DEF NodeInit, get_fast_confirmation_store
<1>2. finalized \in Checkpoint /\ store.time \in Nat
  BY StoreCheckpointsType DEF Grounded, IsStore, StoreOver
<1>3. finalized.root \in known /\ OnKnownChain(store, finalized)
  BY CheckpointsKnown DEF Grounded, ChainSound, CheckpointsOnChains
<1> HIDE DEF finalized
<1>4. KeptTypeOK
  BY <1>1, <1>2 DEF KeptTypeOK, Kept
<1> QED BY <1>1, <1>3, <1>4 DEF RuleGrounded

LEMMA GroundedInvariant == Spec => []Grounded
BY StoreTypeCorrect, StoreInvariant, ChainInvariant, PTL DEF Grounded

LEMMA RuleGroundedInvariant == NodeSpec => []RuleGrounded
<1>1. Grounded /\ RuleGrounded /\ [NodeNext]_node_vars => RuleGrounded'
  <2> SUFFICES ASSUME Grounded, RuleGrounded, [NodeNext]_node_vars PROVE RuleGrounded'
    OBVIOUS
  <2>1. [Next]_vars
    BY NodeStepIsStoreStep
  <2>2. CASE OnFastConfirmation
    BY <2>2, QueryKeepsGrounded
  <2>3. CASE UNCHANGED rule_vars
    BY <2>1, <2>3, StoreKeepsGrounded DEF Grounded
  <2>4. OnFastConfirmation \/ UNCHANGED rule_vars
    BY DEF NodeNext, TickSecond, FinishTick, HandleMessage, node_vars, rule_vars
  <2> QED BY <2>2, <2>3, <2>4
<1>2. NodeSpec => NodeInit /\ [][NodeNext]_node_vars
  BY DEF NodeSpec
<1> QED BY <1>1, <1>2, InitGrounded, RuleLeavesStoreAlone, GroundedInvariant, PTL

(* The rule keeps blocks of its store, so that no read of it falls on the  *)
(* default of a missing key.                                               *)
THEOREM RuleTypeCorrect == NodeSpec => []RuleTypeOK
<1>1. Grounded /\ RuleGrounded => RuleTypeOK
  <2> SUFFICES ASSUME Grounded, RuleGrounded PROVE RuleTypeOK
    OBVIOUS
  <2>1. known \subseteq Root
    BY DEF Grounded, TypeOK, IsStore, known
  <2>2. fcr_store \in FastConfirmationStore
    BY <2>1 DEF RuleGrounded, KeptTypeOK, Kept, FastConfirmationStore
  <2> QED BY <2>2 DEF RuleTypeOK, RuleGrounded, KeptTypeOK
<1> QED BY <1>1, RuleGroundedInvariant, RuleLeavesStoreAlone, GroundedInvariant, PTL

-----------------------------------------------------------------------------
(* What a query answers.                                                   *)

LEMMA AnswerIsCanonical ==
  ASSUME Grounded, RuleGrounded, OnFastConfirmation
  PROVE  LET root == fcr_store'.confirmed_root
             state == get_current_balance_source(store, fcr_store')
             observed == fcr_store'.current_epoch_observed_justified_checkpoint
             recent(r) == get_block_epoch(store, r) + 1 >= get_current_store_epoch(store)
             head == get_head(store).root
         IN  /\ root \in known
             /\ root = store.finalized_checkpoint.root \/ (descends(store, head, root) /\ recent(root))
             /\ \/ root \in {fcr_store.confirmed_root, store.finalized_checkpoint.root,
                             observed.root}
                \/ root # ANCHOR_BLOCK.root /\ is_one_confirmed(store, state, root)
             /\ (/\ ~ at_epoch_start(store)
                 /\ descends(store, head, fcr_store.confirmed_root)
                 /\ recent(fcr_store.confirmed_root))
                  => descends(store, root, fcr_store.confirmed_root)
             /\ ~ at_epoch_start(store)
                  => \/ descends(store, root, store.finalized_checkpoint.root)
                     \/ descends(store, root, fcr_store.confirmed_root)
<1> DEFINE head == get_head(store).root
           updated == update_fast_confirmation_variables(store, fcr_store, head)
           g == on_fast_confirmation(store, fcr_store)
<1>1. fcr_store' = g
  BY DEF OnFastConfirmation
<1>2. fcr_store = Kept(fcr_store) /\ fcr_store.confirmed_root \in known
  BY DEF RuleGrounded, KeptTypeOK
<1>3. /\ head \in known
      /\ updated.confirmed_root = fcr_store.confirmed_root
      /\ updated.current_epoch_observed_justified_checkpoint \in Checkpoint
      /\ OnKnownChain(store, updated.current_epoch_observed_justified_checkpoint)
  BY QueryFacts
<1>4. /\ g.confirmed_root = get_latest_confirmed(store, updated, head)
      /\ g.current_epoch_observed_justified_checkpoint
           = updated.current_epoch_observed_justified_checkpoint
  BY <1>2, QueryAnswer
<1>5. get_current_balance_source(store, g) = get_current_balance_source(store, updated)
  BY <1>4 DEF get_current_balance_source
<1> HIDE DEF updated, g, head
<1>6. LET found == get_latest_confirmed(store, updated, head)
          finalized == store.finalized_checkpoint.root
          observed == updated.current_epoch_observed_justified_checkpoint
          state == get_current_balance_source(store, updated)
          recent(root) == get_block_epoch(store, root) + 1 >= get_current_store_epoch(store)
      IN  /\ found \in known
          /\ \/ found = finalized
             \/ below(store, head, found) /\ recent(found)
          /\ \/ found \in {updated.confirmed_root, finalized, observed.root}
             \/ found # ANCHOR_BLOCK.root /\ is_one_confirmed(store, state, found)
          /\ (/\ ~ at_epoch_start(store)
              /\ below(store, head, updated.confirmed_root)
              /\ recent(updated.confirmed_root))
               => below(store, found, updated.confirmed_root)
          /\ ~ at_epoch_start(store)
               => below(store, found, finalized) \/ below(store, found, updated.confirmed_root)
  BY <1>2, <1>3, LatestFacts
<1> QED BY <1>1, <1>3, <1>4, <1>5, <1>6, DescendsIsBelow DEF head

LEMMA QueryStep ==
  ASSUME [NodeNext]_node_vars, queried_time' # queried_time
  PROVE  OnFastConfirmation
BY DEF NodeNext, TickSecond, FinishTick, HandleMessage, node_vars, rule_vars

(* The rule answers with a recent block of the chain of its head, or with  *)
(* the finalized block.                                                    *)
THEOREM ConfirmedStaysCanonical == NodeSpec => ConfirmedIsCanonical
<1> DEFINE canonical ==
             queried_time' # queried_time =>
               LET root == fcr_store'.confirmed_root
               IN  \/ root = store.finalized_checkpoint.root
                   \/ /\ descends(store, get_head(store).root, root)
                      /\ get_block_epoch(store, root) + 1 >= get_current_store_epoch(store)
<1>1. Grounded /\ RuleGrounded /\ [NodeNext]_node_vars => [canonical]_node_vars
  BY QueryStep, AnswerIsCanonical
<1> HIDE DEF canonical
<1>2. NodeSpec => [][canonical]_node_vars
  <2>1. NodeSpec => [][NodeNext]_node_vars
    BY DEF NodeSpec
  <2> QED BY <1>1, <2>1, RuleGroundedInvariant, RuleLeavesStoreAlone, GroundedInvariant, PTL
<1> QED BY <1>2 DEF canonical, ConfirmedIsCanonical

(* Without the state of the observed checkpoint there are no balances to   *)
(* weigh votes with, and the answer is one of the blocks at hand.          *)
THEOREM NothingWithoutBalances == NodeSpec => NoBalancesNoConfirmation
<1> DEFINE silent ==
             LET observed == fcr_store'.current_epoch_observed_justified_checkpoint
             IN  queried_time' # queried_time /\ observed \notin DOMAIN store.checkpoint_states
                 => fcr_store'.confirmed_root \in
                      {fcr_store.confirmed_root, store.finalized_checkpoint.root,
                       observed.root}
<1>1. ASSUME Grounded, RuleGrounded, VotesConfined, ClockInHorizon, [NodeNext]_node_vars
      PROVE  silent
  <2> DEFINE observed == fcr_store'.current_epoch_observed_justified_checkpoint
             root == fcr_store'.confirmed_root
  <2> SUFFICES ASSUME queried_time' # queried_time,
                      observed \notin DOMAIN store.checkpoint_states
               PROVE  root \in {fcr_store.confirmed_root, store.finalized_checkpoint.root,
                                observed.root}
    OBVIOUS
  <2>1. OnFastConfirmation
    BY <1>1, QueryStep
  <2>2. get_current_balance_source(store, fcr_store') = DefaultState
    BY DEF get_current_balance_source, checkpoint_state
  <2>3. /\ root \in known
        /\ \/ root \in {fcr_store.confirmed_root, store.finalized_checkpoint.root,
                        observed.root}
           \/ root # ANCHOR_BLOCK.root /\ is_one_confirmed(store, DefaultState, root)
    BY <1>1, <2>1, <2>2, AnswerIsCanonical
  <2>4. Scene
    BY <1>1 DEF Scene, Grounded
  <2> HIDE DEF root, observed
  <2> QED BY <2>3, <2>4, DefaultConfirmsNothing DEF observed, root
<1>2. Grounded /\ RuleGrounded /\ VotesConfined /\ ClockInHorizon /\ [NodeNext]_node_vars
        => [silent]_node_vars
  BY <1>1
<1> HIDE DEF silent
<1>3. NodeSpec => [][silent]_node_vars
  <2>1. NodeSpec => [][NodeNext]_node_vars
    BY DEF NodeSpec
  <2> QED BY <1>2, <2>1, RuleGroundedInvariant, RuleLeavesStoreAlone, GroundedInvariant,
             ScopeInvariant, PTL
<1> QED BY <1>3 DEF silent, NoBalancesNoConfirmation

-----------------------------------------------------------------------------
(* The confirmed block moves forward.                                      *)

(* A block descends from another one that is not itself through its parent.*)
LEMMA BelowThroughParent ==
  ASSUME NEW s, Tree(s), NEW root \in DOMAIN s.blocks, NEW ancestor, below(s, root, ancestor),
         root # ancestor
  PROVE  below(s, s.blocks[root].parent_root, ancestor)
<1> DEFINE node == NewNode(root, PENDING)
           parent == s.blocks[root].parent_root
           slot == block_slot(s, ancestor)
<1>1. /\ root \in Root /\ parent \in Root /\ node \in ForkChoiceNode /\ node.root = root
      /\ slot \in Nat /\ block_slot(s, root) \in Nat
  BY TreeDescends, PendingNode, BlockSlotType DEF IsStore, StoreOver, BeaconBlock
<1>2. get_ancestor(s, node, slot).root = ancestor
  BY BelowMeans
<1>3. parent_node(s, node) \in ForkChoiceNode /\ parent_node(s, node).root = parent
  BY TreeDescends, <1>1, ParentNodeType
<1> HIDE DEF node, parent, slot
<1>4. get_ancestor(s, node, slot) = IF block_slot(s, node.root) > slot
                                    THEN get_ancestor(s, parent_node(s, node), slot) ELSE node
  BY TreeDescends, <1>1, AncestorEquation
<1>5. get_ancestor(s, node, slot) = get_ancestor(s, parent_node(s, node), slot)
  <2>1. get_ancestor(s, node, slot) # node
    BY <1>1, <1>2
  <2> QED BY ONLY <1>4, <2>1
<1>6. get_ancestor(s, NewNode(parent, PENDING), slot).root = ancestor
  BY <1>1, <1>2, <1>3, <1>5, AncestorRoot
<1> QED BY <1>6, BelowMeans DEF parent, slot

(* A tree that grows keeps the order of its blocks.                        *)
LEMMA BelowStable ==
  ASSUME NEW s, Tree(s), NEW t, Tree(t),
         \A r \in DOMAIN s.blocks : r \in DOMAIN t.blocks /\ t.blocks[r] = s.blocks[r],
         NEW top \in DOMAIN s.blocks,
         \A r \in DOMAIN s.blocks \ {top} : s.blocks[r].parent_root \in DOMAIN s.blocks,
         \A r \in DOMAIN s.blocks : s.blocks[top].slot <= s.blocks[r].slot,
         NEW root \in DOMAIN s.blocks, NEW ancestor \in DOMAIN s.blocks,
         below(s, root, ancestor)
  PROVE  below(t, root, ancestor)
<1> DEFINE bad == {r \in DOMAIN s.blocks : below(s, r, ancestor) /\ ~ below(t, r, ancestor)}
           slots == {s.blocks[r].slot : r \in bad}
<1> SUFFICES ASSUME bad # {} PROVE FALSE
  OBVIOUS
<1>1. /\ DOMAIN s.blocks \subseteq Root
      /\ \A r \in DOMAIN s.blocks : s.blocks[r].slot \in Nat
  BY DEF Tree, IsStore, StoreOver, BeaconBlock
<1>2. slots \subseteq Nat /\ slots # {}
  BY <1>1
<1>3. PICK m \in slots : \A k \in slots : m <= k
  BY <1>2, LeastNatural
<1>4. PICK r \in bad : m = s.blocks[r].slot
  OBVIOUS
<1>5. r \in DOMAIN s.blocks /\ r \in Root /\ below(s, r, ancestor) /\ ~ below(t, r, ancestor)
  BY <1>1
<1>6. r # ancestor
  BY <1>5, BelowSelf
<1> DEFINE parent == s.blocks[r].parent_root
<1>7. below(s, parent, ancestor)
  BY <1>5, <1>6, BelowThroughParent
<1>8. r # top
  <2> SUFFICES ASSUME r = top PROVE FALSE
    OBVIOUS
  <2> DEFINE node == NewNode(top, PENDING)
             slot == block_slot(s, ancestor)
  <2>1. slot = s.blocks[ancestor].slot /\ block_slot(s, top) = s.blocks[top].slot
    BY DEF block_slot, block_at
  <2>2. ~ (block_slot(s, top) > slot) /\ slot \in Nat
    BY <1>1, <2>1
  <2>3. node \in ForkChoiceNode /\ node.root = top
    BY <1>1, PendingNode
  <2>4. get_ancestor(s, node, slot).root = ancestor
    BY <1>5, BelowMeans
  <2> HIDE DEF node, slot
  <2>5. get_ancestor(s, node, slot) = node
    BY TreeDescends, <2>2, <2>3, AncestorEquation
  <2> QED BY <1>6, <2>3, <2>4, <2>5
<1>9. parent \in DOMAIN s.blocks /\ s.blocks[parent].slot < s.blocks[r].slot
  BY <1>5, <1>8 DEF Tree
<1>10. below(t, parent, ancestor)
  <2>1. parent \in bad => s.blocks[r].slot <= s.blocks[parent].slot
    BY <1>3, <1>4
  <2>2. s.blocks[r].slot \in Nat /\ s.blocks[parent].slot \in Nat
    BY <1>1, <1>5, <1>9
  <2>3. parent \notin bad
    <3> HIDE DEF bad, parent
    <3> QED BY <1>9, <2>1, <2>2
  <2> QED BY <1>7, <1>9, <2>3
<1>11. r \in DOMAIN t.blocks /\ t.blocks[r] = s.blocks[r] /\ parent \in DOMAIN t.blocks
  BY <1>5, <1>9
<1>12. below(t, r, ancestor)
  <2> HIDE DEF bad
  <2> QED BY <1>10, <1>11, BelowParent
<1> QED BY <1>5, <1>12

(* The blocks of the store are never replaced.                             *)
LEMMA BlocksGrow ==
  ASSUME TypeOK, [Next]_vars
  PROVE  \A r \in known : r \in known' /\ store'.blocks[r] = store.blocks[r]
<1>1. ASSUME SameBlocks(store, store')
      PROVE  \A r \in known : r \in known' /\ store'.blocks[r] = store.blocks[r]
  BY <1>1 DEF SameBlocks, known
<1>2. ASSUME NEW sb \in SIGNED_BLOCKS, on_block_accepts(store, sb), store' = on_block(store, sb)
      PROVE  \A r \in known : r \in known' /\ store'.blocks[r] = store.blocks[r]
  <2>1. sb.root \notin DOMAIN store.blocks /\ store'.blocks = put(store.blocks, sb.root, sb.message)
    BY <1>2, ImportedBlock DEF TypeOK
  <2> QED BY <2>1 DEF put, known
<1> QED BY <1>1, <1>2, BlocksStep

LEMMA GroundedIsTree == Grounded => Tree(store)
BY StoreIsTree DEF Grounded

LEMMA GroundedIsTreeNext == (Grounded => Tree(store))'
BY GroundedIsTree, PTL

LEMMA DescentIsStable ==
  ASSUME Grounded, Grounded', [Next]_vars, NEW root \in known, NEW ancestor \in known,
         below(store, root, ancestor)
  PROVE  below(store', root, ancestor)
<1>1. Tree(store) /\ Tree(store')
  BY GroundedIsTree, GroundedIsTreeNext
<1>2. \A r \in DOMAIN store.blocks : r \in DOMAIN store'.blocks /\ store'.blocks[r] = store.blocks[r]
  BY BlocksGrow DEF Grounded, known
<1>3. /\ ANCHOR_BLOCK.root \in DOMAIN store.blocks
      /\ \A r \in DOMAIN store.blocks \ {ANCHOR_BLOCK.root} :
           store.blocks[r].parent_root \in DOMAIN store.blocks
      /\ \A r \in DOMAIN store.blocks :
           store.blocks[ANCHOR_BLOCK.root].slot <= store.blocks[r].slot
      /\ root \in DOMAIN store.blocks /\ ancestor \in DOMAIN store.blocks
  BY DEF Grounded, StoreSound, TreeSound, known
<1> QED BY <1>1, <1>2, <1>3, BelowStable

(* One second later it is at most one slot later.                          *)
LEMMA NextSecond ==
  ASSUME NEW time \in Nat
  PROVE  slot_at(time + 1) <= slot_at(time) + 1
<1> DEFINE d == SLOT_DURATION_MS
           q == (time * 1000) \div d
           p == ((time + 1) * 1000) \div d
<1>1. PICK seconds \in 1..d : d = 1000 * seconds
  BY WholeSecondsAssumption
<1>2. d \in Nat \ {0} /\ d >= 1000
  BY <1>1, ConfigAssumption
<1>3. q \in Nat /\ p \in Nat /\ (q + 1) * d > time * 1000 /\ p * d <= (time + 1) * 1000
  BY <1>2
<1>4. (q + 2) * d = (q + 1) * d + d /\ (time + 1) * 1000 = time * 1000 + 1000
  BY <1>2, <1>3
<1>5. (q + 2) * d > (time + 1) * 1000
  <2>1. (q + 1) * d \in Nat /\ (q + 2) * d \in Nat /\ time * 1000 \in Nat
    BY <1>2, <1>3
  <2> HIDE DEF d, q
  <2> QED BY <1>2, <1>3, <1>4, <2>1
<1>6. p < q + 2
  <2> SUFFICES ASSUME p >= q + 2 PROVE FALSE
    BY <1>3
  <2>1. p * d >= (q + 2) * d
    <3> HIDE DEF p, q, d
    <3> QED BY <1>2, <1>3
  <2>2. p * d \in Nat /\ (q + 2) * d \in Nat /\ (time + 1) * 1000 \in Nat
    BY <1>2, <1>3
  <2> HIDE DEF p, q, d
  <2> QED BY <1>3, <1>5, <2>1, <2>2
<1> QED BY <1>3, <1>6 DEF slot_at, GENESIS_SLOT

(* Finality does not move to another branch, as while less than a third of *)
(* the stake equivocates.  The handlers do not ensure it: update_checkpoints*)
(* compares epochs.                                                        *)
FinalityStaysOnChain ==
  [][descends(store', store'.finalized_checkpoint.root, store.finalized_checkpoint.root)]_vars

(* The inductive invariant.  Between queries the confirmed block is recent,*)
(* or one that the rule fell back to, and finality has only moved on from  *)
(* it.  It gets old by the tick that opens an epoch, and the next query is *)
(* due in that very slot: on_tick is called for one second at a time.      *)
ConfirmedRecent ==
  get_block_epoch(store, fcr_store.confirmed_root) + 1 >= get_current_store_epoch(store)

ConfirmedInv ==
  \/ ConfirmedRecent
  \/ below(store, store.finalized_checkpoint.root, fcr_store.confirmed_root)
  \/ IsQueryDue /\ at_epoch_start(store)

ClockInv ==
  /\ queried_time \in Nat /\ store.time \in Nat /\ tick_time \in Nat
  /\ queried_time <= store.time
  /\ slot_at(tick_time) <= slot_at(queried_time) + 1

(* How far a step moves the clock. *)
LEMMA ClockKinds ==
  ASSUME TypeOK, TypeOK', ClockInv, [NodeNext]_node_vars
  PROVE  /\ ClockInv'
         /\ \/ get_current_slot(store') = get_current_slot(store)
            \/ /\ get_current_slot(store') = get_current_slot(store) + 1
               /\ get_current_slot(store) = slot_at(queried_time)
               /\ queried_time' = queried_time
<1>1. /\ Shaped(store) /\ store.time \in Nat /\ tick_time \in Nat /\ queried_time \in Nat
      /\ store'.time \in Nat /\ tick_time' \in Nat
      /\ get_current_slot(store) = slot_at(store.time)
      /\ get_current_slot(store') = slot_at(store'.time)
      /\ slot_at(store.time) \in Nat /\ slot_at(tick_time) \in Nat
      /\ slot_at(queried_time) \in Nat
  BY SlotType DEF TypeOK, IsStore, Shaped, StoreOver, ClockInv, get_current_slot
<1>2. slot_at(queried_time) <= slot_at(store.time)
  BY <1>1, SlotMonotone DEF ClockInv
<1>3. CASE UNCHANGED rule_vars /\ tick_time' = tick_time /\ store'.time = store.time
  BY <1>1, <1>3 DEF ClockInv, rule_vars
<1>4. CASE TickSecond
  <2>1. /\ store' = store /\ queried_time' = queried_time /\ tick_time' = store.time + 1
        /\ ~ IsQueryDue
    BY <1>4 DEF TickSecond, BeginTick, rule_vars
  <2>2. slot_at(store.time + 1) <= slot_at(store.time) + 1 /\ slot_at(store.time + 1) \in Nat
    BY <1>1, NextSecond, SlotType
  <2>3. slot_at(store.time) <= slot_at(queried_time)
    BY <1>1, <2>1 DEF IsQueryDue
  <2>4. slot_at(tick_time') <= slot_at(queried_time) + 1
    BY <1>1, <2>1, <2>2, <2>3
  <2> QED BY <1>1, <2>1, <2>4 DEF ClockInv
<1>5. CASE FinishTick /\ CatchUp
  <2> DEFINE time == next_slot_start(store)
  <2>1. /\ time \in Nat /\ slot_at(time) = slot_at(store.time) + 1
        /\ store' = on_tick_per_slot(store, time) /\ tick_time' = tick_time
        /\ queried_time' = queried_time /\ slot_at(store.time) < slot_at(tick_time)
    BY <1>1, <1>5, NextSlotStartType, NextSlotStart DEF FinishTick, CatchUp, rule_vars
  <2> HIDE DEF time
  <2>2. store'.time = time
    BY <1>1, <2>1, TickEffect
  <2>3. slot_at(queried_time) = slot_at(store.time)
    BY <1>1, <1>2, <2>1 DEF ClockInv
  <2>4. store.time <= time
    <3> SUFFICES ASSUME time <= store.time PROVE FALSE
      BY <1>1, <2>1
    <3>1. slot_at(time) <= slot_at(store.time)
      BY <1>1, <2>1, SlotMonotone
    <3> QED BY <1>1, <2>1, <3>1
  <2>5. ClockInv'
    BY <1>1, <2>1, <2>2, <2>4 DEF ClockInv
  <2> QED BY <1>1, <2>1, <2>2, <2>3, <2>5
<1>6. CASE FinishTick /\ EndTick
  <2>1. store'.time = tick_time /\ tick_time' = tick_time /\ queried_time' = queried_time
    BY <1>1, <1>6, TickEffect DEF FinishTick, EndTick, rule_vars
  <2>2. slot_at(store.time) <= slot_at(tick_time) /\ store.time < tick_time
    BY <1>1, <1>6, SlotMonotone DEF EndTick
  <2>3. slot_at(tick_time) = slot_at(store.time)
    BY <1>1, <1>6, <2>2 DEF EndTick
  <2> QED BY <1>1, <2>1, <2>2, <2>3 DEF ClockInv
<1>7. CASE OnFastConfirmation
  <2>1. store' = store /\ tick_time' = tick_time /\ tick_time = store.time
        /\ queried_time' = store.time
    BY <1>7 DEF OnFastConfirmation, Idle, vars
  <2> QED BY <1>1, <2>1 DEF ClockInv
<1>8. CASE HandleMessage
  <2>1. UNCHANGED rule_vars /\ tick_time' = tick_time
    BY <1>8 DEF HandleMessage, OnBlock, OnAttestation, OnAttesterSlashing,
                OnExecutionPayloadEnvelope, OnPayloadAttestationMessage
  <2>2. store'.time = store.time
    <3>1. ASSUME NEW sb \in SIGNED_BLOCKS, OnBlock(sb) PROVE store'.time = store.time
      BY <3>1, OnBlockEffect DEF OnBlock, TypeOK
    <3>2. SameTracked(store, store') => store'.time = store.time
      BY DEF SameTracked
    <3> QED BY <1>8, <3>1, <3>2, MessagesUntracked DEF HandleMessage
  <2> QED BY <1>3, <2>1, <2>2
<1>9. CASE UNCHANGED node_vars
  BY <1>3, <1>9 DEF node_vars, rule_vars
<1> QED BY <1>4, <1>5, <1>6, <1>7, <1>8, <1>9 DEF NodeNext, FinishTick

LEMMA ConfirmedStep ==
  ASSUME Grounded, Grounded', RuleGrounded, ClockInv, ConfirmedInv, [NodeNext]_node_vars,
         below(store', store'.finalized_checkpoint.root, store.finalized_checkpoint.root)
  PROVE  ConfirmedInv'
<1> DEFINE root == fcr_store.confirmed_root
<1>1. /\ TypeOK /\ TypeOK' /\ root \in known
      /\ [Next]_vars
  BY NodeStepIsStoreStep DEF Grounded, RuleGrounded
<1>2. CASE OnFastConfirmation
  <2>1. store' = store
    BY <1>2 DEF OnFastConfirmation, vars
  <2>2. \/ fcr_store'.confirmed_root = store.finalized_checkpoint.root
        \/ get_block_epoch(store, fcr_store'.confirmed_root) + 1 >= get_current_store_epoch(store)
    BY <1>2, AnswerIsCanonical
  <2>3. Tree(store) /\ store.finalized_checkpoint.root \in Root
    BY StoreIsTree, CheckpointsKnown DEF Grounded, TypeOK, IsStore, known
  <2>4. below(store, store.finalized_checkpoint.root, store.finalized_checkpoint.root)
    BY <2>3, BelowSelf
  <2> QED BY <2>1, <2>2, <2>4 DEF ConfirmedInv, ConfirmedRecent
<1>3. CASE UNCHANGED rule_vars
  <2>1. fcr_store' = fcr_store /\ queried_time' = queried_time
    BY <1>3 DEF rule_vars
  <2>2. block_slot(store', root) = block_slot(store, root)
    BY <1>1, BlocksGrow DEF known, block_slot, block_at
  <2>3. get_block_epoch(store', root) = get_block_epoch(store, root)
    BY <2>2 DEF get_block_epoch
  <2>4. CASE below(store, store.finalized_checkpoint.root, root)
    <3>1. store.finalized_checkpoint.root \in known
      BY CheckpointsKnown DEF Grounded
    <3>2. below(store', store.finalized_checkpoint.root, root)
      BY <1>1, <2>4, <3>1, DescentIsStable
    <3>3. Tree(store')
      BY GroundedIsTreeNext
    <3>4. store'.finalized_checkpoint.root \in Root /\ store.finalized_checkpoint.root \in Root
      BY <1>1, StoreCheckpointsType DEF TypeOK, IsStore, StoreOver, Checkpoint
    <3>5. below(store', store'.finalized_checkpoint.root, root)
      BY <3>2, <3>3, <3>4, BelowTransitive
    <3> QED BY <2>1, <3>5 DEF ConfirmedInv
  <2>5. CASE get_current_slot(store') = get_current_slot(store)
    <3>1. /\ get_current_store_epoch(store') = get_current_store_epoch(store)
          /\ at_epoch_start(store') = at_epoch_start(store)
          /\ IsQueryDue' = IsQueryDue
      BY <2>1, <2>5 DEF get_current_store_epoch, at_epoch_start, IsQueryDue
    <3> QED BY <2>1, <2>3, <2>4, <3>1 DEF ConfirmedInv, ConfirmedRecent
  <2>6. CASE /\ get_current_slot(store') = get_current_slot(store) + 1
             /\ get_current_slot(store) = slot_at(queried_time)
    <3>1. get_current_slot(store) \in Nat
      BY <1>1, SlotType DEF TypeOK, IsStore, StoreOver, get_current_slot
    <3>2. IsQueryDue' /\ ~ IsQueryDue
      BY <2>1, <2>6, <3>1 DEF IsQueryDue
    <3>3. CASE at_epoch_start(store')
      BY <3>2, <3>3 DEF ConfirmedInv
    <3>4. CASE ~ at_epoch_start(store')
      <4>1. compute_slots_since_epoch_start(get_current_slot(store) + 1) # 0
        BY <2>6, <3>4 DEF at_epoch_start, is_start_slot_at_epoch
      <4>2. get_current_store_epoch(store') = get_current_store_epoch(store)
        BY <2>6, <3>1, <4>1, NextSlotEpoch DEF get_current_store_epoch
      <4> QED BY <2>1, <2>3, <2>4, <3>2, <4>2 DEF ConfirmedInv, ConfirmedRecent
    <3> QED BY <3>3, <3>4
  <2> QED BY <1>1, <2>5, <2>6, ClockKinds
<1>4. OnFastConfirmation \/ UNCHANGED rule_vars
  BY DEF NodeNext, TickSecond, FinishTick, HandleMessage, node_vars, rule_vars
<1> QED BY <1>2, <1>3, <1>4

LEMMA InitConfirmed == Grounded /\ RuleGrounded /\ NodeInit => ConfirmedInv /\ ClockInv
<1> SUFFICES ASSUME Grounded, RuleGrounded, NodeInit PROVE ConfirmedInv /\ ClockInv
  OBVIOUS
<1>1. /\ fcr_store.confirmed_root = store.finalized_checkpoint.root
      /\ tick_time = store.time /\ queried_time = store.time /\ store.time \in Nat
      /\ fcr_store.confirmed_root \in known
  BY DEF NodeInit, Init, get_fast_confirmation_store, RuleGrounded, Grounded, TypeOK,
         IsStore, StoreOver
<1>2. slot_at(store.time) \in Nat
  BY <1>1, SlotType
<1>3. fcr_store.confirmed_root \in Root
  BY <1>1 DEF Grounded, TypeOK, IsStore, known
<1>4. below(store, store.finalized_checkpoint.root, fcr_store.confirmed_root)
  BY <1>1, <1>3, GroundedIsTree, BelowSelf
<1> QED BY <1>1, <1>2, <1>4 DEF ConfirmedInv, ClockInv

LEMMA ClockInvariant == NodeSpec => []ClockInv
<1>1. Grounded /\ Grounded' /\ ClockInv /\ [NodeNext]_node_vars => ClockInv'
  BY ClockKinds DEF Grounded
<1>2. NodeSpec => NodeInit /\ [][NodeNext]_node_vars
  BY DEF NodeSpec
<1> QED BY <1>1, <1>2, InitConfirmed, RuleLeavesStoreAlone, GroundedInvariant,
           RuleGroundedInvariant, PTL

LEMMA ConfirmedInvariant == NodeSpec /\ FinalityStaysOnChain => []ConfirmedInv
<1> DEFINE stays ==
             descends(store', store'.finalized_checkpoint.root, store.finalized_checkpoint.root)
<1>1. Grounded /\ Grounded' /\ RuleGrounded /\ ClockInv /\ ConfirmedInv
        /\ [NodeNext]_node_vars /\ [stays]_vars => ConfirmedInv'
  <2> SUFFICES ASSUME Grounded, Grounded', RuleGrounded, ClockInv, ConfirmedInv,
                      [NodeNext]_node_vars, [stays]_vars
               PROVE  ConfirmedInv'
    OBVIOUS
  <2>1. CASE stays
    BY <2>1, ConfirmedStep, DescendsIsBelow
  <2>2. CASE UNCHANGED vars
    <3>1. store' = store /\ store.finalized_checkpoint.root \in Root
      BY <2>2, CheckpointsKnown DEF vars, Grounded, TypeOK, IsStore, known
    <3>2. below(store', store'.finalized_checkpoint.root, store.finalized_checkpoint.root)
      BY <3>1, GroundedIsTree, BelowSelf
    <3> QED BY <3>2, ConfirmedStep
  <2> QED BY <2>1, <2>2
<1> HIDE DEF stays
<1>2. NodeSpec => NodeInit /\ [][NodeNext]_node_vars
  BY DEF NodeSpec
<1>3. FinalityStaysOnChain => [][stays]_vars
  BY DEF FinalityStaysOnChain, stays
<1> QED BY <1>1, <1>2, <1>3, InitConfirmed, RuleLeavesStoreAlone, GroundedInvariant,
           RuleGroundedInvariant, ClockInvariant, PTL

(* Between two epoch starts the confirmed block is replaced only by one of *)
(* its descendants, as long as the head descends from it and finality      *)
(* stays on its chain: the rule falls back from a block that is not recent *)
(* only where finality has caught up with it, or in the first slot of an   *)
(* epoch.                                                                  *)
THEOREM ConfirmedOnlyExtends ==
  NodeSpec /\ FinalityStaysOnChain => ConfirmedExtendsWithinEpoch
<1> DEFINE extends ==
             /\ queried_time' # queried_time
             /\ ~at_epoch_start(store)
             /\ descends(store, get_head(store).root, fcr_store.confirmed_root)
             => descends(store, fcr_store'.confirmed_root, fcr_store.confirmed_root)
<1>1. Grounded /\ RuleGrounded /\ ConfirmedInv /\ [NodeNext]_node_vars => [extends]_node_vars
  <2> SUFFICES ASSUME Grounded, RuleGrounded, ConfirmedInv, [NodeNext]_node_vars,
                      queried_time' # queried_time, ~at_epoch_start(store),
                      descends(store, get_head(store).root, fcr_store.confirmed_root)
               PROVE  descends(store, fcr_store'.confirmed_root, fcr_store.confirmed_root)
    OBVIOUS
  <2>1. OnFastConfirmation
    BY QueryStep
  <2>2. CASE ConfirmedRecent
    BY <2>1, <2>2, AnswerIsCanonical DEF ConfirmedRecent
  <2>3. CASE ~ ConfirmedRecent
    <3>1. below(store, store.finalized_checkpoint.root, fcr_store.confirmed_root)
      BY <2>1, <2>3 DEF ConfirmedInv, OnFastConfirmation
    <3>2. /\ fcr_store'.confirmed_root \in known
          /\ \/ below(store, fcr_store'.confirmed_root, store.finalized_checkpoint.root)
             \/ below(store, fcr_store'.confirmed_root, fcr_store.confirmed_root)
      BY <2>1, AnswerIsCanonical, DescendsIsBelow
    <3>3. /\ Tree(store) /\ known \subseteq Root /\ store.finalized_checkpoint.root \in known
      BY GroundedIsTree, CheckpointsKnown DEF Grounded, TypeOK, IsStore, known
    <3> QED BY <3>1, <3>2, <3>3, BelowTransitive, DescendsIsBelow
  <2> QED BY <2>2, <2>3
<1> HIDE DEF extends
<1>2. NodeSpec => [][NodeNext]_node_vars
  BY DEF NodeSpec
<1>3. NodeSpec /\ FinalityStaysOnChain => [][extends]_node_vars
  BY <1>1, <1>2, ConfirmedInvariant, RuleLeavesStoreAlone, GroundedInvariant,
     RuleGroundedInvariant, PTL
<1> QED BY <1>3 DEF extends, ConfirmedExtendsWithinEpoch

-----------------------------------------------------------------------------
(* The safe execution block.                                               *)

ImportedBidsContinue ==
  \A root \in known \ {ANCHOR_BLOCK.root} :
    LET block == store.blocks[root]
        parent == store.blocks[block.parent_root]
    IN  block.parent_block_hash \in {parent.block_hash, parent.parent_block_hash}

LEMMA BidsStep ==
  ASSUME Grounded, [Next]_vars, ImportedBidsContinue
  PROVE  ImportedBidsContinue'
<1>1. TypeOK /\ StoreSound /\ ChainSound(store) /\ TreeSound(store) /\ AnchorSound(store)
  BY DEF Grounded, StoreSound
<1>2. ASSUME SameBlocks(store, store') PROVE ImportedBidsContinue'
  BY <1>2 DEF SameBlocks, known, ImportedBidsContinue
<1>3. ASSUME NEW sb \in SIGNED_BLOCKS, on_block_accepts(store, sb), store' = on_block(store, sb)
      PROVE  ImportedBidsContinue'
  <2> DEFINE root == sb.root
             parent == sb.message.parent_root
  <2>1. /\ root \notin known /\ parent \in known
        /\ store'.blocks = put(store.blocks, root, sb.message)
    BY <1>1, <1>3, ImportedBlock DEF TypeOK, known
  <2>2. /\ known' = known \cup {root} /\ store'.blocks[root] = sb.message
        /\ \A r \in known : store'.blocks[r] = store.blocks[r]
    BY <2>1 DEF put, known
  <2>3. sb.message.parent_block_hash
          \in {store.blocks[parent].block_hash, store.blocks[parent].parent_block_hash}
    <3>1. PICK from \in SIGNED_BLOCKS \cup {ANCHOR_BLOCK} :
            from.root = parent /\ store.blocks[parent] = from.message
      BY <1>1, <2>1 DEF ChainSound, BlocksDelivered, AnchorSound, known
    <3>2. block_state(store, parent) \in states_after(parent)
      BY <1>1, <2>1 DEF ChainSound, BlocksDelivered, TypeOK, IsStore, KeysAgree, known, block_state
    <3>3. state_transition(block_state(store, parent), sb) # InvalidTransition
      BY <1>3 DEF on_block_accepts, on_block_asserts, post_state
    <3> QED BY <3>1, <3>2, <3>3, BidAssumption
  <2>4. ASSUME NEW r \in known \ {ANCHOR_BLOCK.root}
        PROVE  store.blocks[r].parent_root \in known
    BY <1>1 DEF TreeSound, known
  <2> HIDE DEF root, parent
  <2>5. parent = sb.message.parent_root
    BY DEF parent
  <2> QED BY <2>1, <2>2, <2>3, <2>4, <2>5 DEF ImportedBidsContinue
<1> QED BY <1>1, <1>2, <1>3, BlocksStep

LEMMA InitBids == Init => ImportedBidsContinue
<1> SUFFICES ASSUME Init PROVE ImportedBidsContinue
  OBVIOUS
<1>1. store.blocks = put(EmptyDict, ANCHOR_BLOCK.root, ANCHOR_BLOCK.message)
  BY DEF Init, get_forkchoice_store
<1>2. known = {ANCHOR_BLOCK.root}
  BY <1>1 DEF known, put, EmptyDict
<1> QED BY <1>2 DEF ImportedBidsContinue

(* What a known block was bid on: a verified payload, or the execution     *)
(* block of the anchor's parent.                                           *)
LEMMA BidOnVerified ==
  ASSUME Grounded, ImportedBidsContinue, NEW root \in known
  PROVE  \/ store.blocks[root].parent_block_hash = ANCHOR_BLOCK.message.parent_block_hash
         \/ \E r \in store.payloads :
              store.blocks[r].block_hash = store.blocks[root].parent_block_hash
<1> DEFINE verified(hash) ==
             \/ hash = ANCHOR_BLOCK.message.parent_block_hash
             \/ \E r \in store.payloads : store.blocks[r].block_hash = hash
           bad == {r \in known : ~ verified(store.blocks[r].parent_block_hash)}
           slots == {store.blocks[r].slot : r \in bad}
<1> SUFFICES ASSUME bad # {} PROVE FALSE
  OBVIOUS
<1>1. /\ \A r \in known : store.blocks[r].slot \in Nat
      /\ TreeSound(store) /\ AnchorSound(store) /\ FullParentVerified
  BY DEF Grounded, StoreSound, TypeOK, IsStore, StoreOver, BeaconBlock, known
<1>2. slots \subseteq Nat /\ slots # {}
  BY <1>1
<1>3. PICK m \in slots : \A k \in slots : m <= k
  BY <1>2, LeastNatural
<1>4. PICK r \in bad : m = store.blocks[r].slot
  OBVIOUS
<1> DEFINE block == store.blocks[r]
           parent == block.parent_root
<1>5. r \in known /\ ~ verified(block.parent_block_hash)
  OBVIOUS
<1>6. r # ANCHOR_BLOCK.root
  BY <1>1, <1>5 DEF AnchorSound
<1>7. parent \in known /\ store.blocks[parent].slot < block.slot
  BY <1>1, <1>5, <1>6 DEF TreeSound, known
<1>8. block.parent_block_hash
        \in {store.blocks[parent].block_hash, store.blocks[parent].parent_block_hash}
  BY <1>5, <1>6 DEF ImportedBidsContinue
<1>9. CASE block.parent_block_hash = store.blocks[parent].block_hash
  <2>1. is_parent_node_full(store, block)
    BY <1>7, <1>9 DEF is_parent_node_full, get_parent_payload_status, block_at, known
  <2>2. parent \in store.payloads
    BY <1>1, <1>5, <1>6, <2>1 DEF FullParentVerified
  <2>3. store.blocks[parent].block_hash = block.parent_block_hash
    BY <1>9
  <2> HIDE DEF parent, block, bad
  <2> QED BY <1>5, <2>2, <2>3
<1>10. CASE block.parent_block_hash = store.blocks[parent].parent_block_hash
  <2>1. ~ verified(store.blocks[parent].parent_block_hash)
    BY <1>5, <1>10
  <2>2. parent \in bad
    BY <1>7, <2>1
  <2>3. store.blocks[r].slot <= store.blocks[parent].slot
    BY <1>3, <1>4, <2>2
  <2>4. store.blocks[r].slot \in Nat /\ store.blocks[parent].slot \in Nat
    BY <1>1, <1>5, <1>7
  <2> QED BY <1>7, <2>3, <2>4
<1> QED BY <1>8, <1>9, <1>10

(* The execution block that the rule reports as safe is verified, even     *)
(* when the confirmed block builds on an empty node: then it is the one    *)
(* that the closest full ancestor builds on.                               *)
THEOREM SafeBlockIsVerified == NodeSpec => []SafeExecutionBlockVerified
<1>1. Grounded /\ ImportedBidsContinue /\ [Next]_vars => ImportedBidsContinue'
  BY BidsStep
<1>2. Spec => []ImportedBidsContinue
  BY <1>1, InitBids, GroundedInvariant, PTL DEF Spec
<1>3. Grounded /\ RuleGrounded /\ ImportedBidsContinue => SafeExecutionBlockVerified
  <2> SUFFICES ASSUME Grounded, RuleGrounded, ImportedBidsContinue
               PROVE  SafeExecutionBlockVerified
    OBVIOUS
  <2>1. fcr_store.confirmed_root \in known
    BY DEF RuleGrounded
  <2>2. get_safe_execution_block_hash(store, fcr_store)
          = store.blocks[fcr_store.confirmed_root].parent_block_hash
    BY <2>1 DEF get_safe_execution_block_hash, block_at, known
  <2> QED BY <2>1, <2>2, BidOnVerified DEF SafeExecutionBlockVerified
<1> QED BY <1>2, <1>3, RuleLeavesStoreAlone, GroundedInvariant, RuleGroundedInvariant, PTL
===============================================================================
