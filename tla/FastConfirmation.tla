-------------------------- MODULE FastConfirmation --------------------------
(***************************************************************************)
(* The Fast Confirmation Rule: the functions of fast-confirmation.md over  *)
(* a fork-choice store.  The FastConfirmationStore is the record           *)
(* fcr_store; the fork-choice store it reads is passed beside it, because  *)
(* the rule never writes it, and so is head, the root of get_head(store)   *)
(* that the functions of the rule compute again and again.                 *)
(***************************************************************************)
EXTENDS ForkChoice

CONSTANTS
  CONFIRMATION_BYZANTINE_THRESHOLD,             \* percent
  COMMITTEE_WEIGHT_ESTIMATION_ADJUSTMENT_FACTOR \* per mille

ASSUME RuleConfigAssumption ==
  /\ CONFIRMATION_BYZANTINE_THRESHOLD \in 0..25
  /\ COMMITTEE_WEIGHT_ESTIMATION_ADJUSTMENT_FACTOR \in Nat
  /\ EFFECTIVE_BALANCE_INCREMENT % 100 = 0

FastConfirmationStore ==
  [confirmed_root : Root,
   previous_epoch_observed_justified_checkpoint : Checkpoint,
   current_epoch_observed_justified_checkpoint : Checkpoint,
   previous_epoch_greatest_unrealized_checkpoint : Checkpoint,
   previous_slot_head : Root,
   current_slot_head : Root]

get_fast_confirmation_store(store) ==
  LET finalized == store.finalized_checkpoint
  IN  [confirmed_root |-> finalized.root,
       previous_epoch_observed_justified_checkpoint |-> finalized,
       current_epoch_observed_justified_checkpoint |-> finalized,
       previous_epoch_greatest_unrealized_checkpoint |-> finalized,
       previous_slot_head |-> finalized.root,
       current_slot_head |-> finalized.root]

-----------------------------------------------------------------------------
(* Reads of the store. *)

get_node_for_root(root) == NewNode(root, PENDING)

descends(store, root, ancestor_root) ==
  is_ancestor(store, get_node_for_root(root), get_node_for_root(ancestor_root))

get_block_epoch(store, root) == compute_epoch_at_slot(block_slot(store, root))

get_checkpoint_for_block(store, root, epoch) ==
  [epoch |-> epoch, root |-> get_checkpoint_block(store, root, epoch)]

get_current_target(store, head) ==
  get_checkpoint_for_block(store, head, get_current_store_epoch(store))

is_start_slot_at_epoch(slot) == compute_slots_since_epoch_start(slot) = 0

at_epoch_start(store) == is_start_slot_at_epoch(get_current_slot(store))

(* The chain from the child of terminal_root to root, oldest block first;  *)
(* empty when terminal_root is not an ancestor.                            *)
get_ancestor_roots(store, root, terminal_root) ==
  LET walk[r \in Root] ==
        LET parent == block_at(store, r).parent_root
        IN  IF block_slot(store, r) <= block_slot(store, terminal_root) THEN <<>>
            ELSE IF parent = terminal_root THEN <<r>>
            ELSE IF walk[parent] = <<>> THEN <<>> ELSE Append(walk[parent], r)
  IN  walk[root]

get_slot_committees(start_slot, end_slot) ==
  UNION {get_beacon_committee(slot) : slot \in start_slot..end_slot}

get_pulled_up_head_state(store, head) ==
  LET head_state == block_state(store, head)
  IN  IF get_current_epoch(head_state) < get_current_store_epoch(store)
      THEN process_slots(head_state,
             compute_start_slot_at_epoch(get_current_store_epoch(store)))
      ELSE head_state

get_previous_balance_source(store, fcr_store) ==
  checkpoint_state(store, fcr_store.previous_epoch_observed_justified_checkpoint)

(* Mutant: the head's own balances. *)
get_current_balance_source_of_head(store, fcr_store) ==
  block_state(store, fcr_store.current_slot_head)

get_current_balance_source(store, fcr_store) ==
  checkpoint_state(store, fcr_store.current_epoch_observed_justified_checkpoint)

-----------------------------------------------------------------------------
(* The LMD-GHOST helpers. *)

active_in(state) == get_active_validator_indices(state, get_current_epoch(state))

(* Mutant: every vote for the parent is discounted, whatever its payload. *)
get_all_parent_support(store, state, root, status, start_slot, end_slot) ==
  balance_of({i \in get_slot_committees(start_slot, end_slot) \cap active_in(state) :
    /\ ~REGISTRY[i].slashed
    /\ i \in DOMAIN store.latest_messages
    /\ i \notin store.equivocating_indices
    /\ store.latest_messages[i].root = root})

(* Votes for the parent itself, on the payload branch the child builds on  *)
(* or on neither.                                                          *)
get_parent_payload_support_between_slots(store, state, root, status, start_slot, end_slot) ==
  balance_of({i \in get_slot_committees(start_slot, end_slot) \cap active_in(state) :
    /\ ~REGISTRY[i].slashed
    /\ i \in DOMAIN store.latest_messages
    /\ i \notin store.equivocating_indices
    /\ store.latest_messages[i].root = root
    /\ get_supported_node(store, store.latest_messages[i]).payload_status
         \in {status, PENDING}})

(* Mutant: a span that starts with an epoch does not hold it. *)
is_full_set_covered_strictly(start_slot, end_slot) ==
  compute_epoch_at_slot(start_slot + SLOTS_PER_EPOCH) < compute_epoch_at_slot(end_slot + 1)

is_full_validator_set_covered(start_slot, end_slot) ==
  compute_epoch_at_slot(start_slot + SLOTS_PER_EPOCH - 1)
    < compute_epoch_at_slot(end_slot + 1)

adjust_committee_weight_estimate_to_ensure_safety(estimate) ==
  ((estimate + 999) \div 1000) * (1000 + COMMITTEE_WEIGHT_ESTIMATION_ADJUSTMENT_FACTOR)

(* Mutant: the slots are counted without the last. *)
estimate_without_end_slot(total_active_balance, start_slot, end_slot) ==
  (total_active_balance \div SLOTS_PER_EPOCH) * (end_slot - start_slot)

(* Mutant: nothing is added for the slots of the start epoch. *)
estimate_of_end_epoch(total_active_balance, start_slot, end_slot) ==
  LET committee_weight == total_active_balance \div SLOTS_PER_EPOCH
  IN  IF is_full_validator_set_covered(start_slot, end_slot) THEN total_active_balance
      ELSE IF compute_epoch_at_slot(start_slot) = compute_epoch_at_slot(end_slot)
      THEN committee_weight * (end_slot - start_slot + 1)
      ELSE committee_weight * (compute_slots_since_epoch_start(end_slot) + 1)

estimate_committee_weight_between_slots(total_active_balance, start_slot, end_slot) ==
  LET committee_weight == total_active_balance \div SLOTS_PER_EPOCH
      in_end_epoch == compute_slots_since_epoch_start(end_slot) + 1
      in_start_epoch == SLOTS_PER_EPOCH - compute_slots_since_epoch_start(start_slot)
      pro_rated == ((committee_weight * in_start_epoch) \div SLOTS_PER_EPOCH)
                     * (SLOTS_PER_EPOCH - in_end_epoch)
  IN  IF start_slot > end_slot THEN 0
      ELSE IF is_full_validator_set_covered(start_slot, end_slot) THEN total_active_balance
      ELSE IF compute_epoch_at_slot(start_slot) = compute_epoch_at_slot(end_slot)
      THEN committee_weight * (end_slot - start_slot + 1)
      ELSE adjust_committee_weight_estimate_to_ensure_safety(
             pro_rated + committee_weight * in_end_epoch)

get_equivocation_score(store, state, start_slot, end_slot) ==
  balance_of(get_slot_committees(start_slot, end_slot)
               \cap store.equivocating_indices \cap active_in(state))

compute_adversarial_weight(store, state, start_slot, end_slot) ==
  saturating_sub(
    (estimate_committee_weight_between_slots(
       get_total_active_balance(state), start_slot, end_slot) \div 100)
      * CONFIRMATION_BYZANTINE_THRESHOLD,
    get_equivocation_score(store, state, start_slot, end_slot))

last_slot(store) == saturating_sub(get_current_slot(store), 1)

(* The committees that may have voted for the block: from its slot, or     *)
(* from the start of its epoch when it opens the epoch on its chain.       *)
get_adversarial_weight(store, state, root) ==
  LET parent == block_at(store, root).parent_root
      epoch == get_block_epoch(store, root)
  IN  compute_adversarial_weight(store, state,
        IF epoch > get_block_epoch(store, parent)
        THEN compute_start_slot_at_epoch(epoch) ELSE block_slot(store, root),
        last_slot(store))

(* What voted in the empty slots before the block is bound to its parent. *)
compute_empty_slot_support_discount(store, state, root) ==
  LET block == block_at(store, root)
      first == block_slot(store, block.parent_root) + 1
      last == saturating_sub(block.slot, 1)
  IN  IF first = block.slot THEN 0
      ELSE saturating_sub(
             get_parent_payload_support_between_slots(store, state, block.parent_root,
               get_parent_payload_status(store, block), first, last),
             compute_adversarial_weight(store, state, first, last))

(* Mutant: half of what may vote, with no margin for the adversary. *)
compute_majority_threshold(store, root, state) ==
  estimate_committee_weight_between_slots(get_total_active_balance(state),
    block_slot(store, block_at(store, root).parent_root) + 1, last_slot(store)) \div 2

(* Mutant: the boost that a rival may get is left out. *)
compute_threshold_without_boost(store, root, state) ==
  LET parent == block_at(store, root).parent_root
      maximum_support ==
        estimate_committee_weight_between_slots(get_total_active_balance(state),
          block_slot(store, parent) + 1, last_slot(store))
  IN  saturating_sub(maximum_support + 2 * get_adversarial_weight(store, state, root),
        compute_empty_slot_support_discount(store, state, root)) \div 2

compute_safety_threshold(store, root, state) ==
  LET parent == block_at(store, root).parent_root
      maximum_support ==
        estimate_committee_weight_between_slots(get_total_active_balance(state),
          block_slot(store, parent) + 1, last_slot(store))
  IN  saturating_sub(
        maximum_support + compute_proposer_score(state)
          + 2 * get_adversarial_weight(store, state, root),
        compute_empty_slot_support_discount(store, state, root)) \div 2

is_one_confirmed(store, state, root) ==
  get_attestation_score(store, get_node_for_root(root), state)
    > compute_safety_threshold(store, root, state)

(* The confirmed chain is confirmed again from the observed checkpoint, or *)
(* from the first block of the previous epoch when that checkpoint is old. *)
is_confirmed_chain_safe(store, fcr_store, confirmed_root) ==
  LET observed == fcr_store.current_epoch_observed_justified_checkpoint
      current_epoch == get_current_store_epoch(store)
      previous_epoch_root ==
        get_ancestor(store, get_node_for_root(confirmed_root),
          compute_start_slot_at_epoch(saturating_sub(current_epoch, 1))).root
      start_root_exclusive ==
        IF observed.epoch + 1 >= current_epoch THEN observed.root
        ELSE IF get_block_epoch(store, previous_epoch_root) + 1 = current_epoch
        THEN block_at(store, previous_epoch_root).parent_root
        ELSE previous_epoch_root
      chain_roots == get_ancestor_roots(store, confirmed_root, start_root_exclusive)
  IN  /\ observed = get_checkpoint_for_block(store, confirmed_root, observed.epoch)
      /\ \A k \in DOMAIN chain_roots :
           is_one_confirmed(store, get_previous_balance_source(store, fcr_store),
                            chain_roots[k])

-----------------------------------------------------------------------------
(* The FFG helpers. *)

get_latest_message_epoch(message) == compute_epoch_at_slot(message.slot)

get_current_target_score(store, head) ==
  LET target == get_current_target(store, head)
  IN  balance_of({i \in active_in(get_pulled_up_head_state(store, head)) :
        /\ ~REGISTRY[i].slashed
        /\ i \in DOMAIN store.latest_messages
        /\ i \notin store.equivocating_indices
        /\ target = get_checkpoint_for_block(store, store.latest_messages[i].root,
                      get_latest_message_epoch(store.latest_messages[i]))})

(* What voted for the target so far without the adversary's share, and the *)
(* honest share of the committees still to vote.                           *)
compute_honest_ffg_support_for_current_target(store, head) ==
  LET start == compute_start_slot_at_epoch(get_current_store_epoch(store))
      state == get_pulled_up_head_state(store, head)
      total_active_balance == get_total_active_balance(state)
      remaining_ffg_weight ==
        saturating_sub(total_active_balance,
          estimate_committee_weight_between_slots(total_active_balance, start,
                                                  last_slot(store)))
  IN  saturating_sub(get_current_target_score(store, head),
                     compute_adversarial_weight(store, state, start, last_slot(store)))
      + (remaining_ffg_weight \div 100) * (100 - CONFIRMATION_BYZANTINE_THRESHOLD)

will_no_conflicting_checkpoint_be_justified(store, head) ==
  \/ get_current_target(store, head) = store.unrealized_justified_checkpoint
  \/ 3 * compute_honest_ffg_support_for_current_target(store, head)
       > get_total_active_balance(get_pulled_up_head_state(store, head))

will_current_target_be_justified(store, head) ==
  3 * compute_honest_ffg_support_for_current_target(store, head)
    >= 2 * get_total_active_balance(get_pulled_up_head_state(store, head))

-----------------------------------------------------------------------------
(* The rule. *)

(* Mutant: the new epoch observes what is unrealized now. *)
update_fast_confirmation_variables_late(store, fcr_store, head) ==
  [fcr_store EXCEPT
     !.previous_slot_head = fcr_store.current_slot_head,
     !.current_slot_head = head,
     !.previous_epoch_greatest_unrealized_checkpoint =
       store.unrealized_justified_checkpoint,
     !.previous_epoch_observed_justified_checkpoint =
       IF at_epoch_start(store)
       THEN fcr_store.current_epoch_observed_justified_checkpoint ELSE @,
     !.current_epoch_observed_justified_checkpoint =
       IF at_epoch_start(store) THEN store.unrealized_justified_checkpoint ELSE @]

(* Mutant: the block that holds the boost is taken for the head. *)
update_fast_confirmation_variables_boosted(store, fcr_store, head) ==
  [fcr_store EXCEPT !.previous_slot_head = fcr_store.current_slot_head,
                    !.current_slot_head = store.proposer_boost_root]

(* The greatest unrealized checkpoint is taken in the last slot of an      *)
(* epoch; the first slot of the next makes it the observed one.  With      *)
(* one-slot epochs both happen in one call, in this order.                 *)
update_fast_confirmation_variables(store, fcr_store, head) ==
  LET greatest ==
        IF is_start_slot_at_epoch(get_current_slot(store) + 1)
        THEN store.unrealized_justified_checkpoint
        ELSE fcr_store.previous_epoch_greatest_unrealized_checkpoint
  IN  [fcr_store EXCEPT
         !.previous_slot_head = fcr_store.current_slot_head,
         !.current_slot_head = head,
         !.previous_epoch_greatest_unrealized_checkpoint = greatest,
         !.previous_epoch_observed_justified_checkpoint =
           IF at_epoch_start(store)
           THEN fcr_store.current_epoch_observed_justified_checkpoint ELSE @,
         !.current_epoch_observed_justified_checkpoint =
           IF at_epoch_start(store) THEN greatest ELSE @]

(* The last block of chain before the first k for which ok[k], the check of *)
(* going from chain[k] on to chain[k + 1], fails: the for-break loops.      *)
advance(chain, ok) ==
  chain[1 + Cardinality({k \in DOMAIN ok : \A j \in 1..k : ok[j]})]

(* The blocks from confirmed_root, included, to the head. *)
chain_to_head(store, head, confirmed_root) ==
  <<confirmed_root>> \o get_ancestor_roots(store, head, confirmed_root)

(* Towards the end of the previous epoch, as long as the previous head     *)
(* agrees.                                                                 *)
previous_epoch_advance(store, fcr_store, head, confirmed_root) ==
  LET chain == chain_to_head(store, head, confirmed_root)
      state == get_current_balance_source(store, fcr_store)
  IN  advance(chain, [k \in 1..Len(chain) - 1 |->
        /\ get_block_epoch(store, chain[k + 1]) # get_current_store_epoch(store)
        /\ descends(store, fcr_store.previous_slot_head, chain[k + 1])
        /\ is_one_confirmed(store, state, chain[k + 1])])

(* Up to the head; into the current epoch only when its target is sure to  *)
(* be justified.                                                           *)
tentative_advance(store, fcr_store, head, confirmed_root) ==
  LET chain == chain_to_head(store, head, confirmed_root)
      state == get_current_balance_source(store, fcr_store)
  IN  advance(chain, [k \in 1..Len(chain) - 1 |->
        /\ get_block_epoch(store, chain[k + 1]) > get_block_epoch(store, chain[k])
             => will_current_target_be_justified(store, head)
        /\ is_one_confirmed(store, state, chain[k + 1])])

find_latest_confirmed_descendant(store, fcr_store, head, latest_confirmed_root) ==
  LET current_epoch == get_current_store_epoch(store)
      is_recent(checkpoint) == checkpoint.epoch + 1 >= current_epoch
      is_voting_source_recent(root) ==
        get_voting_source(store, root).epoch + 2 >= current_epoch
      confirmed_root ==
        IF /\ get_block_epoch(store, latest_confirmed_root) + 1 = current_epoch
           /\ is_voting_source_recent(fcr_store.previous_slot_head)
           /\ \/ at_epoch_start(store)
              \/ /\ will_no_conflicting_checkpoint_be_justified(store, head)
                 /\ \/ is_recent(store.unrealized_justifications[fcr_store.previous_slot_head])
                    \/ is_recent(store.unrealized_justifications[head])
        THEN previous_epoch_advance(store, fcr_store, head, latest_confirmed_root)
        ELSE latest_confirmed_root
      tentative_confirmed_root == tentative_advance(store, fcr_store, head, confirmed_root)
  IN  IF /\ at_epoch_start(store) \/ is_recent(store.unrealized_justifications[head])
         /\ \/ get_block_epoch(store, tentative_confirmed_root) = current_epoch
            \/ /\ is_voting_source_recent(tentative_confirmed_root)
               /\ \/ at_epoch_start(store)
                  \/ will_no_conflicting_checkpoint_be_justified(store, head)
      THEN tentative_confirmed_root ELSE confirmed_root

(* Mutant: a block that left the head's chain stays confirmed. *)
revert_to_finalized_unless_safe(store, fcr_store, head) ==
  IF \/ get_block_epoch(store, fcr_store.confirmed_root) + 1
          < get_current_store_epoch(store)
     \/ /\ at_epoch_start(store)
        /\ ~is_confirmed_chain_safe(store, fcr_store, fcr_store.confirmed_root)
  THEN store.finalized_checkpoint.root ELSE fcr_store.confirmed_root

(* Mutant: the chain is confirmed again in every slot. *)
revert_to_finalized_any_slot(store, fcr_store, head) ==
  IF \/ get_block_epoch(store, fcr_store.confirmed_root) + 1
          < get_current_store_epoch(store)
     \/ ~descends(store, head, fcr_store.confirmed_root)
     \/ ~is_confirmed_chain_safe(store, fcr_store, fcr_store.confirmed_root)
  THEN store.finalized_checkpoint.root ELSE fcr_store.confirmed_root

(* Back to the finalized block when the confirmed one is too old, off the  *)
(* head's chain, or not confirmed again at the start of an epoch.          *)
revert_to_finalized(store, fcr_store, head) ==
  IF \/ get_block_epoch(store, fcr_store.confirmed_root) + 1
          < get_current_store_epoch(store)
     \/ ~descends(store, head, fcr_store.confirmed_root)
     \/ /\ at_epoch_start(store)
        /\ ~is_confirmed_chain_safe(store, fcr_store, fcr_store.confirmed_root)
  THEN store.finalized_checkpoint.root ELSE fcr_store.confirmed_root

(* At the start of an epoch, on to the observed justified checkpoint when  *)
(* that is newer and the head agrees with it.                              *)
restart_from_observed(store, fcr_store, head, confirmed_root) ==
  LET observed == fcr_store.current_epoch_observed_justified_checkpoint
  IN  IF /\ at_epoch_start(store)
         /\ get_block_epoch(store, observed.root) + 1 = get_current_store_epoch(store)
         /\ observed = store.unrealized_justifications[head]
         /\ block_slot(store, confirmed_root) < block_slot(store, observed.root)
      THEN observed.root ELSE confirmed_root

get_latest_confirmed(store, fcr_store, head) ==
  LET confirmed_root ==
        restart_from_observed(store, fcr_store, head, revert_to_finalized(store, fcr_store, head))
  IN  IF get_block_epoch(store, confirmed_root) + 1 >= get_current_store_epoch(store)
      THEN find_latest_confirmed_descendant(store, fcr_store, head, confirmed_root)
      ELSE confirmed_root

query(store, fcr_store, head) ==
  [fcr_store EXCEPT !.confirmed_root = get_latest_confirmed(store, fcr_store, head)]

on_fast_confirmation(store, fcr_store) ==
  LET head == get_head(store).root
  IN  query(store, update_fast_confirmation_variables(store, fcr_store, head), head)

get_safe_execution_block_hash(store, fcr_store) ==
  block_at(store, fcr_store.confirmed_root).parent_block_hash
=============================================================================
