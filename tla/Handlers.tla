------------------------------ MODULE Handlers ------------------------------
(***************************************************************************)
(* The functions that change a fork-choice store: the tick, the import of  *)
(* a block and the four message handlers, as operators from a store to a   *)
(* store.  A handler that can reject has a predicate ..._accepts, the      *)
(* conjunction of its early returns; when it is false the store is left    *)
(* as it was.                                                              *)
(***************************************************************************)
EXTENDS ForkChoice

(* Mutant: a newer justified checkpoint brings its finalized one along. *)
update_checkpoints_together(store, justified, finalized) ==
  IF justified.epoch > store.justified_checkpoint.epoch
  THEN [store EXCEPT !.justified_checkpoint = justified, !.finalized_checkpoint = finalized]
  ELSE store

update_checkpoints(store, justified, finalized) ==
  [store EXCEPT
     !.justified_checkpoint = IF justified.epoch > @.epoch THEN justified ELSE @,
     !.finalized_checkpoint = IF finalized.epoch > @.epoch THEN finalized ELSE @]

(* Mutant: the finalized checkpoint is forgotten. *)
update_unrealized_justified_only(store, justified, finalized) ==
  [store EXCEPT !.unrealized_justified_checkpoint =
     IF justified.epoch > @.epoch THEN justified ELSE @]

update_unrealized_checkpoints(store, justified, finalized) ==
  [store EXCEPT
     !.unrealized_justified_checkpoint =
       IF justified.epoch > @.epoch THEN justified ELSE @,
     !.unrealized_finalized_checkpoint =
       IF finalized.epoch > @.epoch THEN finalized ELSE @]

-----------------------------------------------------------------------------
(* on_tick.  The catch-up loop of on_tick calls on_tick_per_slot at the    *)
(* start of every slot between the store's and the tick's, then at time.   *)

on_tick_per_slot(store, time) ==
  LET current_slot == slot_at(time)
      is_new_slot == current_slot > get_current_slot(store)
      ticked ==
        [store EXCEPT !.time = time,
                      !.proposer_boost_root = IF is_new_slot THEN NoRoot ELSE @]
  IN  IF is_new_slot /\ compute_slots_since_epoch_start(current_slot) = 0
      THEN update_checkpoints(ticked, store.unrealized_justified_checkpoint,
                              store.unrealized_finalized_checkpoint)
      ELSE ticked

(* Mutant: the current slot's own start. *)
current_slot_start(store) == (get_current_slot(store) * SLOT_DURATION_MS) \div 1000

(* Where the next iteration of the loop moves the clock. *)
next_slot_start(store) == ((get_current_slot(store) + 1) * SLOT_DURATION_MS) \div 1000

(* Mutant: no catch-up over the slots in between. *)
on_tick_at_once(store, time) == on_tick_per_slot(store, time)

on_tick(store, time) ==
  LET catch_up[fuel \in Nat] ==
        LET before == IF fuel = 0 THEN store ELSE catch_up[fuel - 1]
        IN  IF fuel > 0 /\ get_current_slot(before) < slot_at(time)
            THEN on_tick_per_slot(before, next_slot_start(before)) ELSE before
  IN  on_tick_per_slot(catch_up[slot_at(time) + 1], time)

-----------------------------------------------------------------------------
(* on_payload_attestation_message. *)

(* Mutant: only the validator's first position. *)
ptc_first_index(slot, validator) ==
  {i \in 0..Len(get_ptc(slot))-1 :
     /\ get_ptc(slot)[i + 1] = validator
     /\ \A j \in 0..i-1 : get_ptc(slot)[j + 1] # validator}

ptc_indices(slot, validator) ==
  {i \in 0..Len(get_ptc(slot))-1 : get_ptc(slot)[i + 1] = validator}

(* A message for another slot than the block's is accepted and ignored. *)
on_payload_attestation_message_accepts(store, message, is_from_block) ==
  /\ message.beacon_block_root \in DOMAIN store.blocks
  /\ \/ message.slot # block_state(store, message.beacon_block_root).slot
     \/ /\ ptc_indices(message.slot, message.validator_index) # {}
        /\ ptc_indices(message.slot, message.validator_index) \subseteq 0..PTC_SIZE-1
        /\ \/ is_from_block
           \/ /\ message.slot = get_current_slot(store)
              /\ is_valid_indexed_payload_attestation(message)
        /\ message.beacon_block_root \in DOMAIN store.payload_timeliness_vote
        /\ message.beacon_block_root \in DOMAIN store.payload_data_availability_vote

(* The votes of a list of messages, in order: at each position the last    *)
(* message that writes it decides both lists.                              *)
record_ptc_votes(store, messages) ==
  LET writers(root, i) ==
        {k \in DOMAIN messages :
           /\ messages[k].beacon_block_root = root
           /\ messages[k].slot = block_state(store, root).slot
           /\ i \in ptc_indices(messages[k].slot, messages[k].validator_index)}
      last_says(field, root, i) ==
        \E k \in writers(root, i) :
          messages[k][field] /\ \A other \in writers(root, i) : other <= k
      write(field, votes) ==
        [root \in DOMAIN votes |->
           [i \in DOMAIN votes[root] \cup {j \in 0..PTC_SIZE-1 : writers(root, j) # {}} |->
              IF writers(root, i) = {} THEN votes[root][i] ELSE last_says(field, root, i)]]
  IN  [store EXCEPT
         !.payload_timeliness_vote = write("payload_present", @),
         !.payload_data_availability_vote = write("blob_data_available", @)]

on_payload_attestation_message(store, message) == record_ptc_votes(store, <<message>>)

(* The body's votes; the post-state is at slot 0 only in a genesis block. *)
notify_ptc_messages_accepts(store, state, messages) ==
  state.slot = 0 \/ \A k \in DOMAIN messages :
    on_payload_attestation_message_accepts(store, messages[k], TRUE)

notify_ptc_messages(store, state, messages) ==
  IF state.slot = 0 THEN store
  ELSE record_ptc_votes(store, messages)

-----------------------------------------------------------------------------
(* on_block. *)

compute_shuffling_dependent_slot(epoch) ==
  saturating_sub(
    compute_start_slot_at_epoch(saturating_sub(epoch, MIN_SEED_LOOKAHEAD)), 1)

get_shuffling_dependent_root(store, root, epoch) ==
  get_ancestor(store, NewNode(root, PENDING),
               compute_shuffling_dependent_slot(epoch)).root

record_block_timeliness(store, root) ==
  LET time_into_slot_ms == (store.time * 1000) % SLOT_DURATION_MS
      in_time(threshold) ==
        /\ get_current_slot(store) = store.blocks[root].slot
        /\ time_into_slot_ms < threshold
  IN  [store EXCEPT !.block_timeliness =
         put(@, root, [attestation |-> in_time(get_attestation_due_ms),
                       ptc |-> in_time(get_payload_attestation_due_ms)])]

(* Mutant: a late block is boosted. *)
update_proposer_boost_root_late(store, head, root) ==
  IF store.proposer_boost_root = NoRoot
  THEN [store EXCEPT !.proposer_boost_root = root] ELSE store

(* Mutant: a later timely block takes the boost over. *)
update_proposer_boost_root_last(store, head, root) ==
  IF timeliness(store, root).attestation
  THEN [store EXCEPT !.proposer_boost_root = root] ELSE store

(* Mutant: no boost when the dependent root is a block the store lacks. *)
update_proposer_boost_root_known(store, head, root) ==
  LET dependent(r) == get_shuffling_dependent_root(store, r, get_current_store_epoch(store))
  IN  IF /\ timeliness(store, root).attestation
         /\ store.proposer_boost_root = NoRoot
         /\ dependent(root) \in DOMAIN store.blocks
         /\ dependent(head) = dependent(root)
      THEN [store EXCEPT !.proposer_boost_root = root] ELSE store

update_proposer_boost_root(store, head, root) ==
  LET epoch == get_current_store_epoch(store)
  IN  IF /\ timeliness(store, root).attestation
         /\ store.proposer_boost_root = NoRoot
         /\ get_shuffling_dependent_root(store, head, epoch)
              = get_shuffling_dependent_root(store, root, epoch)
      THEN [store EXCEPT !.proposer_boost_root = root] ELSE store

(* Mutant: a block of an earlier epoch waits for the next epoch too. *)
compute_pulled_up_tip_without_realizing(store, root) ==
  LET state == process_justification_and_finalization(store.block_states[root])
  IN  update_unrealized_checkpoints(
        [store EXCEPT !.unrealized_justifications =
           put(@, root, state.current_justified_checkpoint)],
        state.current_justified_checkpoint, state.finalized_checkpoint)

compute_pulled_up_tip(store, root) ==
  LET state == process_justification_and_finalization(store.block_states[root])
      pulled ==
        update_unrealized_checkpoints(
          [store EXCEPT !.unrealized_justifications =
             put(@, root, state.current_justified_checkpoint)],
          state.current_justified_checkpoint, state.finalized_checkpoint)
  IN  IF compute_epoch_at_slot(store.blocks[root].slot) < get_current_store_epoch(store)
      THEN update_checkpoints(pulled, state.current_justified_checkpoint,
                              state.finalized_checkpoint)
      ELSE pulled

post_state(store, signed_block) ==
  state_transition(block_state(store, signed_block.message.parent_root), signed_block)

(* Mutant: one of the two vote lists is not set up. *)
insert_block_with_one_list(store, signed_block) ==
  LET root == signed_block.root
  IN  [store EXCEPT
         !.blocks = put(@, root, signed_block.message),
         !.block_states = put(@, root, post_state(store, signed_block)),
         !.payload_timeliness_vote = put(@, root, EmptyDict)]

(* The store with the block, its state and its empty vote lists added. *)
insert_block(store, signed_block) ==
  LET root == signed_block.root
  IN  [store EXCEPT
         !.blocks = put(@, root, signed_block.message),
         !.block_states = put(@, root, post_state(store, signed_block)),
         !.payload_timeliness_vote = put(@, root, EmptyDict),
         !.payload_data_availability_vote = put(@, root, EmptyDict)]

(* What on_block asserts of a block it does not know yet. *)
on_block_asserts(store, signed_block) ==
  LET block == signed_block.message
      finalized == store.finalized_checkpoint
  IN  /\ block.parent_root \in DOMAIN store.blocks
      /\ is_parent_node_full(store, block)
           => is_payload_verified(store, block.parent_root)
      /\ get_current_slot(store) >= block.slot
      /\ block.slot > compute_start_slot_at_epoch(finalized.epoch)
      /\ finalized.root = get_checkpoint_block(store, block.parent_root, finalized.epoch)
      /\ post_state(store, signed_block) # InvalidTransition
      /\ notify_ptc_messages_accepts(insert_block(store, signed_block),
           post_state(store, signed_block), block.payload_attestations)

(* Mutant: a known block is imported again. *)
on_block_accepts_again(store, signed_block) == on_block_asserts(store, signed_block)

on_block_accepts(store, signed_block) ==
  /\ signed_block.root \notin DOMAIN store.blocks
  /\ on_block_asserts(store, signed_block)

(* The import of a block, with the head of the store before it.            *)
import_block(store, signed_block, head) ==
  LET root == signed_block.root
      state == post_state(store, signed_block)
      notified == notify_ptc_messages(insert_block(store, signed_block), state,
                                      signed_block.message.payload_attestations)
      boosted == update_proposer_boost_root(record_block_timeliness(notified, root),
                                            head.root, root)
      updated == update_checkpoints(boosted, state.current_justified_checkpoint,
                                    state.finalized_checkpoint)
  IN  compute_pulled_up_tip(updated, root)

on_block(store, signed_block) == import_block(store, signed_block, get_head(store))

-----------------------------------------------------------------------------
(* on_attestation. *)

validate_target_epoch_against_current_time(store, attestation) ==
  attestation.data.target.epoch \in
    {get_current_store_epoch(store), saturating_sub(get_current_store_epoch(store), 1)}

(* Mutant: a vote counts in its own slot. *)
slot_has_begun(store, slot) == get_current_slot(store) >= slot

(* Mutant: a vote counts one slot too late. *)
slot_is_long_over(store, slot) == get_current_slot(store) > slot + 1

slot_is_over(store, slot) == get_current_slot(store) >= slot + 1

validate_on_attestation(store, attestation, is_from_block) ==
  LET data == attestation.data
      head_slot == block_slot(store, data.beacon_block_root)
  IN  /\ is_from_block \/ validate_target_epoch_against_current_time(store, attestation)
      /\ data.target.epoch = compute_epoch_at_slot(data.slot)
      /\ data.target.root \in DOMAIN store.blocks
      /\ data.beacon_block_root \in DOMAIN store.blocks
      /\ head_slot <= data.slot
      /\ data.index \in {0, 1}
      /\ head_slot = data.slot => data.index = 0
      /\ data.index = 1 => is_payload_verified(store, data.beacon_block_root)
      /\ data.target.root
           = get_checkpoint_block(store, data.beacon_block_root, data.target.epoch)
      /\ slot_is_over(store, data.slot)

store_target_checkpoint_state(store, target) ==
  LET base == block_state(store, target.root)
      start == compute_start_slot_at_epoch(target.epoch)
      state == IF base.slot < start THEN process_slots(base, start) ELSE base
  IN  IF target \in DOMAIN store.checkpoint_states THEN store
      ELSE [store EXCEPT !.checkpoint_states = put(@, target, state)]

(* Mutant: a second vote of the same slot replaces the first. *)
is_not_older_vote(store, i, slot) ==
  i \in DOMAIN store.latest_messages => slot >= store.latest_messages[i].slot

is_newer_vote(store, i, slot) ==
  i \in DOMAIN store.latest_messages => slot > store.latest_messages[i].slot

update_latest_messages(store, attestation) ==
  LET data == attestation.data
      newer == {i \in attestation.attesting_indices \ store.equivocating_indices :
                  is_newer_vote(store, i, data.slot)}
      message == [slot |-> data.slot, root |-> data.beacon_block_root,
                  payload_present |-> data.index = 1]
  IN  [store EXCEPT !.latest_messages =
         [i \in DOMAIN @ \cup newer |-> IF i \in newer THEN message ELSE @[i]]]

on_attestation_accepts(store, attestation, is_from_block) ==
  /\ validate_on_attestation(store, attestation, is_from_block)
  /\ LET target == attestation.data.target
     IN  is_valid_indexed_attestation(
           checkpoint_state(store_target_checkpoint_state(store, target), target),
           attestation)

on_attestation(store, attestation) ==
  update_latest_messages(
    store_target_checkpoint_state(store, attestation.data.target), attestation)

-----------------------------------------------------------------------------
(* The other handlers. *)

on_attester_slashing_accepts(store, slashing) ==
  LET state == block_state(store, store.justified_checkpoint.root)
  IN  /\ is_slashable_attestation_data(slashing.attestation_1.data,
                                       slashing.attestation_2.data)
      /\ is_valid_indexed_attestation(state, slashing.attestation_1)
      /\ is_valid_indexed_attestation(state, slashing.attestation_2)

on_attester_slashing(store, slashing) ==
  [store EXCEPT !.equivocating_indices =
     @ \cup (slashing.attestation_1.attesting_indices
               \cap slashing.attestation_2.attesting_indices)]

(* Data availability and the engine's verdict are the caller's choice. *)
on_execution_payload_envelope_accepts(store, root) == root \in DOMAIN store.blocks

on_execution_payload_envelope(store, root) == [store EXCEPT !.payloads = @ \cup {root}]

-----------------------------------------------------------------------------
(* The store of a trusted anchor. *)

get_forkchoice_store(anchor_state, anchor_block) ==
  LET root == anchor_block.root
      only(key, value) == put(EmptyDict, key, value)
      checkpoint == [epoch |-> get_current_epoch(anchor_state), root |-> root]
  IN  [time |-> (SLOT_DURATION_MS * anchor_state.slot) \div 1000,
       justified_checkpoint |-> checkpoint,
       finalized_checkpoint |-> checkpoint,
       unrealized_justified_checkpoint |-> checkpoint,
       unrealized_finalized_checkpoint |-> checkpoint,
       proposer_boost_root |-> NoRoot,
       equivocating_indices |-> {},
       blocks |-> only(root, anchor_block.message),
       block_states |-> only(root, anchor_state),
       block_timeliness |-> only(root, [attestation |-> TRUE, ptc |-> TRUE]),
       checkpoint_states |-> only(checkpoint, anchor_state),
       latest_messages |-> EmptyDict,
       unrealized_justifications |-> only(root, checkpoint),
       payloads |-> {},
       payload_timeliness_vote |-> only(root, EmptyDict),
       payload_data_availability_vote |-> only(root, EmptyDict)]
=============================================================================
