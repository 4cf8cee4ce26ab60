----------------------------- MODULE ForkChoice -----------------------------
(***************************************************************************)
(* The Gloas fork-choice store and the functions that read it, from the    *)
(* ancestor walk to get_head.  Nothing here changes a store.               *)
(*                                                                         *)
(* A store is a record.  Its dictionaries are partial functions; a read at *)
(* a missing key goes through an operator that returns the default value,  *)
(* as the code's totalized maps do.  genesis_time is 0.                    *)
(***************************************************************************)
EXTENDS BeaconChain

EmptyDict == [key \in {} |-> {}]

put(dict, key, value) ==
  [k \in DOMAIN dict \cup {key} |-> IF k = key THEN value ELSE dict[k]]

Timeliness == [attestation : BOOLEAN, ptc : BOOLEAN]

(* The votes of a block's PTC: a partial function from its positions. *)
PtcVotes == UNION {[positions -> BOOLEAN] : positions \in SUBSET (0..PTC_SIZE-1)}

(* The records whose dictionaries have the keys they have in s. *)
StoreOver(s) ==
  [time : Nat,
   justified_checkpoint : Checkpoint,
   finalized_checkpoint : Checkpoint,
   unrealized_justified_checkpoint : Checkpoint,
   unrealized_finalized_checkpoint : Checkpoint,
   proposer_boost_root : Root \cup {NoRoot},
   equivocating_indices : SUBSET ValidatorIndex,
   blocks : [DOMAIN s.blocks -> BeaconBlock],
   block_states : [DOMAIN s.block_states -> BeaconStates],
   block_timeliness : [DOMAIN s.block_timeliness -> Timeliness],
   checkpoint_states : [DOMAIN s.checkpoint_states -> BeaconStates],
   latest_messages : [DOMAIN s.latest_messages -> LatestMessage],
   unrealized_justifications : [DOMAIN s.unrealized_justifications -> Checkpoint],
   payloads : SUBSET Root,
   payload_timeliness_vote : [DOMAIN s.payload_timeliness_vote -> PtcVotes],
   payload_data_availability_vote :
     [DOMAIN s.payload_data_availability_vote -> PtcVotes]]

(* The dictionaries that describe blocks all have the imported blocks as   *)
(* their keys.                                                             *)
KeysAgree(s) ==
  /\ DOMAIN s.block_states = DOMAIN s.blocks
  /\ DOMAIN s.block_timeliness = DOMAIN s.blocks
  /\ DOMAIN s.unrealized_justifications = DOMAIN s.blocks
  /\ DOMAIN s.payload_timeliness_vote = DOMAIN s.blocks
  /\ DOMAIN s.payload_data_availability_vote = DOMAIN s.blocks
  /\ s.payloads \subseteq DOMAIN s.blocks

IsStore(s) ==
  /\ s \in StoreOver(s)
  /\ DOMAIN s.blocks \subseteq Root
  /\ DOMAIN s.checkpoint_states \subseteq Checkpoint
  /\ DOMAIN s.latest_messages \subseteq ValidatorIndex
  /\ KeysAgree(s)

block_at(store, root) ==
  IF root \in DOMAIN store.blocks THEN store.blocks[root] ELSE DefaultBlock

block_slot(store, root) == block_at(store, root).slot

block_state(store, root) ==
  IF root \in DOMAIN store.block_states THEN store.block_states[root] ELSE DefaultState

checkpoint_state(store, checkpoint) ==
  IF checkpoint \in DOMAIN store.checkpoint_states
  THEN store.checkpoint_states[checkpoint] ELSE DefaultState

timeliness(store, root) ==
  IF root \in DOMAIN store.block_timeliness THEN store.block_timeliness[root]
  ELSE [attestation |-> FALSE, ptc |-> FALSE]

-----------------------------------------------------------------------------
(* Time. *)

slot_at(time) == GENESIS_SLOT + (time * 1000) \div SLOT_DURATION_MS

get_current_slot(store) == slot_at(store.time)

get_current_store_epoch(store) == compute_epoch_at_slot(get_current_slot(store))

compute_slots_since_epoch_start(slot) ==
  slot - compute_start_slot_at_epoch(compute_epoch_at_slot(slot))

get_slot_component_duration_ms(basis_points) ==
  (basis_points * SLOT_DURATION_MS) \div BASIS_POINTS

get_attestation_due_ms == get_slot_component_duration_ms(ATTESTATION_DUE_BPS)

get_payload_attestation_due_ms ==
  get_slot_component_duration_ms(PAYLOAD_ATTESTATION_DUE_BPS)

-----------------------------------------------------------------------------
(* Payloads. *)

(* Mutant: knowing the block is taken for having its payload. *)
is_block_known(store, root) == root \in DOMAIN store.blocks

is_payload_verified(store, root) == root \in store.payloads

(* Mutant: half of the committee is a majority. *)
has_ptc_half(votes, value) ==
  Cardinality({i \in DOMAIN votes : votes[i] = value}) >= PTC_SIZE \div 2

has_ptc_majority(votes, value) ==
  Cardinality({i \in DOMAIN votes : votes[i] = value}) > PTC_SIZE \div 2

payload_timeliness(store, root, timely) ==
  IF ~is_payload_verified(store, root) THEN ~timely
  ELSE has_ptc_majority(store.payload_timeliness_vote[root], timely)

payload_data_availability(store, root, available) ==
  IF ~is_payload_verified(store, root) THEN ~available
  ELSE has_ptc_majority(store.payload_data_availability_vote[root], available)

(* The bid of a block selects FULL when it builds on its parent's payload. *)
get_parent_payload_status(store, block) ==
  IF block.parent_block_hash = block_at(store, block.parent_root).block_hash
  THEN FULL ELSE EMPTY

is_parent_node_full(store, block) == get_parent_payload_status(store, block) = FULL

-----------------------------------------------------------------------------
(* Ancestry. *)

parent_node(store, node) ==
  LET block == block_at(store, node.root)
  IN  NewNode(block.parent_root, get_parent_payload_status(store, block))

get_ancestor(store, node, slot) ==
  LET walk[n \in ForkChoiceNode] ==
        IF block_slot(store, n.root) > slot THEN walk[parent_node(store, n)] ELSE n
  IN  walk[node]

(* Mutant: the payload branch is not compared. *)
is_ancestor_block(store, node, ancestor) ==
  get_ancestor(store, node, block_slot(store, ancestor.root)).root = ancestor.root

is_ancestor(store, node, ancestor) ==
  LET found == get_ancestor(store, node, block_slot(store, ancestor.root))
  IN  /\ found.root = ancestor.root
      /\ ancestor.payload_status \in {found.payload_status, PENDING}

get_checkpoint_block(store, root, epoch) ==
  get_ancestor(store, NewNode(root, PENDING), compute_start_slot_at_epoch(epoch)).root

(* Mutant: every later vote is taken for a vote for the payload. *)
get_supported_node_full(store, message) ==
  NewNode(message.root,
          IF block_slot(store, message.root) < message.slot THEN FULL ELSE PENDING)

get_supported_node(store, message) ==
  NewNode(message.root,
          IF block_slot(store, message.root) < message.slot
          THEN IF message.payload_present THEN FULL ELSE EMPTY
          ELSE PENDING)

-----------------------------------------------------------------------------
(* Weights. *)

get_attestation_score(store, node, state) ==
  balance_of({i \in get_active_validator_indices(state, get_current_epoch(state)) :
                /\ ~REGISTRY[i].slashed
                /\ i \in DOMAIN store.latest_messages
                /\ i \notin store.equivocating_indices
                /\ is_ancestor(store,
                     get_supported_node(store, store.latest_messages[i]), node)})

calculate_committee_fraction(state, percent) ==
  ((get_total_active_balance(state) \div SLOTS_PER_EPOCH) * percent) \div 100

compute_proposer_score(state) ==
  calculate_committee_fraction(state, PROPOSER_SCORE_BOOST)

justified_state(store) == checkpoint_state(store, store.justified_checkpoint)

get_proposer_score(store) == compute_proposer_score(justified_state(store))

(* Mutant: the decision is taken for the block of this slot. *)
is_current_slot_payload_decision(store, node) ==
  /\ block_slot(store, node.root) = get_current_slot(store)
  /\ node.payload_status \in {EMPTY, FULL}

is_previous_slot_payload_decision(store, node) ==
  /\ block_slot(store, node.root) + 1 = get_current_slot(store)
  /\ node.payload_status \in {EMPTY, FULL}

should_extend_payload(store, root) ==
  /\ is_payload_verified(store, root)
  /\ \/ /\ payload_timeliness(store, root, TRUE)
        /\ payload_data_availability(store, root, TRUE)
     \/ store.proposer_boost_root = NoRoot
     \/ block_at(store, store.proposer_boost_root).parent_root # root
     \/ is_parent_node_full(store, block_at(store, store.proposer_boost_root))

(* Mutant: the PTC is never asked. *)
get_payload_status_order(store, node) ==
  CASE node.payload_status = EMPTY -> 0
    [] node.payload_status = FULL -> 1
    [] node.payload_status = PENDING -> 2

get_payload_status_tiebreaker(store, node) ==
  IF is_previous_slot_payload_decision(store, node)
  THEN IF node.payload_status = EMPTY THEN 1
       ELSE IF should_extend_payload(store, node.root) THEN 2 ELSE 0
  ELSE CASE node.payload_status = EMPTY -> 0
         [] node.payload_status = FULL -> 1
         [] node.payload_status = PENDING -> 2

(* Equivocating members of the head's own slot committee count as weight. *)
is_head_weak(store, head_root) ==
  LET state == justified_state(store)
      equivocators ==
        get_beacon_committee(block_slot(store, head_root))
          \cap store.equivocating_indices \cap state.validators
  IN  get_attestation_score(store, NewNode(head_root, PENDING), state)
        + balance_of(equivocators)
      < calculate_committee_fraction(state, REORG_HEAD_WEIGHT_THRESHOLD)

(* Mutant: an equivocation counts by the attestation deadline. *)
should_apply_boost_by_attestation(store) ==
  /\ store.proposer_boost_root # NoRoot
  /\ LET block == block_at(store, store.proposer_boost_root)
         parent == block_at(store, block.parent_root)
     IN  \/ parent.slot + 1 < block.slot
         \/ ~is_head_weak(store, block.parent_root)
         \/ ~ \E root \in DOMAIN store.blocks \ {block.parent_root} :
                /\ timeliness(store, root).attestation
                /\ store.blocks[root].proposer_index = parent.proposer_index
                /\ store.blocks[root].slot + 1 = block.slot

(* A weak parent of the previous slot loses its child the boost when its   *)
(* proposer has an early equivocating block.                               *)
should_apply_proposer_boost(store) ==
  /\ store.proposer_boost_root # NoRoot
  /\ LET block == block_at(store, store.proposer_boost_root)
         parent == block_at(store, block.parent_root)
     IN  \/ parent.slot + 1 < block.slot
         \/ ~is_head_weak(store, block.parent_root)
         \/ ~ \E root \in DOMAIN store.blocks \ {block.parent_root} :
                /\ timeliness(store, root).ptc
                /\ store.blocks[root].proposer_index = parent.proposer_index
                /\ store.blocks[root].slot + 1 = block.slot

get_weight(store, node) ==
  IF is_previous_slot_payload_decision(store, node) THEN 0
  ELSE get_attestation_score(store, node, justified_state(store))
       + (IF /\ should_apply_proposer_boost(store)
             /\ is_ancestor(store, NewNode(store.proposer_boost_root, PENDING), node)
          THEN get_proposer_score(store) ELSE 0)

-----------------------------------------------------------------------------
(* The filtered tree and the head. *)

(* Mutant: a block of an earlier epoch keeps its own state's checkpoint. *)
get_voting_source_realized(store, root) == block_state(store, root).current_justified_checkpoint

get_voting_source(store, root) ==
  IF get_current_store_epoch(store) > compute_epoch_at_slot(block_slot(store, root))
  THEN store.unrealized_justifications[root]
  ELSE block_state(store, root).current_justified_checkpoint

(* Mutant: a leaf off the finalized block is viable. *)
is_viable_leaf_anywhere(store, root) ==
  \/ store.justified_checkpoint.epoch = GENESIS_EPOCH
  \/ get_voting_source(store, root).epoch = store.justified_checkpoint.epoch
  \/ get_voting_source(store, root).epoch + 2 >= get_current_store_epoch(store)

(* Mutant: a voting source lasts an epoch longer. *)
is_viable_leaf_late(store, root) ==
  /\ \/ store.justified_checkpoint.epoch = GENESIS_EPOCH
     \/ get_voting_source(store, root).epoch + 3 >= get_current_store_epoch(store)
  /\ \/ store.finalized_checkpoint.epoch = GENESIS_EPOCH
     \/ store.finalized_checkpoint.root
          = get_checkpoint_block(store, root, store.finalized_checkpoint.epoch)

is_viable_leaf(store, root) ==
  /\ \/ store.justified_checkpoint.epoch = GENESIS_EPOCH
     \/ get_voting_source(store, root).epoch = store.justified_checkpoint.epoch
     \/ get_voting_source(store, root).epoch + 2 >= get_current_store_epoch(store)
  /\ \/ store.finalized_checkpoint.epoch = GENESIS_EPOCH
     \/ store.finalized_checkpoint.root
          = get_checkpoint_block(store, root, store.finalized_checkpoint.epoch)

children_of(store, root) ==
  {child \in DOMAIN store.blocks : store.blocks[child].parent_root = root}

(* filter_block_tree: a leaf is kept when it is viable, an inner block when *)
(* one of its children is.                                                  *)
get_filtered_block_tree(store) ==
  LET filter[root \in Root] ==
        LET children == children_of(store, root)
            kept == UNION {filter[child] : child \in children}
        IN  IF children = {}
            THEN IF is_viable_leaf(store, root) THEN {root} ELSE {}
            ELSE IF kept = {} THEN {} ELSE kept \cup {root}
  IN  filter[store.justified_checkpoint.root]

get_node_children(store, blocks, node) ==
  IF node.payload_status = PENDING
  THEN {NewNode(node.root, EMPTY)}
         \cup (IF is_payload_verified(store, node.root)
               THEN {NewNode(node.root, FULL)} ELSE {})
  ELSE {NewNode(root, PENDING) : root \in
          {r \in blocks : /\ store.blocks[r].parent_root = node.root
                          /\ get_parent_payload_status(store, store.blocks[r])
                               = node.payload_status}}

(* The order of the keys (weight, root, payload tie-breaker). *)
beats(store, a, b) ==
  LET wa == get_weight(store, a)
      wb == get_weight(store, b)
  IN  \/ wa > wb
      \/ wa = wb /\ a.root > b.root
      \/ /\ wa = wb /\ a.root = b.root
         /\ get_payload_status_tiebreaker(store, a)
              >= get_payload_status_tiebreaker(store, b)

get_head(store) ==
  LET blocks == get_filtered_block_tree(store)
      descend[node \in ForkChoiceNode] ==
        LET children == get_node_children(store, blocks, node)
        IN  IF children = {} THEN node
            ELSE descend[CHOOSE best \in children :
                           \A other \in children : beats(store, best, other)]
  IN  descend[NewNode(store.justified_checkpoint.root, PENDING)]
=============================================================================
