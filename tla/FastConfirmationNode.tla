------------------------ MODULE FastConfirmationNode ------------------------
(***************************************************************************)
(* One node that runs the Fast Confirmation Rule beside its fork-choice    *)
(* store.  A second begins with on_tick, then the messages of that second  *)
(* are handled, and when the second is the first of a slot it ends with    *)
(* on_fast_confirmation: once per slot, after the votes of past slots that *)
(* arrived with the slot's first second.                                   *)
(***************************************************************************)
EXTENDS ForkChoiceStore, FastConfirmation

CONSTANT VERIFICATION_HORIZON   \* slots of earlier epochs are in scope

HorizonSlots == 0..VERIFICATION_HORIZON * SLOTS_PER_EPOCH - 1

committee_weight(start_slot, end_slot) ==
  balance_of(get_slot_committees(start_slot, end_slot))

(* The execution in scope lies below the horizon, its clock and the states *)
(* it holds, and there the validator set is static: every state has the    *)
(* anchor's registry, and no validator is activated or exits.              *)
ASSUME HorizonAssumption ==
  /\ VERIFICATION_HORIZON \in Nat
  /\ \A time \in TickTimes \cup {get_forkchoice_store(ANCHOR_STATE, ANCHOR_BLOCK).time} :
       slot_at(time) \in HorizonSlots
  /\ \A state \in BeaconStates :
       /\ state.slot \in HorizonSlots
       /\ state.validators = ANCHOR_STATE.validators
  /\ \A i \in ValidatorIndex, slot, other \in HorizonSlots :
       is_active_validator(REGISTRY[i], compute_epoch_at_slot(slot))
         <=> is_active_validator(REGISTRY[i], compute_epoch_at_slot(other))

(* The committees: one slot per validator and epoch, every active          *)
(* validator, weights that the estimate bounds on every span of slots.     *)
ASSUME CommitteeAssumption ==
  /\ \A slot \in HorizonSlots :
       /\ get_beacon_committee(slot) \subseteq ValidatorIndex
       /\ \A i \in get_beacon_committee(slot) :
            is_active_validator(REGISTRY[i], compute_epoch_at_slot(slot))
       /\ \A other \in HorizonSlots :
            /\ compute_epoch_at_slot(slot) = compute_epoch_at_slot(other)
            /\ get_beacon_committee(slot) \cap get_beacon_committee(other) # {}
            => slot = other
  /\ \A epoch \in 0..VERIFICATION_HORIZON - 1, i \in ValidatorIndex :
       is_active_validator(REGISTRY[i], epoch) =>
         \E slot \in HorizonSlots : /\ compute_epoch_at_slot(slot) = epoch
                                    /\ i \in get_beacon_committee(slot)
  /\ \A start, end \in HorizonSlots :
       committee_weight(start, end)
         <= estimate_committee_weight_between_slots(
              get_total_active_balance(ANCHOR_STATE), start, end)

(* A valid attestation names members of its slot's committee.              *)
ASSUME ConfinementAssumption ==
  \A state \in BeaconStates, attestation \in ATTESTATIONS :
    is_valid_indexed_attestation(state, attestation) =>
      attestation.attesting_indices \subseteq get_beacon_committee(attestation.data.slot)

(* What process_execution_payload_bid checks: a block is bid on the latest *)
(* execution block of its parent's state, which is its parent's own one    *)
(* after process_parent_execution_payload and otherwise the one that the   *)
(* parent was bid on.                                                      *)
ASSUME BidAssumption ==
  \A signed_block \in SIGNED_BLOCKS, parent \in SIGNED_BLOCKS \cup {ANCHOR_BLOCK} :
    /\ signed_block.message.parent_root = parent.root
    /\ \E state \in states_after(parent.root) :
         state_transition(state, signed_block) # InvalidTransition
    => signed_block.message.parent_block_hash
         \in {parent.message.block_hash, parent.message.parent_block_hash}

VARIABLES
  fcr_store,      \* the FastConfirmationStore
  queried_time    \* the second that on_fast_confirmation ended last

rule_vars == <<fcr_store, queried_time>>
node_vars == <<store, tick_time, fcr_store, queried_time>>

(* Every root the rule keeps is that of a block in the store, so that none *)
(* of its reads falls on the default of an absent key.                     *)
RuleTypeOK ==
  /\ fcr_store \in FastConfirmationStore
  /\ {fcr_store.confirmed_root, fcr_store.previous_slot_head,
      fcr_store.current_slot_head} \subseteq known
  /\ queried_time \in Nat

NodeInit ==
  /\ Init
  /\ fcr_store = get_fast_confirmation_store(store)
  /\ queried_time = store.time

-----------------------------------------------------------------------------

(* The slot has advanced since the rule ran. *)
IsQueryDue == get_current_slot(store) > slot_at(queried_time)

TickSecond ==
  /\ ~IsQueryDue
  /\ store.time + 1 \in TickTimes
  /\ BeginTick(store.time + 1)
  /\ UNCHANGED rule_vars

FinishTick ==
  /\ CatchUp \/ EndTick
  /\ UNCHANGED rule_vars

(* A message of the current second, before the rule runs. *)
HandleMessage ==
  /\ store.time > queried_time
  /\ \/ \E signed_block \in SIGNED_BLOCKS : OnBlock(signed_block)
     \/ \E attestation \in ATTESTATIONS, is_from_block \in BOOLEAN :
          OnAttestation(attestation, is_from_block)
     \/ \E slashing \in SLASHINGS : OnAttesterSlashing(slashing)
     \/ \E root \in ENVELOPES : OnExecutionPayloadEnvelope(root)
     \/ \E message \in PTC_MESSAGES, is_from_block \in BOOLEAN :
          OnPayloadAttestationMessage(message, is_from_block)
  /\ UNCHANGED rule_vars

OnFastConfirmation ==
  /\ Idle
  /\ IsQueryDue
  /\ fcr_store' = on_fast_confirmation(store, fcr_store)
  /\ queried_time' = store.time
  /\ UNCHANGED vars

NodeNext == TickSecond \/ FinishTick \/ HandleMessage \/ OnFastConfirmation

NodeSpec == NodeInit /\ [][NodeNext]_node_vars

-----------------------------------------------------------------------------

(* The margin that makes a confirmed block safe: it outweighs every rival, *)
(* a sibling or its parent's other payload branch, by the boost a rival    *)
(* may get and by twice what the adversary may move from one to the other. *)
ConfirmedOutweighsRivals ==
  LET state == get_current_balance_source(store, fcr_store)
      score(node) == get_attestation_score(store, node, state)
      rivals(root) ==
        LET branch == parent_node(store, get_node_for_root(root))
        IN  {get_node_for_root(r) : r \in
               {r \in known \ {root} : parent_node(store, get_node_for_root(r)) = branch}}
            \cup {NewNode(branch.root, s) : s \in {EMPTY, FULL} \ {branch.payload_status}}
  IN  \A root \in known \ {ANCHOR_BLOCK.root} :
        is_one_confirmed(store, state, root) =>
          \A rival \in rivals(root) :
            score(get_node_for_root(root))
              > score(rival) + compute_proposer_score(state)
                  + 2 * get_adversarial_weight(store, state, root)

(* The execution block that the rule reports as safe is one whose payload  *)
(* this node has verified, or the one the anchor was built on.             *)
SafeExecutionBlockVerified ==
  LET hash == get_safe_execution_block_hash(store, fcr_store)
  IN  \/ hash = ANCHOR_BLOCK.message.parent_block_hash
      \/ \E root \in store.payloads : store.blocks[root].block_hash = hash

(* What the rule confirms is a block of the previous epoch or later on the *)
(* chain of the head it saw, or the finalized block it fell back to.       *)
ConfirmedIsCanonical ==
  [][queried_time' # queried_time =>
       LET root == fcr_store'.confirmed_root
       IN  \/ root = store.finalized_checkpoint.root
           \/ /\ descends(store, get_head(store).root, root)
              /\ get_block_epoch(store, root) + 1 >= get_current_store_epoch(store)]_node_vars

(* Between two epoch starts, as long as the head descends from it, the     *)
(* confirmed block is replaced only by one of its descendants.             *)
ConfirmedExtendsWithinEpoch ==
  [][/\ queried_time' # queried_time
     /\ ~at_epoch_start(store)
     /\ descends(store, get_head(store).root, fcr_store.confirmed_root)
     => descends(store, fcr_store'.confirmed_root, fcr_store.confirmed_root)]_node_vars

(* The observed checkpoints lag behind the fork choice: the rule observes  *)
(* a checkpoint only once the store has realized one as recent, and the    *)
(* three checkpoints it keeps stay in order.                               *)
ObservedNeverAheadOfJustified ==
  /\ fcr_store.previous_epoch_observed_justified_checkpoint.epoch
       <= fcr_store.current_epoch_observed_justified_checkpoint.epoch
  /\ fcr_store.current_epoch_observed_justified_checkpoint.epoch
       <= fcr_store.previous_epoch_greatest_unrealized_checkpoint.epoch
  /\ fcr_store.current_epoch_observed_justified_checkpoint.epoch
       <= store.justified_checkpoint.epoch
  /\ fcr_store.previous_epoch_greatest_unrealized_checkpoint.epoch
       <= store.unrealized_justified_checkpoint.epoch

(* When no vote has prepared the state of the observed checkpoint, there   *)
(* are no balances to weigh votes with, and the rule confirms nothing new. *)
NoBalancesNoConfirmation ==
  [][LET observed == fcr_store'.current_epoch_observed_justified_checkpoint
     IN  queried_time' # queried_time /\ observed \notin DOMAIN store.checkpoint_states
         => fcr_store'.confirmed_root \in
              {fcr_store.confirmed_root, store.finalized_checkpoint.root,
               observed.root}]_node_vars
=============================================================================
