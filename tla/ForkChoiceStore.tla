--------------------------- MODULE ForkChoiceStore ---------------------------
(***************************************************************************)
(* One node's fork-choice store.  Wire messages reach it in any order, any *)
(* number of times or never; a message that its handler rejects leaves the *)
(* store unchanged, so a rejection is a stuttering step.                   *)
(*                                                                         *)
(* on_tick is a loop, and each iteration is a step here: tick_time is the  *)
(* argument of the call in progress, and equals store.time between calls.  *)
(* No other handler runs before the call returns.                          *)
(***************************************************************************)
EXTENDS Handlers

CONSTANTS
  ANCHOR_STATE, ANCHOR_BLOCK,   \* the trusted anchor
  SIGNED_BLOCKS,                \* what the network may deliver
  ATTESTATIONS,
  SLASHINGS,
  PTC_MESSAGES,
  ENVELOPES,                    \* the blocks whose payload is revealed
  TickTimes                     \* the times on_tick may be called with

CONSTANTS
  chain_of(_),      \* the blocks from the anchor to the block with this root
  states_after(_)   \* the states that the block with this root may have

ASSUME AnchorAssumption ==
  /\ ANCHOR_STATE \in BeaconStates
  /\ ANCHOR_BLOCK \in SignedBeaconBlock
  /\ ANCHOR_STATE.slot = ANCHOR_BLOCK.message.slot
  /\ ANCHOR_STATE.current_justified_checkpoint.epoch <= get_current_epoch(ANCHOR_STATE)
  /\ ANCHOR_STATE.finalized_checkpoint.epoch <= get_current_epoch(ANCHOR_STATE)
  /\ process_justification_and_finalization(ANCHOR_STATE).finalized_checkpoint.epoch
       <= get_current_epoch(ANCHOR_STATE)

(* A root commits to its block, so no block of a run has the root of the   *)
(* anchor's parent (WellFormedExecution.anchor_parent_unscheduled).        *)
ASSUME AnchorParentAssumption ==
  /\ ANCHOR_BLOCK.message.parent_root # ANCHOR_BLOCK.root
  /\ \A signed_block \in SIGNED_BLOCKS :
       signed_block.root # ANCHOR_BLOCK.message.parent_root

ASSUME MessagesAssumption ==
  /\ SIGNED_BLOCKS \subseteq SignedBeaconBlock
  /\ ATTESTATIONS \subseteq Attestation
  /\ SLASHINGS \subseteq AttesterSlashing
  /\ PTC_MESSAGES \subseteq PayloadAttestationMessage
  /\ ENVELOPES \subseteq Root
  /\ TickTimes \subseteq Nat

(* The contracts of the external functions on the states in scope.        *)
ASSUME ExternalsAssumption ==
  \A state \in BeaconStates :
    /\ state \in BeaconState
    /\ \A signed_block \in SIGNED_BLOCKS :
         LET post == state_transition(state, signed_block)
         IN  post # InvalidTransition =>
               /\ post \in BeaconStates
               /\ state.slot < post.slot
               /\ post.slot = signed_block.message.slot
    /\ \A attestation \in ATTESTATIONS :
         LET start == compute_start_slot_at_epoch(attestation.data.target.epoch)
         IN  state.slot < start => process_slots(state, start) \in BeaconStates
    /\ LET pulled_up == process_justification_and_finalization(state)
       IN  /\ pulled_up \in BeaconStates
           /\ pulled_up.current_justified_checkpoint.epoch
                >= state.current_justified_checkpoint.epoch
           /\ pulled_up.finalized_checkpoint.epoch >= state.finalized_checkpoint.epoch

(* What the states of accepted blocks say of justification and             *)
(* finalization (AcceptedBlockFFGState): a checkpoint that is newer than   *)
(* the anchor has its root on the chain of the block whose state names it. *)
ASSUME ChainAssumption ==
  /\ chain_of(ANCHOR_BLOCK.root) = {ANCHOR_BLOCK.root}
  /\ \A signed_block \in SIGNED_BLOCKS :
       chain_of(signed_block.root)
         = {signed_block.root} \cup chain_of(signed_block.message.parent_root)

ASSUME AcceptedStatesAssumption ==
  /\ ANCHOR_STATE \in states_after(ANCHOR_BLOCK.root)
  /\ \A signed_block \in SIGNED_BLOCKS :
       \A state \in states_after(signed_block.message.parent_root) :
         LET post == state_transition(state, signed_block)
         IN  post # InvalidTransition => post \in states_after(signed_block.root)
  /\ \A root \in Root : \A state \in states_after(root) :
       LET pulled_up == process_justification_and_finalization(state)
       IN  \A checkpoint \in {state.current_justified_checkpoint, state.finalized_checkpoint,
                             pulled_up.current_justified_checkpoint,
                             pulled_up.finalized_checkpoint} :
             \/ checkpoint.epoch <= get_current_epoch(ANCHOR_STATE)
             \/ checkpoint.root \in chain_of(root)

VARIABLES
  store,      \* the Store
  tick_time   \* the time of the on_tick call in progress

vars == <<store, tick_time>>

TypeOK ==
  /\ IsStore(store)
  /\ tick_time \in Nat

Init ==
  /\ store = get_forkchoice_store(ANCHOR_STATE, ANCHOR_BLOCK)
  /\ tick_time = store.time

Idle == tick_time = store.time

-----------------------------------------------------------------------------
(* on_tick(store, time). *)

BeginTick(time) ==
  /\ Idle
  /\ time > store.time
  /\ tick_time' = time
  /\ UNCHANGED store

(* Mutant: straight to the time of the call. *)
CatchUpAtOnce ==
  /\ get_current_slot(store) < slot_at(tick_time)
  /\ store' = on_tick_per_slot(store, tick_time)
  /\ UNCHANGED tick_time

CatchUp ==
  /\ get_current_slot(store) < slot_at(tick_time)
  /\ store' = on_tick_per_slot(store, next_slot_start(store))
  /\ UNCHANGED tick_time

EndTick ==
  /\ store.time < tick_time
  /\ get_current_slot(store) >= slot_at(tick_time)
  /\ store' = on_tick_per_slot(store, tick_time)
  /\ UNCHANGED tick_time

-----------------------------------------------------------------------------
(* The message handlers. *)

OnBlock(signed_block) ==
  /\ Idle
  /\ on_block_accepts(store, signed_block)
  /\ store' = on_block(store, signed_block)
  /\ UNCHANGED tick_time

OnAttestation(attestation, is_from_block) ==
  /\ Idle
  /\ on_attestation_accepts(store, attestation, is_from_block)
  /\ store' = on_attestation(store, attestation)
  /\ UNCHANGED tick_time

OnAttesterSlashing(slashing) ==
  /\ Idle
  /\ on_attester_slashing_accepts(store, slashing)
  /\ store' = on_attester_slashing(store, slashing)
  /\ UNCHANGED tick_time

OnExecutionPayloadEnvelope(root) ==
  /\ Idle
  /\ on_execution_payload_envelope_accepts(store, root)
  /\ store' = on_execution_payload_envelope(store, root)
  /\ UNCHANGED tick_time

OnPayloadAttestationMessage(message, is_from_block) ==
  /\ Idle
  /\ on_payload_attestation_message_accepts(store, message, is_from_block)
  /\ store' = on_payload_attestation_message(store, message)
  /\ UNCHANGED tick_time

Next ==
  \/ \E time \in TickTimes : BeginTick(time)
  \/ CatchUp
  \/ EndTick
  \/ \E signed_block \in SIGNED_BLOCKS : OnBlock(signed_block)
  \/ \E attestation \in ATTESTATIONS, is_from_block \in BOOLEAN :
       OnAttestation(attestation, is_from_block)
  \/ \E slashing \in SLASHINGS : OnAttesterSlashing(slashing)
  \/ \E root \in ENVELOPES : OnExecutionPayloadEnvelope(root)
  \/ \E message \in PTC_MESSAGES, is_from_block \in BOOLEAN :
       OnPayloadAttestationMessage(message, is_from_block)

Spec == Init /\ [][Next]_vars

(* The loop of on_tick runs to its end once the call was made. *)
FairSpec == Spec /\ WF_vars(CatchUp) /\ WF_vars(EndTick)

-----------------------------------------------------------------------------
(* Safety. *)

known == DOMAIN store.blocks

(* A leaf never votes from a checkpoint newer than the store's justified   *)
(* one: importing a block realizes its state's checkpoint, and its pulled- *)
(* up checkpoint is realized once its epoch is over, at import for a block *)
(* of an earlier epoch and otherwise by the tick that ends the epoch, even *)
(* when on_tick catches up over several slots.                             *)
VotingSourceNeverAhead ==
  \A root \in known :
    get_voting_source(store, root).epoch <= store.justified_checkpoint.epoch

(* Realized checkpoints never overtake the unrealized ones: every path     *)
(* that realizes a checkpoint has recorded it as unrealized first.         *)
RealizedNeverAheadOfUnrealized ==
  /\ store.justified_checkpoint.epoch <= store.unrealized_justified_checkpoint.epoch
  /\ store.finalized_checkpoint.epoch <= store.unrealized_finalized_checkpoint.epoch

(* The checkpoints of the store are replaced only by newer ones: no order  *)
(* of imports and ticks moves one back, or swaps it for another checkpoint *)
(* of the same epoch.                                                      *)
CheckpointsOnlyAdvance ==
  [][\A name \in {"justified_checkpoint", "finalized_checkpoint",
                  "unrealized_justified_checkpoint", "unrealized_finalized_checkpoint"} :
       store'[name] # store[name] => store'[name].epoch > store[name].epoch]_vars

(* What is recorded at a block's import is never rewritten, whatever is    *)
(* delivered again: its state, its timeliness and its pulled-up checkpoint,*)
(* and the PTC votes it collected are never lost.                          *)
ImportHappensOnce ==
  [][\A root \in known :
       /\ root \in known'
       /\ store'.block_states[root] = store.block_states[root]
       /\ store'.block_timeliness[root] = store.block_timeliness[root]
       /\ store'.unrealized_justifications[root] = store.unrealized_justifications[root]
       /\ DOMAIN store.payload_timeliness_vote[root]
            \subseteq DOMAIN store'.payload_timeliness_vote[root]]_vars

(* The boost is held by a block of the current slot that arrived before    *)
(* the attestation deadline; the tick into the next slot takes it away.    *)
BoostIsTimelyBlock ==
  LET root == store.proposer_boost_root
  IN  root # NoRoot => /\ root \in known
                       /\ store.blocks[root].slot = get_current_slot(store)
                       /\ store.block_timeliness[root].attestation

(* No later block takes the boost from the first timely one of the slot.   *)
BoostHeldForTheSlot ==
  [][/\ store.proposer_boost_root # NoRoot
     /\ store'.proposer_boost_root # store.proposer_boost_root
     => get_current_slot(store') > get_current_slot(store)]_vars

(* The steps of an on_tick call add up to the function on_tick, and it      *)
(* does not matter how often it is called: a call in between, at any        *)
(* second, changes nothing of what a later call leaves behind.              *)
TickIsPathIndependent ==
  /\ [][~Idle => on_tick(store', tick_time) = on_tick(store, tick_time)]_vars
  /\ [](Idle => \A time, later \in TickTimes :
          store.time <= time /\ time <= later
            => on_tick(on_tick(store, time), later) = on_tick(store, later))

(* A block that builds on its parent's payload is imported only after that *)
(* payload was verified, and payloads stay verified.                       *)
FullParentVerified ==
  \A root \in known \ {ANCHOR_BLOCK.root} :
    is_parent_node_full(store, store.blocks[root])
      => store.blocks[root].parent_root \in store.payloads

(* Weight reaches the FULL node of a block only after its payload was      *)
(* verified here: through a vote for FULL, which on_attestation checks, or *)
(* through a vote for a descendant, which on_block checks.                 *)
FullWeightNeedsPayload ==
  \A root \in known :
    get_attestation_score(store, NewNode(root, FULL), justified_state(store)) > 0
      => root \in store.payloads

(* Both together: neither a block nor a vote reaches the FULL node of a     *)
(* block whose payload this node has not verified, in any order of the      *)
(* block, its payload and the votes.                                        *)
FullBranchesVerified == FullParentVerified /\ FullWeightNeedsPayload

(* A counted vote is for a known block not younger than the vote, the vote *)
(* is from a past slot, and it says FULL only for an older block.          *)
LatestMessagesSound ==
  \A i \in DOMAIN store.latest_messages :
    LET message == store.latest_messages[i]
    IN  /\ message.root \in known
        /\ block_slot(store, message.root) <= message.slot
        /\ message.slot < get_current_slot(store)
        /\ message.payload_present => /\ block_slot(store, message.root) < message.slot
                                      /\ message.root \in store.payloads

(* A vote is replaced only by one of a later slot of the same validator,   *)
(* whatever order votes arrive in, and never once the validator was caught *)
(* equivocating, which is never forgotten.                                 *)
LatestMessagesOnlyMoveForward ==
  [][/\ store.equivocating_indices \subseteq store'.equivocating_indices
     /\ \A i \in DOMAIN store.latest_messages :
          /\ i \in DOMAIN store'.latest_messages
          /\ store'.latest_messages[i] # store.latest_messages[i] =>
               /\ store'.latest_messages[i].slot > store.latest_messages[i].slot
               /\ i \notin store.equivocating_indices]_vars

(* Each vote weighs on one branch: a block's children and its two payload  *)
(* nodes never weigh more than the block they extend.                      *)
WeightsSplitAtForks ==
  LET score(node) == get_attestation_score(store, node, justified_state(store))
      children(node) == {NewNode(root, PENDING) : root \in
        {r \in known : parent_node(store, NewNode(r, PENDING)) = node}}
  IN  \A root \in known :
        /\ score(NewNode(root, EMPTY)) + score(NewNode(root, FULL))
             <= score(NewNode(root, PENDING))
        /\ \A status \in {EMPTY, FULL} :
             MapThenSumSet(score, children(NewNode(root, status)))
               <= score(NewNode(root, status))

(* The head descends from the justified block, and unless it is that block *)
(* also from the finalized one.                                            *)
HeadExtendsCheckpoints ==
  LET head == get_head(store)
      justified == store.justified_checkpoint
      finalized == store.finalized_checkpoint
  IN  /\ head.root \in known
      /\ is_ancestor(store, head, NewNode(justified.root, PENDING))
      /\ \/ head.root = justified.root
         \/ finalized.epoch = GENESIS_EPOCH
         \/ get_checkpoint_block(store, head.root, finalized.epoch) = finalized.root

(* A PTC member's two votes are recorded together, at all of its positions,*)
(* so both majorities are taken over the same voters.                      *)
PtcVotesPaired ==
  \A root \in known :
    LET slot == store.blocks[root].slot
        timely == store.payload_timeliness_vote[root]
        available == store.payload_data_availability_vote[root]
    IN  /\ DOMAIN timely = DOMAIN available
        /\ \A i \in DOMAIN timely : \A j \in 0..Len(get_ptc(slot))-1 :
             get_ptc(slot)[j + 1] = get_ptc(slot)[i + 1] =>
               /\ j \in DOMAIN timely
               /\ timely[i] = timely[j]
               /\ available[i] = available[j]

-----------------------------------------------------------------------------
(* Liveness. *)

(* on_tick returns: every iteration of its loop moves the clock on, and    *)
(* the clock reaches the time of the call.                                 *)
TickCompletes == \A time \in TickTimes : tick_time = time ~> store.time >= time
=============================================================================
