---------------------------- MODULE ConcreteBridge ----------------------------
(***************************************************************************)
(* The beacon functions of the fork choice run by the concrete transition: *)
(* a state the store keeps is the part of a concrete state that the fork   *)
(* choice reads, together with that concrete state (field ffg), and a      *)
(* block carries the concrete block it commits to (field body).            *)
(***************************************************************************)
EXTENDS Handlers

CONSTANTS
  SLOTS_PER_HISTORICAL_ROOT,
  MIN_ATTESTATION_INCLUSION_DELAY,
  MAX_COMMITTEES_PER_SLOT,
  MAX_VALIDATORS_PER_COMMITTEE,
  MAX_ATTESTATIONS,
  MAX_BLS_TO_EXECUTION_CHANGES,
  MAX_PAYLOAD_ATTESTATIONS,
  UINT64_MAX,
  committee_count(_),
  committee_members(_, _),
  oracle_accepts(_, _, _)

T == INSTANCE FFGTransition

project(state) ==
  [slot |-> state.slot,
   validators |-> DOMAIN state.validators,
   current_justified_checkpoint |-> state.current_justified_checkpoint,
   finalized_checkpoint |-> state.finalized_checkpoint,
   ffg |-> state]

(* The concrete state a projected state commits to. *)
decode(state) == state.ffg

indexed(attestation) ==
  [attesting_indices |-> T!get_attesting_indices(attestation), data |-> attestation.data]

MessageMatches(message, wire) ==
  /\ message.slot = wire.slot
  /\ message.parent_root = wire.parent_root
  /\ message.proposer_index = wire.proposer_index
  /\ message.parent_block_hash = wire.parent_block_hash
  /\ message.block_hash = wire.block_hash

(* What the total functions return where the concrete one raises. *)
fallbackPJF(state) ==
  IF state.current_justified_checkpoint.epoch <= get_current_epoch(state) THEN state
  ELSE [state EXCEPT !.current_justified_checkpoint.epoch = GENESIS_EPOCH]

pjf(state) ==
  LET result == T!ffg_process_justification_and_finalization(decode(state))
  IN  IF result.ok THEN project(result.value) ELSE fallbackPJF(state)

fallbackSlots(state, target) ==
  [state EXCEPT
     !.slot = target,
     !.current_justified_checkpoint =
       IF get_current_epoch(state) < compute_epoch_at_slot(target)
       THEN pjf(state).current_justified_checkpoint ELSE @]

slots(state, target) ==
  LET result == T!ffg_process_slots(decode(state), target)
  IN  IF result.ok THEN project(result.value) ELSE fallbackSlots(state, target)

transition(state, signed_block) ==
  LET wire == signed_block.message.body
      result == T!ffg_state_transition(decode(state), wire)
  IN  IF /\ wire.root = signed_block.root
         /\ MessageMatches(signed_block.message, wire)
         /\ result.ok
      THEN project(result.value) ELSE InvalidTransition

indexed_structure(state, attestation) ==
  /\ attestation.attesting_indices # {}
  /\ Cardinality(attestation.attesting_indices)
       <= MAX_VALIDATORS_PER_COMMITTEE * MAX_COMMITTEES_PER_SLOT
  /\ attestation.attesting_indices \subseteq state.validators
=============================================================================
