--------------------------- MODULE PayloadFixture ---------------------------
(***************************************************************************)
(* The fixture of the executions: an epoch of 32 slots with 100 validators *)
(* each, an anchor in slot 0, one or two children of it, and external      *)
(* functions that justify nothing.  Validators that act alike are one      *)
(* validator here, named by the first of their indices.                    *)
(***************************************************************************)
EXTENDS Execution

UNIT == 100    \* the balance of a validator
ANCHOR == 1
BLOCK == 2
SIBLING == 3

fixture_checkpoint == [epoch |-> 0, root |-> ANCHOR]

(* A child of the anchor; parent_block_hash 1001 selects its payload.      *)
fixture_block(root, slot, parent_block_hash) ==
  [root |-> root,
   message |-> [slot |-> slot, parent_root |-> IF root = ANCHOR THEN 0 ELSE ANCHOR,
                proposer_index |-> 100 * slot, parent_block_hash |-> parent_block_hash,
                block_hash |-> 1000 + root, body |-> "none", payload_attestations |-> <<>>]]

attestation_data(slot, root, index) ==
  [slot |-> slot, index |-> index, beacon_block_root |-> root,
   source |-> fixture_checkpoint, target |-> fixture_checkpoint]

(* The external functions of the fixture, totalized as the scripts do.     *)
FixtureTransition(state, signed_block) ==
  IF state.slot < signed_block.message.slot
  THEN [state EXCEPT !.slot = signed_block.message.slot] ELSE InvalidTransition

FixtureProcessSlots(state, slot) ==
  IF state.slot < slot THEN [state EXCEPT !.slot = slot] ELSE state

FixtureIsValidAttestation(state, attestation) ==
  /\ state.validators = ValidatorIndex
  /\ attestation.attesting_indices # {}
  /\ attestation.attesting_indices \subseteq get_beacon_committee(attestation.data.slot)

FixtureCommittee(slot) == {i \in ValidatorIndex : i \div 100 = slot}

fixture_state ==
  [slot |-> 0, validators |-> ValidatorIndex,
   current_justified_checkpoint |-> fixture_checkpoint,
   finalized_checkpoint |-> fixture_checkpoint, ffg |-> DefaultFFG]

initial_store == get_forkchoice_store(fixture_state, fixture_block(ANCHOR, 0, 0))
=============================================================================
