------------------------------ MODULE MCFixture ------------------------------
(***************************************************************************)
(* Values that the executions' instances share: the registry of a table of *)
(* cohorts, and the parts of the fixture that no execution reads.          *)
(***************************************************************************)
EXTENDS PayloadFixture

cohort_registry(size) ==
  [i \in DOMAIN size |->
     [effective_balance |-> size[i] * UNIT, slashed |-> FALSE,
      activation_epoch |-> 0, exit_epoch |-> 1000]]

(* A hundred in every slot up to the last; the rest of the epoch as one.   *)
rest_of(slot) == 100 * (32 - slot)

FixtureDefaultBlock ==
  [slot |-> 0, parent_root |-> 0, proposer_index |-> 0, parent_block_hash |-> 0,
   block_hash |-> 0, body |-> "none", payload_attestations |-> <<>>]

FixturePullUp(state) == state
FixturePtc(slot) == <<>>
FixtureIsValidPtc(message) == TRUE
FixtureStates == {[fixture_state EXCEPT !.slot = slot] : slot \in 0..31}


(* The slots whose committee is not the rest of the epoch. *)
ModelledSlots == {slot \in 1..31 : balance_of(get_beacon_committee(slot)) = 100 * UNIT}

ASSUME ByzantineBoundAssumption ==
  \A s \in DOMAIN SETTINGS : ByzantineBound(SETTINGS[s].owner, ModelledSlots)
=============================================================================
