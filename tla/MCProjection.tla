---------------------------- MODULE MCProjection ----------------------------
(***************************************************************************)
(* Small instances of the projection check: two committees of one          *)
(* validator per slot, so that an epoch's votes are all the validators'.   *)
(***************************************************************************)
EXTENDS ProjectionLaws

MCRegistry ==
  [i \in 1..2*E |->
     [effective_balance |-> 32, slashed |-> FALSE,
      activation_epoch |-> 0, exit_epoch |-> 1000]]

MCRoot == 0..6*E+1
MCValidators == 1..2*E

MCDefaultBlock == [genesis_block.message EXCEPT !.proposer_index = 1]

MCCommitteeCount(e) == 2
MCCommittee(slot, index) == IF index > 1 THEN <<>> ELSE <<1 + 2 * (slot % E) + index>>
MCBeaconCommittee(slot) == {1 + 2 * (slot % E), 2 + 2 * (slot % E)}
MCOracle(at_slot, block, result) == TRUE
MCPtc(slot) == <<1>>
MCValidPayload(message) == TRUE

MCStateTransition(state, signed_block) == transition(state, signed_block)
MCProcessSlots(state, target) == slots(state, target)
MCPjf(state) == pjf(state)
MCValidAttestation(state, attestation) == indexed_structure(state, attestation)

MCGenesis ==
  LET zero == [epoch |-> 0, root |-> 0]
      no_flags == [i \in 1..2*E |-> {}]
  IN  [slot |-> 0, validators |-> MCRegistry,
       justification_bits |-> <<FALSE, FALSE, FALSE, FALSE>>,
       previous_justified_checkpoint |-> zero,
       current_justified_checkpoint |-> zero,
       finalized_checkpoint |-> zero,
       previous_epoch_participation |-> no_flags,
       current_epoch_participation |-> no_flags,
       block_roots |-> CHOOSE ring \in [T!Ring -> {0}] : TRUE,
       latest_block_header |-> [slot |-> 0, proposer_index |-> 1, parent_root |-> 0, root |-> 1],
       execution_payload_availability |-> CHOOSE ring \in [T!Ring -> {FALSE}] : TRUE,
       latest_block_hash |-> 0, latest_bid_block_hash |-> 0]

-----------------------------------------------------------------------------
(* The block of a plan, as the test helpers build it on the parent's state. *)

root_at(state, slot) ==
  IF slot >= state.slot THEN state.latest_block_header.root
  ELSE state.block_roots[slot % SLOTS_PER_HISTORICAL_ROOT]

body_vote(parent, at, v) ==
  LET e == compute_epoch_at_slot(v.slot)
      in_committees == [index \in 0..1 |-> index \in v.committees]
      bits == SelectSeq(<<0, 1>>, LAMBDA index : index \in v.committees)
  IN  [aggregation_bits |-> [k \in DOMAIN bits |-> TRUE],
       committee_bits |-> <<in_committees[0], in_committees[1]>>,
       data |-> [slot |-> v.slot, index |-> v.index,
                 beacon_block_root |-> root_at(at, v.slot),
                 source |-> T!justified_for(at, e),
                 target |-> [epoch |-> e, root |-> root_at(at, e * E)]]]

MCBuild(r, p) ==
  LET parent == state_of(r, p.parent).ffg
      at == T!ffg_process_slots(parent, p.slot).value
      ordered == SetToSortSeq(p.votes, LAMBDA a, b : a.slot < b.slot)
      block == [slot |-> p.slot, parent_root |-> p.parent, proposer_index |-> 1,
                root |-> p.root, parent_block_hash |-> 99, block_hash |-> p.root,
                parent_requests_empty |-> TRUE, parent_requests_match |-> FALSE,
                deposit_count |-> 0, registry_operations |-> {},
                bls_to_execution_change_count |-> 0, payload_attestation_count |-> 0,
                attestations |-> [k \in DOMAIN ordered |-> body_vote(parent, at, ordered[k])]]
  IN  [root |-> p.root,
       message |-> [slot |-> p.slot, parent_root |-> p.parent, proposer_index |-> 1,
                    parent_block_hash |-> 99, block_hash |-> p.root, body |-> block,
                    payload_attestations |-> <<>>]]

(* A vote of a slot without a block may be for the payload of the last one, *)
(* which the store of a run never sees.                                    *)
for_payloads(r, parent, votes) ==
  LET with_block == {slot_of(r, root) : root \in chain(r, parent)}
  IN  {[v EXCEPT !.index = IF v.slot \in with_block THEN 0 ELSE 1] : v \in votes}

(* A free run: the next block one or two slots after the last, on the last *)
(* block or its parent, with no votes or all that still may come, which a  *)
(* store refuses if they are for payloads; or one with a vote of its slot. *)
MCFreePlans(r) ==
  LET last == Last(r.roots)
      slot == slot_of(r, last)
      window(s) == (IF s < E THEN 0 ELSE (s \div E - 1) * E)..s-1
      parents == {last, IF last = 1 THEN 1 ELSE r.parents[last]}
  IN  {plan(last + 1, s, parent, {}) : s \in slot+1..slot+2, parent \in parents}
      \cup {plan(last + 1, s, parent, votes_of(window(s))) :
              s \in slot+1..slot+2, parent \in parents}
      \cup {plan(last + 1, s, parent, for_payloads(r, parent, votes_of(window(s)))) :
              s \in slot+1..slot+2, parent \in parents}
      \cup {plan(last + 1, slot + 2, last, votes_of({slot + 2}))}
=============================================================================
