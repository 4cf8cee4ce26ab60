---------------------------- MODULE MCAnchorProbe ----------------------------
(***************************************************************************)
(* Epochs of four slots, a validator in each: three of them are more than  *)
(* two thirds.  The chain to the anchor, in slot 12, has a block with the  *)
(* votes of the slot before in every slot.                                 *)
(***************************************************************************)
EXTENDS AnchorProbe, TLC

E == SLOTS_PER_EPOCH

MCRoot == 0..15
MCValidators == 1..E
MCRegistry ==
  [i \in 1..E |-> [effective_balance |-> 32000, slashed |-> FALSE,
                   activation_epoch |-> 0, exit_epoch |-> 1000]]

MCCommitteeCount(e) == 1
MCCommittee(n, index) == IF index > 0 THEN <<>> ELSE <<1 + (n % E)>>
MCBeaconCommittee(n) == {1 + (n % E)}
MCOracle(at_slot, block, result) == TRUE
MCPtc(n) == <<1>>
MCValidPayload(message) == TRUE

(* The sets of one element have TLC compute a state once. *)
Only(set) == CHOOSE x \in set : TRUE

(* A block comes with the states before and after it, which its proposer   *)
(* has to know, and none of the calls below fails.                         *)
MCStateTransition(state, signed_block) ==
  IF state = signed_block.pre THEN signed_block.post ELSE InvalidTransition
MCProcessSlots(state, target) ==
  Only({project(result.value) : result \in {T!ffg_process_slots(decode(state), target)}})
MCPjf(state) ==
  Only({project(result.value) :
          result \in {T!ffg_process_justification_and_finalization(s.ffg) : s \in {state}}})
MCValidAttestation(state, attestation) == indexed_structure(state, attestation)

(* The genesis block has root 1, the block of slot n root n + 1. *)
Genesis ==
  LET zero == [epoch |-> 0, root |-> 0]
      no_flags == [i \in 1..E |-> {}]
  IN  [slot |-> 0, validators |-> MCRegistry,
       justification_bits |-> <<FALSE, FALSE, FALSE, FALSE>>,
       previous_justified_checkpoint |-> zero,
       current_justified_checkpoint |-> zero,
       finalized_checkpoint |-> zero,
       previous_epoch_participation |-> no_flags,
       current_epoch_participation |-> no_flags,
       block_roots |-> [k \in T!Ring |-> 0],
       latest_block_header |-> [slot |-> 0, proposer_index |-> 1, parent_root |-> 0, root |-> 1],
       execution_payload_availability |-> [k \in T!Ring |-> FALSE],
       latest_block_hash |-> 0, latest_bid_block_hash |-> 0]

block_on(parent_root, n, root, votes) ==
  LET block == [slot |-> n, parent_root |-> parent_root, proposer_index |-> 1, root |-> root,
                parent_block_hash |-> 99, block_hash |-> root,
                parent_requests_empty |-> TRUE, parent_requests_match |-> FALSE,
                deposit_count |-> 0, registry_operations |-> {},
                bls_to_execution_change_count |-> 0, payload_attestation_count |-> 0,
                attestations |-> votes]
  IN  [root |-> root,
       message |-> [slot |-> n, parent_root |-> parent_root, proposer_index |-> 1,
                    parent_block_hash |-> 99, block_hash |-> root, body |-> block,
                    payload_attestations |-> <<>>]]

MCBuild(state, n, root, votes) ==
  Only({block @@ [pre |-> before, post |-> transition(before, block)] :
          block \in {block_on(state.latest_block_header.root, n, root, votes)},
          before \in {project(state)}})

MCDefaultBlock ==
  [slot |-> 0, parent_root |-> 0, proposer_index |-> 1, parent_block_hash |-> 0,
   block_hash |-> 0, body |-> [attestations |-> <<>>], payload_attestations |-> <<>>]

(* The vote of slot n - 1, in the state at slot n before its block.        *)
vote_before(at, n) ==
  LET e == compute_epoch_at_slot(n - 1)
      head == at.latest_block_header.root
  IN  [aggregation_bits |-> <<TRUE>>, committee_bits |-> <<TRUE>>,
       data |-> [slot |-> n - 1, index |-> 0, beacon_block_root |-> head,
                 source |-> T!justified_for(at, e),
                 target |-> [epoch |-> e,
                             root |-> IF n - 1 = e * E THEN head
                                      ELSE T!get_block_root(at, e).value]]]

(* The state after the block of slot n. *)
Chain[n \in 0..3*E] ==
  IF n = 0 THEN Genesis
  ELSE LET votes(at) == IF n = 1 THEN <<>> ELSE <<vote_before(at, n)>>
       IN  Only(UNION {{T!ffg_state_transition(state, block.message.body).value :
                       block \in {block_on(n, n, n + 1, votes(at)) :
                                    at \in {T!ffg_process_slots(state, n).value}}} :
                      state \in {Chain[n - 1]}})

MCAnchorState == Chain[3*E]

header(n) == block_on(n, n, n + 1, <<>>).message

MCAnchor == [root |-> 3*E + 1, message |-> header(3*E)]

MCPrior ==
  [root \in 1..3*E |-> IF root = 1 THEN MCDefaultBlock ELSE header(root - 1)]
=============================================================================
