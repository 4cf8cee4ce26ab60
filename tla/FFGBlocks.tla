------------------------------ MODULE FFGBlocks ------------------------------
(***************************************************************************)
(* A small chain for the concrete transition: three validators of equal    *)
(* balance vote in the first slot of an epoch, a fourth one, slashed, in   *)
(* the second, and no block of the slashed one is accepted.  A call brings *)
(* a block one or two slots ahead with the votes it could have collected,  *)
(* or one that a guard rejects.                                            *)
(***************************************************************************)
EXTENDS FFGTransition

MCCommitteeCount(e) == 1
MCCommittee(slot, index) ==
  IF index # 0 THEN <<>> ELSE IF slot % 2 = 0 THEN <<1, 2, 3>> ELSE <<4>>

MCOracle(s, b, result) == b.proposer_index # 3

validator(slashed) ==
  [effective_balance |-> 32, slashed |-> slashed, activation_epoch |-> 0, exit_epoch |-> 1000]

MCGenesis ==
  LET zero == [epoch |-> 0, root |-> 0]
      no_flags == [i \in 1..4 |-> {}]
  IN  [slot |-> 0,
       validators |-> [i \in 1..4 |-> validator(i = 4)],
       justification_bits |-> <<FALSE, FALSE, FALSE, FALSE>>,
       previous_justified_checkpoint |-> zero,
       current_justified_checkpoint |-> zero,
       finalized_checkpoint |-> zero,
       previous_epoch_participation |-> no_flags,
       current_epoch_participation |-> no_flags,
       block_roots |-> [i \in Ring |-> 0],
       latest_block_header |->
         [slot |-> 0, proposer_index |-> 1, parent_root |-> 0, root |-> 0],
       execution_payload_availability |-> [i \in Ring |-> FALSE],
       latest_block_hash |-> 0,
       latest_bid_block_hash |-> 0]

-----------------------------------------------------------------------------
(* What a block at a slot can collect on top of the state s. *)

root_at(s, slot) ==
  IF slot >= s.slot THEN s.latest_block_header.root
  ELSE s.block_roots[slot % SLOTS_PER_HISTORICAL_ROOT]

source_for(s, slot, e) ==
  LET advanced == ffg_process_slots(s, slot).value
  IN  justified_for(advanced, e)

vote_of(s, slot, data_slot) ==
  [aggregation_bits |-> [k \in DOMAIN MCCommittee(data_slot, 0) |-> TRUE],
   committee_bits |-> <<TRUE>>,
   data |-> [slot |-> data_slot, index |-> 0,
             beacon_block_root |-> root_at(s, data_slot),
             source |-> source_for(s, slot, epoch_at(data_slot)),
             target |-> [epoch |-> epoch_at(data_slot),
                         root |-> root_at(s, epoch_at(data_slot) * SLOTS_PER_EPOCH)]]]

start_of_previous_epoch(slot) ==
  IF epoch_at(slot) = 0 THEN 0 ELSE (epoch_at(slot) - 1) * SLOTS_PER_EPOCH

(* The votes of every slot from the start of the previous epoch on. *)
all_votes(s, slot) ==
  [k \in 1..(slot - start_of_previous_epoch(slot)) |->
     vote_of(s, slot, start_of_previous_epoch(slot) + k - 1)]

block_of(s, slot, proposer, votes) ==
  [slot |-> slot, parent_root |-> s.latest_block_header.root,
   proposer_index |-> proposer, root |-> slot,
   parent_block_hash |-> 1, block_hash |-> slot,
   parent_requests_empty |-> TRUE, parent_requests_match |-> FALSE,
   deposit_count |-> 0, registry_operations |-> {}, bls_to_execution_change_count |-> 0,
   payload_attestation_count |-> MAX_PAYLOAD_ATTESTATIONS, attestations |-> votes]

MCBlocks(s) ==
  UNION {{block_of(s, slot, 1, <<>>),
          block_of(s, slot, 1, all_votes(s, slot)),
          block_of(s, slot, 1, <<vote_of(s, slot, slot - 1)>>)}
           : slot \in s.slot+1 .. s.slot+2}
  \cup {block_of(s, s.slot + 1, 3, <<vote_of(s, s.slot + 1, s.slot)>>),
        block_of(s, s.slot + 1, 4, <<>>),
        [block_of(s, s.slot + 1, 1, <<>>) EXCEPT !.payload_attestation_count = @ + 1],
        block_of(s, s.slot + 1, 1,
                 <<[vote_of(s, s.slot + 1, s.slot)
                      EXCEPT !.data.source.epoch = @ + 1]>>)}
=============================================================================
