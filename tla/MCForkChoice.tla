---------------------------- MODULE MCForkChoice ----------------------------
(***************************************************************************)
(* Small instances of ForkChoiceStore for TLC: a beacon chain just rich    *)
(* enough to move the checkpoints, and two scenes (an anchor, blocks and   *)
(* messages).  The cfg of a run picks the scene and the configuration.     *)
(***************************************************************************)
EXTENDS CheckpointRefinement

(* Three voters and the proposer-only validator 4. *)
MCRegistry ==
  [i \in 1..4 |->
     [effective_balance |-> IF i = 4 THEN 0 ELSE 32, slashed |-> FALSE,
      activation_epoch |-> 0, exit_epoch |-> 1000]]

MCDefaultBlock ==
  [slot |-> 0, parent_root |-> 0, proposer_index |-> 1, parent_block_hash |-> 0,
   block_hash |-> 0, body |-> <<>>, payload_attestations |-> <<>>]

-----------------------------------------------------------------------------
(* The beacon chain of the instances.  A state's ffg field is what its     *)
(* attestations justify and finalize so far; the end of the epoch makes it *)
(* the state's own.  A block body is the pair of checkpoints that its      *)
(* attestations newly justify and finalize, or <<>> for none.              *)

checkpoint(epoch, root) == [epoch |-> epoch, root |-> root]

newer_checkpoint(a, b) == IF b.epoch > a.epoch THEN b ELSE a

MCPullUp(state) ==
  [state EXCEPT !.current_justified_checkpoint = state.ffg.justified,
                !.finalized_checkpoint = state.ffg.finalized]

MCProcessSlots(state, slot) ==
  IF compute_epoch_at_slot(state.slot) < compute_epoch_at_slot(slot)
  THEN [MCPullUp(state) EXCEPT !.slot = slot] ELSE [state EXCEPT !.slot = slot]

MCStateTransition(state, signed_block) ==
  LET block == signed_block.message
      advanced == MCProcessSlots(state, block.slot)
      body == block.body
  IN  IF state.slot >= block.slot THEN InvalidTransition
      ELSE IF body = <<>> THEN advanced
      ELSE [advanced EXCEPT
              !.ffg = [justified |-> newer_checkpoint(@.justified, body[1]),
                       finalized |-> newer_checkpoint(@.finalized, body[2])]]

MCIsValidAttestation(state, attestation) ==
  /\ attestation.attesting_indices # {}
  /\ attestation.attesting_indices \subseteq state.validators

MCIsValidPayloadAttestation(message) == TRUE

(* Validator 1 sits at two of the three positions of every PTC. *)
MCPtc(slot) == IF slot = 0 THEN <<2, 1, 1>> ELSE <<1, 2, 1>>

MCCommittee(slot) == {1 + (slot % 3)}

VotesCheckpoints == {checkpoint(0, 0), checkpoint(0, 1)}
ChainCheckpoints ==
  {checkpoint(0, 0), checkpoint(1, 0), checkpoint(2, 1), checkpoint(3, 3), checkpoint(4, 6),
   checkpoint(5, 8)}

MCCheckpoints == VotesCheckpoints \cup ChainCheckpoints
MCFFGData == [justified : MCCheckpoints, finalized : MCCheckpoints]
MCDefaultFFG == [justified |-> checkpoint(0, 0), finalized |-> checkpoint(0, 0)]
MCBlockBody == {<<>>} \cup {<<j, f>> : j \in MCCheckpoints, f \in MCCheckpoints}

states_over(slots, checkpoints) ==
  {state \in
     [slot : slots, validators : {DOMAIN MCRegistry},
      current_justified_checkpoint : checkpoints, finalized_checkpoint : checkpoints,
      ffg : [justified : checkpoints, finalized : checkpoints]] :
     /\ state.current_justified_checkpoint.epoch <= state.ffg.justified.epoch
     /\ state.finalized_checkpoint.epoch <= state.ffg.finalized.epoch}

(* A block's payload hash is its root; parent_hash 0 builds on the parent's *)
(* empty node.                                                              *)
signed(root, slot, parent, proposer, parent_hash, body, votes) ==
  [root |-> root,
   message |->
     [slot |-> slot, parent_root |-> parent, proposer_index |-> proposer,
      parent_block_hash |-> parent_hash, block_hash |-> root,
      body |-> body, payload_attestations |-> votes]]

anchor_state_at(slot, justified, finalized) ==
  [slot |-> slot, validators |-> DOMAIN MCRegistry,
   current_justified_checkpoint |-> justified, finalized_checkpoint |-> finalized,
   ffg |-> [justified |-> justified, finalized |-> finalized]]

(* The chain of each block of a scene, and the states with nothing newer   *)
(* than the anchor from outside that chain.                                *)
MCChainOf(root) ==
  LET chain[r \in Root] ==
        IF r = ANCHOR_BLOCK.root THEN {r}
        ELSE UNION {{r} \cup chain[block.message.parent_root] :
                      block \in {b \in SIGNED_BLOCKS : b.root = r}}
  IN  chain[root]

MCStatesAfter(root) ==
  {state \in BeaconStates :
     \A cp \in {state.current_justified_checkpoint, state.finalized_checkpoint,
               state.ffg.justified, state.ffg.finalized} :
       cp.epoch <= get_current_epoch(ANCHOR_STATE) \/ cp.root \in MCChainOf(root)}

vote(voters, slot, index, root, target) ==
  [attesting_indices |-> voters,
   data |-> [slot |-> slot, index |-> index, beacon_block_root |-> root,
             source |-> checkpoint(0, 1), target |-> target]]

ptc_message(validator, root, slot, present, available) ==
  [validator_index |-> validator, beacon_block_root |-> root, slot |-> slot,
   payload_present |-> present, blob_data_available |-> available]
-----------------------------------------------------------------------------
(* Scene "votes": a genesis anchor, two equivocating blocks in slot 1, one *)
(* of them on the anchor's payload, a child of it, and votes for each.     *)
(* The payload of that block is voted on from the wire and in the body of  *)
(* the child, where validator 1 votes twice.                               *)

VotesAnchorState == anchor_state_at(0, checkpoint(0, 1), checkpoint(0, 1))
VotesStates == states_over(0..4, VotesCheckpoints)
VotesBlocks == {signed(2, 1, 1, 1, 0, <<>>, <<>>),
                signed(3, 1, 1, 1, 1, <<>>, <<>>),
                signed(4, 2, 3, 2, 3, <<>>, <<ptc_message(1, 3, 1, TRUE, FALSE),
                                              ptc_message(2, 3, 1, TRUE, TRUE),
                                              ptc_message(1, 3, 1, FALSE, TRUE)>>)}
VotesAttestations == {vote({1}, 1, 0, 2, checkpoint(0, 1)),
                      vote({1, 2}, 1, 0, 3, checkpoint(0, 1)),
                      vote({3}, 1, 1, 1, checkpoint(0, 1)),
                      vote({2}, 1, 0, 1, checkpoint(0, 1)),
                      vote({2, 3}, 2, 1, 3, checkpoint(1, 3)),
                      vote({1}, 2, 0, 4, checkpoint(1, 4))}
VotesSlashings == {[attestation_1 |-> vote({1}, 1, 0, 2, checkpoint(0, 1)),
                    attestation_2 |-> vote({1, 2}, 1, 0, 3, checkpoint(0, 1))]}
VotesPtcMessages ==
  {ptc_message(1, 3, 1, TRUE, TRUE), ptc_message(1, 3, 1, FALSE, TRUE),
   ptc_message(2, 3, 1, TRUE, FALSE), ptc_message(2, 4, 1, TRUE, TRUE),
   ptc_message(3, 3, 1, TRUE, TRUE)}

GenesisAnchor == signed(1, 0, 0, 4, 0, <<>>, <<>>)

-----------------------------------------------------------------------------
(* Scene "chain": an anchor at slot 4, the first of epoch 2, and a tree of *)
(* blocks that justify (2, 1) on two branches.  One goes on to justify     *)
(* (3, 3), then (4, 6), and to finalize (3, 3); a block on the other       *)
(* justifies the later (5, 8).                                             *)

ChainAnchor == signed(1, 4, 0, 4, 0, <<>>, <<>>)
ChainAnchorState == anchor_state_at(4, checkpoint(1, 0), checkpoint(0, 0))
ChainStates == states_over(0..12, ChainCheckpoints)
ChainBlocks ==
  LET justify_2 == <<checkpoint(2, 1), checkpoint(0, 0)>>
      justify_3 == <<checkpoint(3, 3), checkpoint(0, 0)>>
      finalize_3 == <<checkpoint(4, 6), checkpoint(3, 3)>>
      justify_5 == <<checkpoint(5, 8), checkpoint(0, 0)>>
  IN  {signed(2, 5, 1, 1, 0, justify_2, <<>>),
       signed(3, 6, 2, 2, 0, <<>>, <<>>),
       signed(4, 6, 1, 3, 0, <<>>, <<>>),
       signed(5, 7, 3, 1, 0, justify_3, <<>>),
       signed(6, 8, 5, 2, 0, finalize_3, <<>>),
       signed(7, 7, 4, 3, 0, justify_2, <<>>),
       signed(8, 10, 4, 1, 0, justify_5, <<>>),
       signed(9, 11, 8, 2, 0, <<>>, <<>>)}
=============================================================================
