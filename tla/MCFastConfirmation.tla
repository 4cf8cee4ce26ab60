------------------------- MODULE MCFastConfirmation -------------------------
(***************************************************************************)
(* Small instances of FastConfirmationNode for TLC, on the beacon chain of *)
(* MCForkChoice: two slots per epoch, one second per slot.                 *)
(***************************************************************************)
EXTENDS MCForkChoice, FastConfirmationNode

(* Four heavy validators and four light ones, an eighth of the weight. *)
RuleRegistry ==
  [i \in 1..8 |->
     [effective_balance |-> IF i <= 4 THEN 350000 ELSE 50000, slashed |-> FALSE,
      activation_epoch |-> 0, exit_epoch |-> 1000]]

(* Half of each committee moves to the other slot in the next epoch. *)
RuleCommittee(slot) ==
  CASE slot % 4 = 0 -> {1, 2, 5, 6}
    [] slot % 4 = 1 -> {3, 4, 7, 8}
    [] slot % 4 = 2 -> {1, 3, 5, 7}
    [] slot % 4 = 3 -> {2, 4, 6, 8}

RulePtc(slot) == <<1, 2, 3>>

RuleIsValidAttestation(state, attestation) ==
  /\ attestation.attesting_indices # {}
  /\ attestation.attesting_indices \subseteq state.validators
  /\ attestation.attesting_indices \subseteq RuleCommittee(attestation.data.slot)

rule_states(slots, checkpoints) ==
  {[state EXCEPT !.validators = 1..8] : state \in states_over(slots, checkpoints)}

rule_anchor_state(slot, cp) == [anchor_state_at(slot, cp, cp) EXCEPT !.validators = 1..8]

-----------------------------------------------------------------------------
(* Scene "fork": nothing is proposed in slot 1 in time, where the votes    *)
(* split over the payload of the anchor; block 3 of slot 2 builds on the   *)
(* anchor without its payload, block 4 with it, and block 2 is a late one  *)
(* of slot 1.                                                              *)

ForkCheckpoints == {checkpoint(0, 0), checkpoint(0, 1)}
ForkStates == rule_states(0..3, ForkCheckpoints)
ForkAnchorState == rule_anchor_state(0, checkpoint(0, 1))
ForkBlocks == {signed(2, 1, 1, 1, 0, <<>>, <<>>),
               signed(3, 2, 1, 2, 0, <<>>, <<>>),
               signed(4, 2, 1, 3, 1, <<>>, <<>>)}
ForkAttestations ==
  {vote({3, 4, 7, 8}, 1, 0, 1, checkpoint(0, 1)),
   vote({3, 4, 7, 8}, 1, 1, 1, checkpoint(0, 1)),
   vote({1, 3, 5, 7}, 2, 0, 3, checkpoint(1, 3)),
   vote({1, 3}, 2, 0, 4, checkpoint(1, 4)),
   vote({5, 7}, 2, 0, 4, checkpoint(1, 4))}
ForkSlashings == {[attestation_1 |-> vote({1, 3, 5, 7}, 2, 0, 3, checkpoint(1, 3)),
                   attestation_2 |-> vote({5, 7}, 2, 0, 4, checkpoint(1, 4))]}

-----------------------------------------------------------------------------
(* Scene "epochs": a block in every slot from the second epoch on, whose   *)
(* bodies justify the blocks that open the epochs, and in slot 4 a rival   *)
(* that leaves the chain.  Each slot's committee votes for its block.      *)

EpochsCheckpoints == {checkpoint(0, 1), checkpoint(1, 3), checkpoint(2, 5)}
EpochsFFGData == [justified : EpochsCheckpoints, finalized : {checkpoint(0, 1)}]
EpochsDefaultFFG == [justified |-> checkpoint(0, 1), finalized |-> checkpoint(0, 1)]
EpochsBodies == {<<>>} \cup {<<j, checkpoint(0, 1)>> : j \in EpochsCheckpoints}
EpochsStates ==
  {state \in rule_states(0..6, EpochsCheckpoints) :
     state.finalized_checkpoint.epoch = 0 /\ state.ffg.finalized.epoch = 0}
EpochsAnchorState == rule_anchor_state(0, checkpoint(0, 1))
EpochsBlocks ==
  LET first == checkpoint(0, 1)
  IN  {signed(3, 2, 1, 2, 0, <<>>, <<>>),
       signed(4, 3, 3, 3, 0, <<checkpoint(1, 3), first>>, <<>>),
       signed(5, 4, 4, 1, 0, <<>>, <<>>),
       signed(6, 5, 5, 2, 0, <<checkpoint(2, 5), first>>, <<>>),
       signed(7, 4, 3, 3, 0, <<checkpoint(1, 3), first>>, <<>>)}
EpochsAttestations ==
  {vote(RuleCommittee(slot), slot, 0, slot + 1, checkpoint(slot \div 2, 1 + 2 * (slot \div 2))) :
     slot \in 2..5}
  \cup {vote(RuleCommittee(4), 4, 0, 7, checkpoint(2, 7))}
=============================================================================
