------------------------ MODULE CheckpointRefinement ------------------------
(***************************************************************************)
(* The fork-choice store keeps the promise of CheckpointTracker: a tick    *)
(* into a new epoch is EnterEpoch, the import of a block is Import, and    *)
(* every other step leaves the tracker's state alone.                      *)
(***************************************************************************)
EXTENDS ForkChoiceStore

finality_of(state) ==
  [justified |-> state.current_justified_checkpoint,
   finalized |-> state.finalized_checkpoint]

TrackedTips ==
  [root \in DOMAIN store.blocks |->
     [epoch |-> compute_epoch_at_slot(store.blocks[root].slot),
      claimed |-> finality_of(store.block_states[root]),
      pulled_up |->
        [justified |-> store.unrealized_justifications[root],
         finalized |-> process_justification_and_finalization(
                         store.block_states[root]).finalized_checkpoint]]]

Tracker ==
  INSTANCE CheckpointTracker WITH
    epoch <- get_current_store_epoch(store),
    realized <- [justified |-> store.justified_checkpoint,
                 finalized |-> store.finalized_checkpoint],
    unrealized <- [justified |-> store.unrealized_justified_checkpoint,
                   finalized |-> store.unrealized_finalized_checkpoint],
    tips <- TrackedTips

(* Every behaviour of the store is one of the tracker's: whatever order    *)
(* blocks and ticks come in, checkpoints are claimed, remembered and       *)
(* realized exactly when the tracker says.                                 *)
TracksCheckpoints == Tracker!Spec
=============================================================================
