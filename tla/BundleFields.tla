---------------------------- MODULE BundleFields ----------------------------
(***************************************************************************)
(* What the checks of the premises evaluate on the states of one accepted  *)
(* run: the laws of process_slots and of the pulled-up state that the      *)
(* safety claim supposes of its beacon functions (check_real_bundle.py),   *)
(* the boundary from epoch 1 (anchor_semantics_probe.py), and the rows     *)
(* that put an accepted block, its roots labelled by integers, to the      *)
(* concrete transition.  The run is that of FFGChain: the bundle looks at  *)
(* it between two calls.                                                   *)
(***************************************************************************)
EXTENDS FFGChain

(* The scope of the projection: whether a validator is active is the same   *)
(* in every epoch of the run, the active balance is at least two            *)
(* increments, and nobody has voted yet.                                    *)
ASSUME ScopeAssumption ==
  /\ IsWellFormed(GENESIS)
  /\ LAST_SLOT \in Nat /\ GENESIS.slot <= LAST_SLOT
  /\ \A e \in 0..epoch_at(LAST_SLOT)+4 : active_indices(GENESIS, e) = active_indices(GENESIS, 0)
  /\ get_total_active_balance(GENESIS) \in Nat \ {0}
  /\ 2 * EFFECTIVE_BALANCE_INCREMENT <= get_total_active_balance(GENESIS)
  /\ \A i \in DOMAIN GENESIS.validators : GENESIS.current_epoch_participation[i] = {}

(* The ring remembers the last two epochs, and no slot overflows before the *)
(* end of the run.                                                          *)
ASSUME RingAssumption ==
  /\ SLOTS_PER_EPOCH > 1
  /\ 2 * SLOTS_PER_EPOCH <= SLOTS_PER_HISTORICAL_ROOT
  /\ LAST_SLOT + 4 * SLOTS_PER_EPOCH + SLOTS_PER_HISTORICAL_ROOT <= UINT64_MAX

VARIABLE
  labels        \* the roots and hashes in the order they were first met

bundle_vars == <<vars, labels>>

justified_of(s) == s.current_justified_checkpoint

at(s, slot) == ffg_process_slots(s, slot).value

pulled_up(s) == ffg_process_justification_and_finalization(s).value

boundary(s, jump) == (get_current_epoch(s) + jump) * SLOTS_PER_EPOCH

-----------------------------------------------------------------------------
(* The rows.  A label is the place of a root in the table, where the zero  *)
(* root is the first.                                                      *)

with_labels(table, values) ==
  LET add(known, value) == IF value \in Range(known) THEN known ELSE Append(known, value)
  IN  FoldLeft(add, table, values)

label(table, value) == (CHOOSE k \in DOMAIN table : table[k] = value) - 1

labelled_checkpoint(table, c) == [c EXCEPT !.root = label(table, @)]

roots_of_vote(vote) ==
  <<vote.data.beacon_block_root, vote.data.source.root, vote.data.target.root>>

with_votes(table, votes) ==
  LET add(known, vote) == with_labels(known, roots_of_vote(vote))
  IN  FoldLeft(add, table, votes)

roots_of_state(s) ==
  <<s.latest_block_header.parent_root, s.latest_block_header.root,
    s.previous_justified_checkpoint.root, s.current_justified_checkpoint.root,
    s.finalized_checkpoint.root>>
  \o [k \in 1..SLOTS_PER_HISTORICAL_ROOT |-> s.block_roots[k - 1]]
  \o <<s.latest_block_hash, s.latest_bid_block_hash>>

roots_of_block(b) == <<b.parent_root, b.root, b.parent_block_hash, b.block_hash>>

(* Mutant: the bid keeps its hash. *)
retained_but_bid(table, s) ==
  [s EXCEPT
     !.latest_block_header.parent_root = label(table, @),
     !.latest_block_header.root = label(table, @),
     !.previous_justified_checkpoint = labelled_checkpoint(table, @),
     !.current_justified_checkpoint = labelled_checkpoint(table, @),
     !.finalized_checkpoint = labelled_checkpoint(table, @),
     !.block_roots = [k \in DOMAIN @ |-> label(table, @[k])],
     !.latest_block_hash = label(table, @)]

retained(table, s) ==
  [s EXCEPT
     !.latest_block_header.parent_root = label(table, @),
     !.latest_block_header.root = label(table, @),
     !.previous_justified_checkpoint = labelled_checkpoint(table, @),
     !.current_justified_checkpoint = labelled_checkpoint(table, @),
     !.finalized_checkpoint = labelled_checkpoint(table, @),
     !.block_roots = [k \in DOMAIN @ |-> label(table, @[k])],
     !.latest_block_hash = label(table, @),
     !.latest_bid_block_hash = label(table, @)]

(* The row has no count of the operations that change nothing retained. *)
wire(table, b) ==
  LET wire_vote(vote) ==
        [vote EXCEPT !.data.beacon_block_root = label(table, @),
                     !.data.source = labelled_checkpoint(table, @),
                     !.data.target = labelled_checkpoint(table, @)]
  IN  [b EXCEPT
         !.parent_root = label(table, @), !.root = label(table, @),
         !.parent_block_hash = label(table, @), !.block_hash = label(table, @),
         !.bls_to_execution_change_count = 0, !.payload_attestation_count = 0,
         !.attestations = [k \in DOMAIN @ |-> wire_vote(@[k])]]

-----------------------------------------------------------------------------
BundleInit == Init /\ labels = <<0>>

(* A block is accepted: its row labels what it brings, the state it was put *)
(* to, and the state it gives.                                              *)
AcceptBlock ==
  /\ Return
  /\ labels' = with_labels(with_votes(labels, block.attestations),
                 roots_of_state(before.state) \o roots_of_block(block) \o roots_of_state(state))

RestOfCall ==
  /\ \/ \E new_block \in BLOCKS(state) : new_block.slot <= LAST_SLOT /\ BeginCall(new_block)
     \/ AdvanceSlot \/ BeginBlock \/ NextAttestation \/ Raise
  /\ UNCHANGED labels

BundleNext == AcceptBlock \/ RestOfCall

BundleSpec == BundleInit /\ [][BundleNext]_bundle_vars

between_calls == phase = "idle"

block_accepted == phase = "idle" /\ state # before.state

-----------------------------------------------------------------------------
(* Properties. *)

(* What the safety claim supposes of process_slots and of the pulled-up     *)
(* state: slots inside an epoch leave the justified checkpoint alone, the   *)
(* first boundary gives it the pulled-up one, the next slot adds nothing,   *)
(* and pulling up justifies no epoch that has not begun.                    *)
SlotLawsHold ==
  LET next == boundary(state, 1)
  IN  /\ justified_of(pulled_up(state)).epoch <= get_current_epoch(state)
      /\ \A slot \in state.slot+1..next-1 : justified_of(at(state, slot)) = justified_of(state)
      /\ justified_of(at(state, next)) = justified_of(pulled_up(state))
      /\ justified_of(at(state, next + 1)) = justified_of(at(state, next))

(* From epoch 2 on the boundaries after the first one justify nothing more, *)
(* also where a block ends the jump: its votes are counted once.  From      *)
(* epoch 1 this holds of the first boundary.                                *)
JumpJustifiesOnce ==
  \A jump \in 1..3 : get_current_epoch(state) >= 2 \/ jump = 1 =>
    LET target == boundary(state, jump)
        empty == [block EXCEPT !.slot = target, !.parent_root = state.latest_block_header.root,
                               !.root = target, !.attestations = <<>>]
        ended == ffg_state_transition(state, empty)
    IN  /\ justified_of(at(state, target)) = justified_of(pulled_up(state))
        /\ block_accepted /\ ended.ok => justified_of(ended.value) = justified_of(pulled_up(state))

(* The exception: two thirds of epoch 1 do not show in its pulled-up state, *)
(* nor at its end, and justify it one boundary later.                       *)
EpochOneJustifiesLate ==
  LET indices == get_unslashed_participating_indices(state, 1).value
  IN  get_current_epoch(state) = 1
      /\ has_two_thirds(get_total_balance(state, indices), get_total_active_balance(state))
      => /\ justified_of(pulled_up(state)).epoch = 0
         /\ justified_of(at(state, boundary(state, 1))).epoch = 0
         /\ justified_of(at(state, boundary(state, 2))).epoch = 1

(* The three together: what the safety claim supposes of the beacon         *)
(* functions, with the one exception the checks name.                       *)
ExternalsCoherent ==
  between_calls => SlotLawsHold /\ JumpJustifiesOnce /\ EpochOneJustifiesLate

(* The row of an accepted block gives the labelled state after it: the      *)
(* transition compares roots and hashes and reads nothing else of them, and *)
(* one table labels the run.                                                *)
RowsReproduceRun ==
  block_accepted =>
    ffg_state_transition(retained(labels, before.state), wire(labels, block))
      = Accept(retained(labels, state))

(* What the bundle and the differential suppose of one transition: laws of *)
(* its slots, and rows that give back its run.                             *)
BundleSound == ExternalsCoherent /\ RowsReproduceRun
=============================================================================
