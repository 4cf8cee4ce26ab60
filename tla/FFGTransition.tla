---------------------------- MODULE FFGTransition ----------------------------
(***************************************************************************)
(* The part of the Gloas beacon transition that decides justification and  *)
(* finality: participation flags, the justification bits, the rings of     *)
(* block roots and payload availability, slots, epochs, attestations and   *)
(* block headers.                                                          *)
(*                                                                         *)
(* A call that a guard can fail returns a checked result: Accept(value) or *)
(* Reject(error), with the class of the first guard that fails.  Lists     *)
(* indexed by a validator or a ring position are functions, so that a list *)
(* of the wrong length is a function with the wrong domain.                *)
(***************************************************************************)
EXTENDS Integers, FiniteSetsExt, SequencesExt

CONSTANTS
  SLOTS_PER_EPOCH,
  SLOTS_PER_HISTORICAL_ROOT,       \* the length of both rings
  EFFECTIVE_BALANCE_INCREMENT,
  MIN_ATTESTATION_INCLUSION_DELAY,
  MAX_COMMITTEES_PER_SLOT,
  MAX_VALIDATORS_PER_COMMITTEE,
  MAX_ATTESTATIONS,
  MAX_BLS_TO_EXECUTION_CHANGES,
  MAX_PAYLOAD_ATTESTATIONS,
  UINT64_MAX,
  committee_count(_),              \* the fixed committee schedule
  committee_members(_, _),
  oracle_accepts(_, _, _)          \* every check outside the projection

ASSUME PresetAssumption ==
  /\ SLOTS_PER_EPOCH \in Nat \ {0}
  /\ SLOTS_PER_HISTORICAL_ROOT \in Nat \ {0}
  /\ EFFECTIVE_BALANCE_INCREMENT \in Nat
  /\ MIN_ATTESTATION_INCLUSION_DELAY \in Nat \ {0}
  /\ MAX_BLS_TO_EXECUTION_CHANGES \in Nat
  /\ MAX_PAYLOAD_ATTESTATIONS \in Nat
  /\ UINT64_MAX \in Nat

TIMELY_SOURCE == 0
TIMELY_TARGET == 1
TIMELY_HEAD == 2
Ring == 0..SLOTS_PER_HISTORICAL_ROOT-1

Accept(value) == [ok |-> TRUE, value |-> value]
Reject(error) == [ok |-> FALSE, error |-> error]

Then(result, Step(_)) == IF result.ok THEN Step(result.value) ELSE result

-----------------------------------------------------------------------------
(* Reads. *)

epoch_at(slot) == slot \div SLOTS_PER_EPOCH

get_current_epoch(state) == epoch_at(state.slot)

get_previous_epoch(state) ==
  IF get_current_epoch(state) = 0 THEN 0 ELSE get_current_epoch(state) - 1

get_block_root_at_slot(state, slot) ==
  IF ~ /\ slot + SLOTS_PER_HISTORICAL_ROOT <= UINT64_MAX
       /\ slot < state.slot
       /\ state.slot <= slot + SLOTS_PER_HISTORICAL_ROOT
  THEN Reject("root")
  ELSE IF DOMAIN state.block_roots # Ring THEN Reject("state")
  ELSE Accept(state.block_roots[slot % SLOTS_PER_HISTORICAL_ROOT])

get_block_root(state, epoch) ==
  IF epoch * SLOTS_PER_EPOCH <= UINT64_MAX
  THEN get_block_root_at_slot(state, epoch * SLOTS_PER_EPOCH)
  ELSE Reject("root")

is_active(validator, epoch) ==
  validator.activation_epoch <= epoch /\ epoch < validator.exit_epoch

active_indices(state, epoch) ==
  {i \in DOMAIN state.validators : is_active(state.validators[i], epoch)}

sum_effective_balance(validators, indices) ==
  MapThenSumSet(LAMBDA i : validators[i].effective_balance, indices)

get_total_balance(state, indices) ==
  LET balance == sum_effective_balance(state.validators, indices)
  IN  IF balance < EFFECTIVE_BALANCE_INCREMENT
      THEN EFFECTIVE_BALANCE_INCREMENT ELSE balance

get_total_active_balance(state) ==
  get_total_balance(state, active_indices(state, get_current_epoch(state)))

get_unslashed_participating_indices(state, epoch) ==
  LET participation == IF epoch = get_current_epoch(state)
                       THEN state.current_epoch_participation
                       ELSE state.previous_epoch_participation
  IN  IF DOMAIN participation # DOMAIN state.validators THEN Reject("state")
      ELSE Accept({i \in active_indices(state, epoch) :
                     TIMELY_TARGET \in participation[i] /\ ~state.validators[i].slashed})

-----------------------------------------------------------------------------
(* Justification and finality. *)

(* Mutant: the bits stay where they are. *)
shift_checkpoint_only(state) ==
  [state EXCEPT !.previous_justified_checkpoint = state.current_justified_checkpoint]

(* Mutant: the assignment goes the other way round. *)
shift_backwards(state) ==
  [state EXCEPT
     !.current_justified_checkpoint = state.previous_justified_checkpoint,
     !.justification_bits = <<FALSE>> \o SubSeq(@, 1, 3)]

(* Mutant: only the bits are shifted. *)
shift_bits_only(state) ==
  [state EXCEPT !.justification_bits = <<FALSE>> \o SubSeq(@, 1, 3)]

(* The state with the checkpoints and bits shifted by one epoch. *)
shift_justification(state) ==
  [state EXCEPT
     !.previous_justified_checkpoint = state.current_justified_checkpoint,
     !.justification_bits = <<FALSE>> \o SubSeq(@, 1, 3)]

(* Mutant: the root is that of the current epoch. *)
justify_current_root(state, epoch, position) ==
  Then(get_block_root(state, get_current_epoch(state)),
       LAMBDA root :
         Accept([state EXCEPT
                   !.current_justified_checkpoint = [epoch |-> epoch, root |-> root],
                   !.justification_bits[position] = TRUE]))

justify(state, epoch, position) ==
  Then(get_block_root(state, epoch),
       LAMBDA root :
         Accept([state EXCEPT
                   !.current_justified_checkpoint = [epoch |-> epoch, root |-> root],
                   !.justification_bits[position] = TRUE]))

(* Mutant: half the stake is enough. *)
has_half(support, total) == 2 * support >= total

has_two_thirds(support, total) == 3 * support >= 2 * total

(* Mutant: the second rule forgets that the middle epoch must be justified. *)
finalized_by_skipping(bits, old_previous, old_current, finalized, epoch) ==
  CASE bits[1] /\ old_current.epoch + 1 = epoch -> old_current
    [] bits[1] /\ old_current.epoch + 2 = epoch -> old_current
    [] bits[2] /\ bits[3] /\ old_previous.epoch + 2 = epoch -> old_previous
    [] OTHER -> finalized

(* The four rules in the order of the code, where the last that holds wins. *)
finalized_by(bits, old_previous, old_current, finalized, epoch) ==
  IF bits[1] /\ bits[2] /\ old_current.epoch + 1 = epoch THEN old_current
  ELSE IF bits[1] /\ bits[2] /\ bits[3] /\ old_current.epoch + 2 = epoch THEN old_current
  ELSE IF bits[2] /\ bits[3] /\ old_previous.epoch + 2 = epoch THEN old_previous
  ELSE IF bits[2] /\ bits[3] /\ bits[4] /\ old_previous.epoch + 3 = epoch THEN old_previous
  ELSE finalized

weigh_justification_and_finalization(state, total, previous, current) ==
  LET epoch == get_current_epoch(state)
      justify_previous(s) ==
        IF has_two_thirds(previous, total)
        THEN justify(s, get_previous_epoch(state), 2) ELSE Accept(s)
      justify_current(s) ==
        IF has_two_thirds(current, total) THEN justify(s, epoch, 1) ELSE Accept(s)
      finalize(s) ==
        Accept([s EXCEPT !.finalized_checkpoint =
                  finalized_by(s.justification_bits, state.previous_justified_checkpoint,
                               state.current_justified_checkpoint, @, epoch)])
  IN  IF Len(state.justification_bits) # 4 THEN Reject("state")
      ELSE Then(Then(justify_previous(shift_justification(state)), justify_current), finalize)

(* Mutant: only the first epoch is passed over. *)
process_justification_from_epoch_one(state) ==
  IF get_current_epoch(state) = 0 THEN Accept(state)
  ELSE Then(get_unslashed_participating_indices(state, get_previous_epoch(state)),
         LAMBDA previous :
           Then(get_unslashed_participating_indices(state, get_current_epoch(state)),
             LAMBDA current :
               weigh_justification_and_finalization(
                 state, get_total_active_balance(state),
                 get_total_balance(state, previous), get_total_balance(state, current))))

(* Nothing is weighed in the first two epochs. *)
ffg_process_justification_and_finalization(state) ==
  IF get_current_epoch(state) <= 1 THEN Accept(state)
  ELSE Then(get_unslashed_participating_indices(state, get_previous_epoch(state)),
         LAMBDA previous :
           Then(get_unslashed_participating_indices(state, get_current_epoch(state)),
             LAMBDA current :
               weigh_justification_and_finalization(
                 state, get_total_active_balance(state),
                 get_total_balance(state, previous), get_total_balance(state, current))))

-----------------------------------------------------------------------------
(* Slots and epochs. *)

(* Mutant: the flags of the epoch are copied and stay. *)
process_participation_flag_copies(state) ==
  [state EXCEPT !.previous_epoch_participation = state.current_epoch_participation]

process_participation_flag_updates(state) ==
  [state EXCEPT !.previous_epoch_participation = state.current_epoch_participation,
                !.current_epoch_participation = [i \in DOMAIN state.validators |-> {}]]

(* Mutant: the flags are shifted before they are weighed. *)
process_epoch_flags_first(state) ==
  ffg_process_justification_and_finalization(process_participation_flag_updates(state))

(* Every other substep of process_epoch leaves the kept fields alone. *)
process_epoch(state) ==
  Then(ffg_process_justification_and_finalization(state),
       LAMBDA s : Accept(process_participation_flag_updates(s)))

process_slot(state) ==
  IF DOMAIN state.block_roots = Ring /\ DOMAIN state.execution_payload_availability = Ring
  THEN Accept([state EXCEPT
         !.block_roots[state.slot % SLOTS_PER_HISTORICAL_ROOT] = state.latest_block_header.root,
         !.execution_payload_availability[(state.slot + 1) % SLOTS_PER_HISTORICAL_ROOT] = FALSE])
  ELSE Reject("state")

(* Mutant: the epoch is closed one slot late. *)
advance_slot_late(state) ==
  Then(Then(process_slot(state),
            LAMBDA s : IF s.slot % SLOTS_PER_EPOCH = 0 THEN process_epoch(s) ELSE Accept(s)),
       LAMBDA s : Accept([s EXCEPT !.slot = @ + 1]))

(* One iteration of the loop of process_slots. *)
advance_slot(state) ==
  Then(Then(process_slot(state),
            LAMBDA s : IF (s.slot + 1) % SLOTS_PER_EPOCH = 0 THEN process_epoch(s)
                       ELSE Accept(s)),
       LAMBDA s : Accept([s EXCEPT !.slot = @ + 1]))

ffg_process_slots(state, target) ==
  IF target > UINT64_MAX \/ state.slot >= target THEN Reject("slot")
  ELSE LET step(result, n) == Then(result, advance_slot)
       IN  FoldLeft(step, Accept(state), [n \in 1..(target - state.slot) |-> n])

-----------------------------------------------------------------------------
(* Attestations.  committee_bits and aggregation_bits are sequences of     *)
(* booleans; the aggregation bits of the selected committees are laid end  *)
(* to end in the order of their indices.                                   *)

get_committee_indices(bits) ==
  SetToSortSeq({i \in 0..Len(bits)-1 : bits[i + 1]}, <)

(* The members of the selected committees, in the order of their bits. *)
selected_members(vote) ==
  FlattenSeq([k \in DOMAIN get_committee_indices(vote.committee_bits) |->
                committee_members(vote.data.slot,
                                  get_committee_indices(vote.committee_bits)[k])])

get_attesting_indices(vote) ==
  LET members == selected_members(vote)
  IN  {members[k] : k \in {j \in DOMAIN members \cap DOMAIN vote.aggregation_bits :
                             vote.aggregation_bits[j]}}

ffg_is_valid_indexed_attestation(state, indices) ==
  /\ indices # {}
  /\ Cardinality(indices) <= MAX_VALIDATORS_PER_COMMITTEE * MAX_COMMITTEES_PER_SLOT
  /\ indices \subseteq DOMAIN state.validators

integer_squareroot(n) == Max({r \in 0..n : r * r <= n})

is_attestation_same_slot(state, data) ==
  IF data.slot = 0 THEN Accept(TRUE)
  ELSE Then(get_block_root_at_slot(state, data.slot),
         LAMBDA root :
           Then(get_block_root_at_slot(state, data.slot - 1),
             LAMBDA previous : Accept(/\ data.beacon_block_root = root
                                      /\ data.beacon_block_root # previous)))

justified_for(state, epoch) ==
  IF epoch = get_current_epoch(state)
  THEN state.current_justified_checkpoint ELSE state.previous_justified_checkpoint

(* The flags of a vote whose source is the justified checkpoint. *)
timely_flags(state, data, target_root, head_root, payload_matches, delay) ==
  LET target_matches == data.target.root = target_root
      head_matches == /\ target_matches
                      /\ data.beacon_block_root = head_root
                      /\ payload_matches
  IN  {flag \in {TIMELY_SOURCE, TIMELY_TARGET, TIMELY_HEAD} :
         /\ flag = TIMELY_SOURCE => delay <= integer_squareroot(SLOTS_PER_EPOCH)
         /\ flag = TIMELY_TARGET => target_matches
         /\ flag = TIMELY_HEAD =>
              head_matches /\ delay = MIN_ATTESTATION_INCLUSION_DELAY}

payload_index_matches(state, data, same_slot, parent_slot) ==
  IF same_slot
  THEN IF data.index = 0 THEN Accept(TRUE) ELSE Reject("payloadIndex")
  ELSE Accept(data.index =
                IF state.execution_payload_availability[
                     parent_slot % SLOTS_PER_HISTORICAL_ROOT] THEN 1 ELSE 0)

get_attestation_participation_flag_indices(state, data, delay, parent_slot) ==
  Then(get_block_root(state, data.target.epoch), LAMBDA target_root :
  Then(is_attestation_same_slot(state, data), LAMBDA same_slot :
  Then(payload_index_matches(state, data, same_slot, parent_slot), LAMBDA payload_matches :
  Then(get_block_root_at_slot(state, data.slot), LAMBDA head_root :
    IF data.source = justified_for(state, data.target.epoch)
    THEN Accept(timely_flags(state, data, target_root, head_root, payload_matches, delay))
    ELSE Reject("source")))))

(* The first selected committee that fails a guard, with the guard. *)
committee_bits_error(vote) ==
  LET selected == get_committee_indices(vote.committee_bits)
      size(k) == Len(committee_members(vote.data.slot, selected[k]))
      offset(k) == MapThenSumSet(size, 1..k-1)
      out_of_range(k) == \/ selected[k] >= committee_count(vote.data.target.epoch)
                         \/ size(k) > MAX_VALIDATORS_PER_COMMITTEE
      bits_missing(k) ==
        \/ offset(k) + size(k) > Len(vote.aggregation_bits)
        \/ \A j \in 1..size(k) : ~vote.aggregation_bits[offset(k) + j]
      failing == {k \in DOMAIN selected : out_of_range(k) \/ bits_missing(k)}
  IN  IF failing # {}
      THEN IF out_of_range(Min(failing)) THEN "committee" ELSE "bitfield"
      ELSE IF Len(vote.aggregation_bits) # offset(Len(selected) + 1)
           THEN "bitfield" ELSE "none"

set_participation(state, vote, flags) ==
  LET indices == get_attesting_indices(vote)
      add(participation) ==
        [i \in DOMAIN participation |->
           IF i \in indices THEN participation[i] \cup flags ELSE participation[i]]
  IN  IF vote.data.target.epoch = get_current_epoch(state)
      THEN IF DOMAIN state.current_epoch_participation # DOMAIN state.validators
           THEN Reject("state")
           ELSE Accept([state EXCEPT !.current_epoch_participation = add(@)])
      ELSE IF DOMAIN state.previous_epoch_participation # DOMAIN state.validators
           THEN Reject("state")
           ELSE Accept([state EXCEPT !.previous_epoch_participation = add(@)])

process_attestation(state, vote, parent_slot) ==
  LET data == vote.data
  IN  IF \/ data.target.epoch \notin {get_current_epoch(state), get_previous_epoch(state)}
         \/ data.target.epoch # epoch_at(data.slot)
      THEN Reject("target")
      ELSE IF data.slot + MIN_ATTESTATION_INCLUSION_DELAY > state.slot
      THEN Reject("inclusion")
      ELSE IF data.index >= 2 THEN Reject("payloadIndex")
      ELSE IF Len(vote.committee_bits) # MAX_COMMITTEES_PER_SLOT THEN Reject("committee")
      ELSE IF committee_bits_error(vote) # "none" THEN Reject(committee_bits_error(vote))
      ELSE Then(get_attestation_participation_flag_indices(
                  state, data, state.slot - data.slot, parent_slot),
             LAMBDA flags :
               IF ffg_is_valid_indexed_attestation(state, get_attesting_indices(vote))
               THEN set_participation(state, vote, flags) ELSE Reject("indexed"))

-----------------------------------------------------------------------------
(* Blocks.  A block names its own root; proposer selection, signatures and *)
(* hashes belong to the oracle.                                            *)

process_parent_execution_payload(state, block) ==
  IF block.parent_block_hash # state.latest_bid_block_hash
  THEN IF block.parent_requests_empty THEN Accept(state) ELSE Reject("parentPayload")
  ELSE IF ~block.parent_requests_match THEN Reject("parentPayload")
  ELSE Accept([state EXCEPT
         !.execution_payload_availability[
             state.latest_block_header.slot % SLOTS_PER_HISTORICAL_ROOT] = TRUE,
         !.latest_block_hash = state.latest_bid_block_hash])

process_block_header(state, block) ==
  IF /\ block.slot = state.slot
     /\ block.slot > state.latest_block_header.slot
     /\ block.parent_root = state.latest_block_header.root
     /\ block.proposer_index \in DOMAIN state.validators
     /\ ~state.validators[block.proposer_index].slashed
  THEN Accept([state EXCEPT !.latest_block_header =
         [slot |-> block.slot, proposer_index |-> block.proposer_index,
          parent_root |-> block.parent_root, root |-> block.root]])
  ELSE Reject("header")

process_execution_payload_bid(state, block) ==
  [state EXCEPT !.latest_bid_block_hash = block.block_hash]

(* A block in the fixed scope has none of the other operations.            *)
operations_within_limits(block) ==
  /\ block.deposit_count = 0
  /\ Len(block.attestations) <= MAX_ATTESTATIONS
  /\ block.bls_to_execution_change_count <= MAX_BLS_TO_EXECUTION_CHANGES
  /\ block.payload_attestation_count <= MAX_PAYLOAD_ATTESTATIONS

(* Mutant: an attestation that fails is passed over. *)
process_operations_passing_over(state, block, parent_slot) ==
  LET step(s, vote) ==
        LET result == process_attestation(s, vote, parent_slot)
        IN  IF result.ok THEN result.value ELSE s
  IN  IF operations_within_limits(block)
      THEN Accept(FoldLeft(step, state, block.attestations)) ELSE Reject("operations")

process_operations(state, block, parent_slot) ==
  LET step(result, vote) ==
        Then(result, LAMBDA s : process_attestation(s, vote, parent_slot))
  IN  IF operations_within_limits(block)
      THEN FoldLeft(step, Accept(state), block.attestations)
      ELSE Reject("operations")

(* Everything before the operations. *)
begin_block(state, block) ==
  Then(Then(process_parent_execution_payload(state, block),
            LAMBDA s : process_block_header(s, block)),
       LAMBDA s : Accept(process_execution_payload_bid(s, block)))

process_block(state, block) ==
  Then(begin_block(state, block),
       LAMBDA s : process_operations(s, block, state.latest_block_header.slot))

(* The operations that would change a validator record. *)
in_fixed_scope(block) == block.registry_operations = {} /\ block.parent_requests_empty

IsWellFormed(state) ==
  /\ Len(state.justification_bits) = 4
  /\ DOMAIN state.previous_epoch_participation = DOMAIN state.validators
  /\ DOMAIN state.current_epoch_participation = DOMAIN state.validators
  /\ DOMAIN state.block_roots = Ring
  /\ DOMAIN state.execution_payload_availability = Ring

ffg_state_transition(state, block) ==
  IF state.slot > UINT64_MAX \/ block.slot > UINT64_MAX THEN Reject("slot")
  ELSE IF ~IsWellFormed(state) THEN Reject("state")
  ELSE IF ~in_fixed_scope(block) THEN Reject("scope")
  ELSE Then(ffg_process_slots(state, block.slot), LAMBDA at_slot :
       Then(process_block(at_slot, block), LAMBDA result :
         IF oracle_accepts(at_slot, block, result) THEN Accept(result) ELSE Reject("oracle")))
=============================================================================
