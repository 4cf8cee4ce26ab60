--------------------------- MODULE DifferentialRows ---------------------------
(***************************************************************************)
(* cases(): the rows that the Python specification and the concrete        *)
(* transition are both run on.  A row is a state, an action and what the   *)
(* action is given; in a state, flags are sets, and the roots of the ring  *)
(* are the slots themselves.                                               *)
(***************************************************************************)
EXTENDS Integers, FiniteSetsExt, SequencesExt, TLC

CONSTANTS SLOTS_PER_EPOCH, SLOTS_PER_HISTORICAL_ROOT, UINT64_MAX

Flags(n) == [i \in 0..n-1 |-> {}]

(* Two validators that have hit the target. *)
Target2 == <<{1}, {1}>>
flags_of(sets) == [i \in 0..Len(sets)-1 |-> sets[i + 1]]
cp(epoch, root) == [epoch |-> epoch, root |-> root]

base(slot, count, balance) ==
  [genesis_time |-> 1234, slot |-> slot,
   latest_block_header |-> [slot |-> 0, proposer_index |-> 0, parent_root |-> 9, root |-> 100],
   validators |-> [i \in 0..count-1 |->
                     [effective_balance |-> balance, slashed |-> FALSE,
                      activation_epoch |-> 0, exit_epoch |-> UINT64_MAX]],
   justification_bits |-> <<FALSE, FALSE, FALSE, FALSE>>,
   previous_justified_checkpoint |-> cp(0, 0),
   current_justified_checkpoint |-> cp(0, 0),
   finalized_checkpoint |-> cp(0, 0),
   previous_epoch_participation |-> Flags(count),
   current_epoch_participation |-> Flags(count),
   block_roots |-> [k \in 0..SLOTS_PER_HISTORICAL_ROOT-1 |-> k],
   execution_payload_availability |-> [k \in 0..SLOTS_PER_HISTORICAL_ROOT-1 |-> FALSE],
   latest_block_hash |-> 0, latest_bid_block_hash |-> 0]

Balance == 32

(* The changes a row makes to its base state. *)
NoChange == [x \in {} |-> x]
previous(sets) == "previous_epoch_participation" :> flags_of(sets)
current(sets) == "current_epoch_participation" :> flags_of(sets)
both == previous(Target2) @@ current(Target2)
bits(sequence) == "justification_bits" :> sequence
pj(epoch, root) == "previous_justified_checkpoint" :> cp(epoch, root)
cj(epoch, root) == "current_justified_checkpoint" :> cp(epoch, root)

add(name, slot, changes) ==
  [name |-> name, action |-> "pjf", state |-> changes @@ base(slot, 2, Balance)]

floor(name, count) == [name |-> name, action |-> "pjf", state |-> base(23, count, 1)]

root_query(name, query_slot) ==
  [name |-> name, action |-> "root", state |-> base(65, 2, Balance), query_slot |-> query_slot]

slots_row(name, start, target) ==
  [name |-> name, action |-> "slots", state |-> base(start, 2, Balance), target_slot |-> target]

pjf_rows ==
  LET T == TRUE  F == FALSE IN
  <<add("epoch0_start_stub", 0, NoChange),
    add("epoch0_end_stub", 7, previous(Target2)),
    add("epoch1_start_stub", 8, current(Target2)),
    add("epoch1_end_stub", 15, previous(Target2)),
    add("slot16_previous_support", 16, previous(Target2)),
    add("slot16_current_empty", 16, NoChange),
    add("epoch_start_fabricated_current_rejected", 16, current(Target2)),
    add("current_support", 23, current(Target2)),
    add("previous_and_current", 23, both),
    add("one_boundary_without_support", 23, NoChange),
    add("two_boundaries_without_support", 31, NoChange),
    add("many_boundaries_without_support", 55, NoChange),
    add("finalize_rule_1", 39, previous(Target2) @@ bits(<<F, T, T, F>>) @@ pj(1, 9)),
    add("finalize_rule_2", 39, previous(Target2) @@ bits(<<T, T, F, F>>) @@ pj(2, 17)),
    add("finalize_rule_3", 39, both @@ bits(<<F, T, F, F>>) @@ cj(2, 17)),
    add("finalize_rule_4", 39, both @@ cj(3, 25)),
    add("finalize_order", 39, both @@ bits(<<T, T, T, F>>) @@ pj(1, 9) @@ cj(3, 25)),
    floor("balance_floor_below_quorum", 2), floor("balance_floor_at_increment", 1)>>

read_rows ==
  <<root_query("root_wrap_valid", 1), root_query("root_wrap_expired", 0),
    root_query("root_current_slot_invalid", 65),
    slots_row("one_skipped_boundary", 0, 8), slots_row("two_skipped_boundaries", 0, 16),
    slots_row("many_skipped_boundaries", 0, 40), slots_row("slot16_gap_from_previous", 14, 17),
    slots_row("root_ring_wraparound", 63, 66), slots_row("slots_strict_target", 16, 16)>>

-----------------------------------------------------------------------------
(* Attestations: the vote of the row without changes is of slot 16, for the *)
(* block of that slot, by the first committee.                             *)

data_16 ==
  [slot |-> 16, index |-> 0, beacon_block_root |-> 16, source |-> cp(0, 0), target |-> cp(2, 16)]

vote(data, committee_bits, aggregation_bits) ==
  [data |-> data, committee_bits |-> committee_bits, aggregation_bits |-> aggregation_bits]

First == <<TRUE, FALSE, FALSE, FALSE>>
All == <<TRUE, TRUE>>

attestation(name, slot, a_vote, parent_slot, changes) ==
  [name |-> name, action |-> "attestation", state |-> changes @@ base(slot, 4, Balance),
   vote |-> a_vote, parent_slot |-> parent_slot]

at(name, slot, data) == attestation(name, slot, vote(data, First, All), 16, NoChange)

by(name, committee_bits, aggregation_bits) ==
  attestation(name, 17, vote(data_16, committee_bits, aggregation_bits), 16, NoChange)

(* No block at slot 15's end, and its payload revealed. *)
skipped_full ==
  ("block_roots" :> [[k \in 0..SLOTS_PER_HISTORICAL_ROOT-1 |-> k] EXCEPT ![15] = 16])
    @@ ("execution_payload_availability" :> [k \in 0..SLOTS_PER_HISTORICAL_ROOT-1 |-> k = 15])

attestation_rows ==
  LET T == TRUE  F == FALSE IN
  <<at("current_same_slot", 17, data_16),
    attestation("current_duplicate", 17, vote(data_16, First, All), 16,
                current(<<{0, 1, 2}, {0, 1, 2}, {}, {}>>)),
    attestation("overlapping_aggregate", 17, vote(data_16, First, All), 16,
                current(<<{0, 1, 2}, {}, {}, {}>>)),
    at("previous_target_last_inclusion", 31, data_16),
    at("previous_target_early", 24, data_16),
    at("first_expired_inclusion", 32, data_16),
    at("wrong_target_accepted_source", 17, [data_16 EXCEPT !.target = cp(2, 99)]),
    at("invalid_source", 17, [data_16 EXCEPT !.source = cp(1, 9)]),
    at("wire_index_two", 17, [data_16 EXCEPT !.index = 2]),
    at("same_slot_index_one", 17, [data_16 EXCEPT !.index = 1]),
    by("committee_out_of_count", <<F, F, T, F>>, All),
    by("committee_empty_selection", <<F, F, F, F>>, <<>>),
    by("committee_empty_attesters", First, <<F, F>>),
    by("aggregation_short", First, <<T>>),
    by("aggregation_long", First, <<T, T, F>>),
    by("two_committees", <<T, T, F, F>>, <<T, T, T, F>>),
    attestation("skipped_slot_full_payload", 17,
                vote([data_16 EXCEPT !.index = 1], First, All), 15, skipped_full),
    attestation("skipped_slot_wrong_payload", 17, vote(data_16, First, All), 15, skipped_full)>>

sequence(name, first_bits) ==
  [name |-> name, action |-> "attestations", state |-> base(17, 4, Balance), parent_slot |-> 16,
   votes |-> <<vote(data_16, First, first_bits), vote(data_16, First, All)>>]

-----------------------------------------------------------------------------
(* Whole transitions: a block on the state of slot 16 with one vote. *)

block_17 ==
  [slot |-> 17, parent_root |-> 100, proposer_index |-> 0, root |-> 117,
   parent_block_hash |-> 1, block_hash |-> 2,
   parent_requests_empty |-> TRUE, parent_requests_match |-> FALSE,
   deposit_count |-> 0, registry_operations |-> {}, oracle_accept |-> TRUE,
   bls_to_execution_change_count |-> 0, payload_attestation_count |-> 0,
   attestations |-> <<vote([data_16 EXCEPT !.beacon_block_root = 100, !.target = cp(2, 100)],
                           First, All)>>]

at_slot(slot) == [block_17 EXCEPT !.slot = slot, !.root = (100 + slot) % 256]

with_data(data) == [block_17 EXCEPT !.attestations = <<[@[1] EXCEPT !.data = data]>>]

slashed_proposer ==
  "validators" :> [base(16, 4, Balance).validators EXCEPT ![0].slashed = TRUE]

transition_row(name, start, block, changes) ==
  [name |-> name, action |-> "transition", state |-> changes @@ base(start, 4, Balance),
   block |-> block]

on_16(name, block) == transition_row(name, 16, block, NoChange)

transition_rows ==
  LET data == block_17.attestations[1].data IN
  <<on_16("transition_accept", block_17),
    on_16("transition_parent_full", [block_17 EXCEPT !.parent_block_hash = 0,
                                                     !.parent_requests_match = TRUE]),
    on_16("transition_oracle_reject", [block_17 EXCEPT !.oracle_accept = FALSE]),
    on_16("transition_bad_slot", at_slot(16)),
    on_16("transition_bad_parent", [block_17 EXCEPT !.parent_root = 99]),
    on_16("transition_bad_source", with_data([data EXCEPT !.source = cp(1, 9)])),
    on_16("transition_bad_index", with_data([data EXCEPT !.index = 2])),
    on_16("transition_deposits", [block_17 EXCEPT !.deposit_count = 1]),
    transition_row("transition_slashed_proposer", 16, block_17, slashed_proposer),
    on_16("transition_skipped_slot", at_slot(18)),
    transition_row("transition_genesis_stub", 0,
      [with_data([data EXCEPT !.slot = 0, !.target = cp(0, 100)]) EXCEPT !.slot = 1, !.root = 101],
      NoChange)>>

cases ==
  pjf_rows \o read_rows \o attestation_rows
    \o <<sequence("duplicate_aggregates", All), sequence("overlapping_aggregates", <<TRUE, FALSE>>)>>
    \o transition_rows

-----------------------------------------------------------------------------
(* The rows that only the concrete transition is given. *)

fixture_row(name) == cases[CHOOSE k \in DOMAIN cases : cases[k].name = name]

scope_rows ==
  LET accepted == fixture_row("transition_accept")
      with_operation(operation) ==
        [accepted EXCEPT !.name = operation, !.block.registry_operations = {operation}]
  IN  <<with_operation("proposer_slashing_count"), with_operation("attester_slashing_count"),
        with_operation("voluntary_exit_count"),
        [fixture_row("transition_parent_full") EXCEPT
           !.name = "scope_parent_requests", !.block.parent_requests_empty = FALSE]>>

(* One participation entry is missing. *)
bad_initial_state ==
  [fixture_row("transition_accept") EXCEPT
     !.name = "bad_initial_state",
     !.state.current_epoch_participation = [i \in 0..2 |-> {}]]

lean_rows == cases \o scope_rows \o <<bad_initial_state>>
=============================================================================
