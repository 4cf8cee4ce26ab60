----------------------------- MODULE Differential -----------------------------
(***************************************************************************)
(* run_differential.py: every row is run by the Python specification and   *)
(* by the concrete transition, and the two answers are compared.           *)
(*                                                                         *)
(* The Python specification is external.  It computes the values the       *)
(* concrete transition computes; what is its own is where it raises: an    *)
(* assertion is known by the innermost function of the specification on    *)
(* the stack and by its source line, and the script turns the two into the *)
(* error class it expects of the other side.                               *)
(***************************************************************************)
EXTENDS DifferentialRows

CONSTANTS
  EFFECTIVE_BALANCE_INCREMENT,
  MIN_ATTESTATION_INCLUSION_DELAY,
  MAX_COMMITTEES_PER_SLOT,
  MAX_VALIDATORS_PER_COMMITTEE,
  MAX_ATTESTATIONS,
  MAX_BLS_TO_EXECUTION_CHANGES,
  MAX_PAYLOAD_ATTESTATIONS,
  FAULTS     \* bound: the answers a faulty evaluation may spoil or stop at

committee_count(e) == 2
committee_members(slot, index) ==
  IF index = 0 THEN <<0, 1>> ELSE IF index = 1 THEN <<2, 3>> ELSE <<>>
oracle_accepts(pre, block, result) == block.oracle_accept

T == INSTANCE FFGTransition

VARIABLES
  phase,        \* of main
  hook,         \* what verify_block_signature answers now
  expected,     \* the answers of the Python specification so far
  actual,       \* those of the evaluation
  at_row,       \* the row, control or scope row to look at next
  differences,
  exit_code

row_vars == <<phase, hook, expected, actual, at_row, differences, exit_code>>

-----------------------------------------------------------------------------
(* The Python specification, up to where it raises. *)

Raise(function, line) == [ok |-> FALSE, function |-> function, line |-> line]

py_get_block_root_at_slot(state, slot) ==
  IF slot < state.slot /\ state.slot <= slot + SLOTS_PER_HISTORICAL_ROOT
  THEN T!get_block_root_at_slot(state, slot)
  ELSE Raise("get_block_root_at_slot", "assert slot < state.slot")

(* The only assertion below these is the read of a block root. *)
py_process_justification_and_finalization(state) ==
  LET result == T!ffg_process_justification_and_finalization(state)
  IN  IF result.ok THEN result ELSE Raise("get_block_root_at_slot", "assert slot < state.slot")

py_process_slots(state, slot) ==
  IF state.slot < slot THEN T!ffg_process_slots(state, slot)
  ELSE Raise("process_slots", "assert state.slot < slot")

(* The line that fails in the loop over the committees, with the offset.  *)
py_committees(vote_) ==
  LET step(acc, index) ==
        LET size == Len(committee_members(vote_.data.slot, index))
            set_bits == {j \in 1..size : acc.offset + j <= Len(vote_.aggregation_bits)
                                          /\ vote_.aggregation_bits[acc.offset + j]}
        IN  IF acc.line # "none" THEN acc
            ELSE IF index >= committee_count(vote_.data.target.epoch)
            THEN [acc EXCEPT !.line = "committee_index < get_committee_count_per_slot"]
            ELSE IF acc.offset + size > Len(vote_.aggregation_bits) \/ set_bits = {}
            THEN [acc EXCEPT !.line = "committee_attesters"]
            ELSE [acc EXCEPT !.offset = @ + size]
  IN  FoldLeft(step, [offset |-> 0, line |-> "none"],
               SelectSeq(<<0, 1, 2, 3>>, LAMBDA index : vote_.committee_bits[index + 1]))

py_flags(state, data, delay, parent_slot) ==
  LET flags == T!get_attestation_participation_flag_indices(state, data, delay, parent_slot)
      target_root == py_get_block_root_at_slot(state, data.target.epoch * SLOTS_PER_EPOCH)
      head_root == py_get_block_root_at_slot(state, data.slot)
      same_slot == T!is_attestation_same_slot(state, data)
  IN  IF ~target_root.ok THEN target_root
      ELSE IF ~head_root.ok THEN head_root
      ELSE IF ~same_slot.ok
      THEN Raise("get_block_root_at_slot", "assert slot < state.slot")
      ELSE IF same_slot.value /\ data.index # 0
      THEN Raise("get_attestation_participation_flag_indices", "assert data.index == 0")
      ELSE IF data.source # T!justified_for(state, data.target.epoch)
      THEN Raise("get_attestation_participation_flag_indices", "assert is_matching_source")
      ELSE flags

py_process_attestation(state, vote_, parent_slot) ==
  LET data == vote_.data
      committees == py_committees(vote_)
      attesters == T!get_attesting_indices(vote_)
      flags == py_flags(state, data, state.slot - data.slot, parent_slot)
      fails(line) == Raise("process_attestation", line)
  IN  IF data.target.epoch \notin {T!get_previous_epoch(state), T!get_current_epoch(state)}
      THEN fails("assert data.target.epoch in")
      ELSE IF data.target.epoch # T!epoch_at(data.slot) THEN fails("assert data.target.epoch ==")
      ELSE IF data.slot + MIN_ATTESTATION_INCLUSION_DELAY > state.slot
      THEN fails("MIN_ATTESTATION_INCLUSION_DELAY")
      ELSE IF data.index >= 2 THEN fails("assert data.index < 2")
      ELSE IF committees.line # "none" THEN fails(committees.line)
      ELSE IF Len(vote_.aggregation_bits) # committees.offset THEN fails("len(aggregation_bits)")
      ELSE IF ~flags.ok THEN flags
      ELSE IF ~(0 < Cardinality(attesters) /\ attesters \subseteq DOMAIN state.validators)
      THEN fails("is_valid_indexed_attestation")
      ELSE T!set_participation(state, vote_, flags.value)

py_process_attestations(state, votes, parent_slot) ==
  LET step(result, v) ==
        IF result.ok THEN py_process_attestation(result.value, v, parent_slot) ELSE result
  IN  FoldLeft(step, T!Accept(state), votes)

py_process_block(state, block) ==
  LET payload == T!process_parent_execution_payload(state, block)
      header == T!process_block_header(payload.value, block)
      bid == T!process_execution_payload_bid(header.value, block)
  IN  IF ~payload.ok THEN Raise("process_parent_execution_payload", "assert")
      ELSE IF ~header.ok THEN Raise("process_block_header", "assert")
      ELSE IF block.deposit_count # 0 THEN Raise("process_operations", "assert")
      ELSE py_process_attestations(bid, block.attestations, state.latest_block_header.slot)

py_state_transition(state, block, signature_is_valid) ==
  LET advanced == py_process_slots(state, block.slot)
  IN  IF ~advanced.ok THEN advanced
      ELSE IF ~signature_is_valid THEN Raise("state_transition", "assert verify_block_signature")
      ELSE py_process_block(advanced.value, block)

-----------------------------------------------------------------------------
(* The script's answer for a row. *)

AttestationFunctions ==
  {"process_attestation", "get_attestation_participation_flag_indices",
   "get_block_root_at_slot", "is_attestation_same_slot"}

attestation_error_class(raised) ==
  CASE raised.function = "get_block_root_at_slot" -> "root"
    [] raised.function = "get_attestation_participation_flag_indices" ->
         IF raised.line = "assert data.index == 0" THEN "payloadIndex" ELSE "source"
    [] raised.line = "committee_index < get_committee_count_per_slot" -> "committee"
    [] raised.line \in {"assert data.target.epoch in", "assert data.target.epoch =="} -> "target"
    [] raised.line = "MIN_ATTESTATION_INCLUSION_DELAY" -> "inclusion"
    [] raised.line = "assert data.index < 2" -> "payloadIndex"
    [] raised.line \in {"len(aggregation_bits)", "committee_attesters"} -> "bitfield"
    [] raised.line = "is_valid_indexed_attestation" -> "indexed"

(* Mutant: the outermost function of the stack decides. *)
transition_error_class_outermost(raised) == "oracle"

transition_error_class(raised) ==
  CASE raised.function \in AttestationFunctions -> attestation_error_class(raised)
    [] raised.function = "process_block_header" -> "header"
    [] raised.function = "process_operations" -> "operations"
    [] raised.function = "process_parent_execution_payload" -> "parentPayload"
    [] raised.function = "process_slots" -> "slot"
    [] raised.function = "state_transition" -> "oracle"

error_class(row, raised) ==
  CASE row.action = "transition" -> transition_error_class(raised)
    [] row.action = "slots" -> "slot"
    [] row.action \in {"root", "pjf"} -> "root"
    [] OTHER -> attestation_error_class(raised)

run_row(row, signature_is_valid) ==
  CASE row.action = "root" -> py_get_block_root_at_slot(row.state, row.query_slot)
    [] row.action = "attestation" -> py_process_attestation(row.state, row.vote, row.parent_slot)
    [] row.action = "attestations" ->
         py_process_attestations(row.state, row.votes, row.parent_slot)
    [] row.action = "transition" ->
         py_state_transition(row.state, row.block, signature_is_valid)
    [] row.action = "slots" -> py_process_slots(row.state, row.target_slot)
    [] OTHER -> py_process_justification_and_finalization(row.state)

pyspec_result(row, signature_is_valid) ==
  LET result == run_row(row, signature_is_valid)
  IN  IF result.ok THEN result ELSE T!Reject(error_class(row, result))

verdict(row) == IF row.block.oracle_accept THEN "accepts" ELSE "rejects"

(* Mutant: the answer of the first transition row stays. *)
hook_for_once(row, answer) ==
  IF row.action = "transition" /\ answer = "real" THEN verdict(row) ELSE answer

(* A transition row replaces the check of the block's signature for all   *)
(* the rows after it, too.                                                 *)
hook_for(row, answer) == IF row.action = "transition" THEN verdict(row) ELSE answer

-----------------------------------------------------------------------------
(* The evaluation of the concrete transition on a row. *)

runCase(row) ==
  LET step(result, v) ==
        T!Then(result, LAMBDA s : T!process_attestation(s, v, row.parent_slot))
  IN  CASE row.action = "pjf" -> T!ffg_process_justification_and_finalization(row.state)
        [] row.action = "root" -> T!get_block_root_at_slot(row.state, row.query_slot)
        [] row.action = "attestation" ->
             T!process_attestation(row.state, row.vote, row.parent_slot)
        [] row.action = "attestations" -> FoldLeft(step, T!Accept(row.state), row.votes)
        [] row.action = "slots" -> T!ffg_process_slots(row.state, row.target_slot)
        [] row.action = "transition" -> T!ffg_state_transition(row.state, row.block)

right_answers == [k \in DOMAIN lean_rows |-> runCase(lean_rows[k])]

(* Another answer: the other verdict, or a value that is off by one slot. *)
other_answers(answer) ==
  IF ~answer.ok THEN {T!Reject("another"), T!Accept(base(0, 2, Balance))}
  ELSE {T!Reject("slot")}
       \cup IF "slot" \in DOMAIN answer.value
            THEN {[answer EXCEPT !.value.slot = @ + 1]} ELSE {}

-----------------------------------------------------------------------------
(* main. *)

Retained ==
  <<"genesis_time", "header_proposer_index", "header_parent_root",
    "effective_balance", "slashed", "activation_epoch", "exit_epoch">>

(* Mutant: a component of the header is not in the answers. *)
with_change_but_parent(answer, key) ==
  CASE key = "genesis_time" -> [answer EXCEPT !.value.genesis_time = @ + 1]
    [] key = "header_proposer_index" ->
         [answer EXCEPT !.value.latest_block_header.proposer_index = @ + 1]
    [] key = "header_parent_root" -> answer
    [] key = "slashed" -> [answer EXCEPT !.value.validators[0].slashed = ~@]
    [] OTHER -> [answer EXCEPT !.value.validators[0][key] = @ + 1]

with_change(answer, key) ==
  CASE key = "genesis_time" -> [answer EXCEPT !.value.genesis_time = @ + 1]
    [] key = "header_proposer_index" ->
         [answer EXCEPT !.value.latest_block_header.proposer_index = @ + 1]
    [] key = "header_parent_root" ->
         [answer EXCEPT !.value.latest_block_header.parent_root = @ + 1]
    [] key = "slashed" -> [answer EXCEPT !.value.validators[0].slashed = ~@]
    [] OTHER -> [answer EXCEPT !.value.validators[0][key] = @ + 1]

(* The change of a retained component of the first answer is not noticed. *)
control_fails(key) == ~actual[1].ok \/ with_change(actual[1], key) = expected[1]

RowsInit ==
  /\ phase = "revision"
  /\ hook = "real"
  /\ expected = <<>>
  /\ actual = <<>>
  /\ at_row = 1
  /\ differences = 0
  /\ exit_code = 0

Exit(code) == phase' = "exit" /\ exit_code' = code

CheckRevision ==
  /\ phase = "revision"
  /\ \/ phase' = "pyspec" /\ UNCHANGED exit_code
     \/ Exit(2)
  /\ UNCHANGED <<hook, expected, actual, at_row, differences>>

ExpectRow ==
  /\ phase = "pyspec"
  /\ \E row \in {cases[at_row]} :
       /\ hook' = hook_for(row, hook)
       /\ expected' = Append(expected, pyspec_result(row, hook' = "accepts"))
  /\ IF at_row < Len(cases)
     THEN at_row' = at_row + 1 /\ UNCHANGED phase
     ELSE at_row' = 1 /\ phase' = "evaluate"
  /\ UNCHANGED <<actual, differences, exit_code>>

(* The evaluation is another process: it answers every row, or one of the  *)
(* rows differently, or fails.                                             *)
Evaluate ==
  /\ phase = "evaluate"
  /\ \E answers \in {right_answers} :
       \/ actual' = answers
       \/ \E k \in FAULTS \cap DOMAIN answers : \E other \in other_answers(answers[k]) :
            actual' = [answers EXCEPT ![k] = other]
       \/ \E k \in FAULTS \cap DOMAIN answers : actual' = RemoveAt(answers, k)
  /\ IF Len(actual') = Len(lean_rows)
     THEN phase' = "compare" /\ UNCHANGED exit_code ELSE Exit(1)
  /\ UNCHANGED <<hook, expected, at_row, differences>>

EvaluationFails ==
  /\ phase = "evaluate"
  /\ Exit(1)
  /\ UNCHANGED <<hook, expected, actual, at_row, differences>>

Count(mismatch) == differences' = differences + IF mismatch THEN 1 ELSE 0

(* Mutant: the last item is left out. *)
NextOf_but_last(n, after) ==
  IF at_row < n - 1 THEN at_row' = at_row + 1 /\ UNCHANGED phase
  ELSE at_row' = 1 /\ phase' = after

(* The next of n items of this phase, or the phase after it. *)
NextOf(n, after) ==
  IF at_row < n THEN at_row' = at_row + 1 /\ UNCHANGED phase
  ELSE at_row' = 1 /\ phase' = after

CompareRow ==
  /\ phase = "compare"
  /\ Count(expected[at_row] # actual[at_row])
  /\ NextOf(Len(cases), "controls")
  /\ UNCHANGED <<hook, expected, actual, exit_code>>

Control ==
  /\ phase = "controls"
  /\ Count(control_fails(Retained[at_row]))
  /\ NextOf(Len(Retained), "scope")
  /\ UNCHANGED <<hook, expected, actual, exit_code>>

ScopeRow ==
  /\ phase = "scope"
  /\ Count(actual[Len(cases) + at_row] # T!Reject("scope"))
  /\ NextOf(Len(scope_rows), "bad_state")
  /\ UNCHANGED <<hook, expected, actual, exit_code>>

BadState ==
  /\ phase = "bad_state"
  /\ Count(Last(actual) # T!Reject("state"))
  /\ Exit(IF differences' # 0 THEN 1 ELSE 0)
  /\ UNCHANGED <<hook, expected, actual, at_row>>

RowsNext ==
  \/ CheckRevision
  \/ ExpectRow
  \/ Evaluate
  \/ EvaluationFails
  \/ CompareRow
  \/ Control
  \/ ScopeRow
  \/ BadState

-----------------------------------------------------------------------------
(* Properties. *)

(* The rows show no difference: an assertion of the Python specification   *)
(* is always of the class of the guard that rejects on the other side, and *)
(* both sides meet their guards in the same order.  As the answer on the   *)
(* other side depends on the row alone, the replaced signature check of a  *)
(* transition row answers for no other row.                                *)
RowsAgree(right) == expected = SubSeq(right, 1, Len(cases))

(* The script succeeds only if the evaluation has given every right answer. *)
SuccessMeansAllRight(right) ==
  exit_code = 0 =>
    /\ expected = SubSeq(actual, 1, Len(cases))
    /\ actual = right

(* And an evaluation without a fault passes: no control and no scope row    *)
(* raises a false alarm.                                                   *)
NoFalseAlarm(right) == actual = right => differences = 0

(* The rows agree, each is answered as itself, and the exit code is that   *)
(* of the comparison: no fault passes and nothing else fails.              *)
DifferentialSound ==
  phase \in {"evaluate", "bad_state", "exit"} =>
    \E right \in {right_answers} :
      /\ phase = "evaluate" => RowsAgree(right)
      /\ phase = "bad_state" => NoFalseAlarm(right)
      /\ phase = "exit" => SuccessMeansAllRight(right)
=============================================================================
