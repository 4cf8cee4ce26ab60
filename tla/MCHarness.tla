----------------------------- MODULE MCHarness -----------------------------
(***************************************************************************)
(* The trace export with its reader, and the differential: validate.sh     *)
(* runs the differential and then the smoke test of the traces.  They are  *)
(* processes that share no state, so one of them is run.                   *)
(*                                                                         *)
(* Differential: the script's rows, in its epochs of eight slots.  Traces: *)
(* tests, one of them on another fork in one of the scenes, on a store of  *)
(* three blocks: without a boost, with a boosted child of the slot before, *)
(* and with a boosted child that comes after empty slots.                  *)
(***************************************************************************)
EXTENDS TraceExport, Differential

VARIABLE script

harness_vars == <<script, vars, row_vars>>

MCEpoch(slot) == slot \div SLOTS_PER_EPOCH

FAR_FUTURE == JSON_INTEGER_MAX + 7

MCState(id, slot) ==
  [id |-> id, genesis_time |-> 0, slot |-> slot,
   validators |-> <<[effective_balance |-> 2, slashed |-> FALSE,
                     activation_epoch |-> 0, exit_epoch |-> FAR_FUTURE]>>,
   current_justified_checkpoint |-> cp(0, 1), finalized_checkpoint |-> cp(0, 1)]

MCBlock(parent, slot, attestations) ==
  [parent_root |-> parent, slot |-> slot, proposer_index |-> 0, parent_block_hash |-> 0,
   block_hash |-> 7, payload_attestations |-> attestations]

MCPayloadAttestation ==
  [attesting_indices |-> <<0, 0>>, signature |-> 9,
   data |-> [beacon_block_root |-> 1, slot |-> 1, payload_present |-> TRUE,
             blob_data_available |-> FALSE]]

MCStore(boost) ==
  [time |-> 24, genesis_time |-> 0,
   justified_checkpoint |-> cp(0, 1), finalized_checkpoint |-> cp(0, 1),
   unrealized_justified_checkpoint |-> cp(0, 1), unrealized_finalized_checkpoint |-> cp(0, 1),
   proposer_boost_root |-> boost, equivocating_indices |-> {1},
   blocks |-> (1 :> MCBlock(0, 1, <<>>) @@ 2 :> MCBlock(1, 2, <<MCPayloadAttestation>>)
               @@ 3 :> MCBlock(1, 4, <<>>)),
   block_states |-> (1 :> MCState(11, 1) @@ 2 :> MCState(12, 2)
                     @@ 3 :> MCState(16, 4)),
   block_timeliness |-> (2 :> <<TRUE, FALSE>>),
   checkpoint_states |-> (cp(0, 1) :> MCState(11, 1)),
   latest_messages |-> (0 :> [slot |-> 1, payload_present |-> FALSE, root |-> 2]),
   payloads |-> (2 :> [beacon_block_root |-> 2, parent_beacon_block_root |-> 1, identity |-> 8]),
   payload_timeliness_vote |-> (2 :> <<"none", "yes">>),
   payload_data_availability_vote |-> (2 :> <<"no", "none">>),
   unrealized_justifications |-> (1 :> cp(0, 1) @@ 2 :> cp(0, 1))]

MCSnapshots == {MCStore(b) : b \in {0, 2, 3}}

MCPlainSnapshot == {MCStore(0)}

MCHead(store) == [root |-> 2, payload_status |-> 1]

MCFcr ==
  [confirmed_root |-> 1, previous_slot_head |-> 1, current_slot_head |-> 2,
   previous_epoch_observed_justified_checkpoint |-> cp(0, 1),
   current_epoch_observed_justified_checkpoint |-> cp(0, 1),
   previous_epoch_greatest_unrealized_checkpoint |-> cp(0, 1)]

(* A committee of the parent of the boosted child, the counts of both      *)
(* states for its epoch, and the two transitions of the other state.       *)
MCCalls(store) ==
  LET parent == store.block_states[1]
      head == store.block_states[2]
  IN  {[function |-> "get_beacon_committee", state |-> parent, args |-> [slot |-> 1, index |-> 0]],
       [function |-> "get_committee_count_per_slot", state |-> parent, args |-> [epoch |-> 0]],
       [function |-> "get_committee_count_per_slot", state |-> head, args |-> [epoch |-> 0]],
       [function |-> "process_slots", state |-> head, args |-> [slot |-> 4]],
       [function |-> "process_justification_and_finalization", state |-> head,
        args |-> [x \in {} |-> 0]]}

(* An answer, and one that does not fit with it.                           *)
MCResults(call) ==
  CASE call.function = "get_beacon_committee" -> {<<0, 2>>, <<2>>}
    [] call.function = "get_committee_count_per_slot" -> {IF call.state.id = 11 THEN 2 ELSE 3}
    [] call.function = "process_slots" -> {MCState(13, call.args.slot), MCState(14, call.args.slot)}
    [] OTHER -> {MCState(15, call.state.slot)}

(* One test of one call on any of the stores, with external calls; two     *)
(* tests of two calls in two workers; and a test after one on another fork. *)
MCScene(workers, forks, snapshots, captures, external) ==
  [workers |-> workers, tests |-> DOMAIN forks, fork |-> forks,
   snapshots |-> snapshots, max_captures |-> captures, max_external |-> external]

MCScenes ==
  {MCScene({}, [t \in {"t1"} |-> "gloas"], MCSnapshots, 1, 2),
   MCScene({"w1", "w2"}, [t \in {"t1", "t2"} |-> "gloas"], MCPlainSnapshot, 2, 0),
   MCScene({"w1"}, [t \in {"t1", "t2"} |-> IF t = "t2" THEN "fulu" ELSE "gloas"], MCPlainSnapshot, 1, 1)}

-----------------------------------------------------------------------------
HarnessInit ==
  /\ script \in {"traces", "differential"}
  /\ Init
  /\ script # "traces" => scene.workers = {} /\ ~parallel
  /\ RowsInit

RunTraces == script = "traces" /\ Next /\ UNCHANGED <<script, row_vars>>
RunDifferential == script = "differential" /\ RowsNext /\ UNCHANGED <<script, vars>>

HarnessNext == RunTraces \/ RunDifferential

HarnessSpec == HarnessInit /\ [][HarnessNext]_harness_vars
=============================================================================
