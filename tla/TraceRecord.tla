------------------------------ MODULE TraceRecord ------------------------------
(***************************************************************************)
(* One record of a conformance trace: how fcr_trace_plugin.py projects a   *)
(* call of the rule to JSON, and what check_trace.py asks of it.           *)
(*                                                                         *)
(* A JSON value is a pair of its kind and its content.  A list that stands *)
(* for the items of a dictionary is the set of them.                       *)
(***************************************************************************)
EXTENDS Naturals, Sequences

CONSTANTS
  JSON_INTEGER_MAX,   \* the largest integer written as a JSON number
  PTC_SIZE,
  SOURCE_PIN

ASSUME RecordConstants == JSON_INTEGER_MAX \in Nat /\ PTC_SIZE \in Nat

Number(n) == <<"number", n>>
Decimal(n) == <<"decimal", n>>
Flag(b) == <<"boolean", b>>
Root(r) == <<"root", r>>
Text(s) == <<"text", s>>
Null == <<"null">>
Dict(f) == <<"dict", f>>
Items(set) == <<"items", set>>
List(seq) == <<"list", seq>>

(* The JSON list of the images of a sequence. *)
Map(op(_), seq) == List([i \in DOMAIN seq |-> op(seq[i])])

EXTERNALS == {"get_beacon_committee", "get_committee_count_per_slot",
              "process_slots", "process_justification_and_finalization"}

-----------------------------------------------------------------------------
(* The exporter. *)

Checkpoint(c) == Dict([epoch |-> Number(c.epoch), root |-> Root(c.root)])

Validator(v) ==
  Dict([effective_balance |-> Number(v.effective_balance), slashed |-> Flag(v.slashed),
        activation_epoch |-> Number(v.activation_epoch), exit_epoch |-> Number(v.exit_epoch)])

State(s) ==
  Dict([id |-> Root(s.id), genesis_time |-> Number(s.genesis_time), slot |-> Number(s.slot),
        validators |-> Map(Validator, s.validators),
        current_justified_checkpoint |-> Checkpoint(s.current_justified_checkpoint),
        finalized_checkpoint |-> Checkpoint(s.finalized_checkpoint)])

Node(n) == Dict([root |-> Root(n.root), payload_status |-> Number(n.payload_status)])

PayloadAttestation(a) ==
  Dict([attesting_indices |-> Map(Number, a.attesting_indices),
        data |-> Dict([beacon_block_root |-> Root(a.data.beacon_block_root),
                       slot |-> Number(a.data.slot),
                       payload_present |-> Flag(a.data.payload_present),
                       blob_data_available |-> Flag(a.data.blob_data_available)]),
        signature |-> Root(a.signature)])

Block(r, b) ==
  Dict([root |-> Root(r), slot |-> Number(b.slot), parent_root |-> Root(b.parent_root),
        proposer_index |-> Number(b.proposer_index),
        parent_block_hash |-> Root(b.parent_block_hash), block_hash |-> Root(b.block_hash),
        payload_attestations |-> Map(PayloadAttestation, b.payload_attestations)])

Vote(v) == IF v = "none" THEN Null ELSE Flag(v = "yes")
Votes(votes) ==
  Items({Dict([root |-> Root(r), votes |-> Map(Vote, votes[r])]) : r \in DOMAIN votes})

Store(s) ==
  Dict([time |-> Number(s.time), genesis_time |-> Number(s.genesis_time),
        justified_checkpoint |-> Checkpoint(s.justified_checkpoint),
        finalized_checkpoint |-> Checkpoint(s.finalized_checkpoint),
        unrealized_justified_checkpoint |-> Checkpoint(s.unrealized_justified_checkpoint),
        unrealized_finalized_checkpoint |-> Checkpoint(s.unrealized_finalized_checkpoint),
        proposer_boost_root |-> Root(s.proposer_boost_root),
        equivocating_indices |-> Items({Number(i) : i \in s.equivocating_indices}),
        blocks |-> Items({Block(r, s.blocks[r]) : r \in DOMAIN s.blocks}),
        block_states |-> Items({Dict([root |-> Root(r), state |-> State(s.block_states[r])])
                                  : r \in DOMAIN s.block_states}),
        block_timeliness |-> Items({Dict([root |-> Root(r), timely |-> Map(Flag, s.block_timeliness[r])])
                                      : r \in DOMAIN s.block_timeliness}),
        checkpoint_states |-> Items({Dict([checkpoint |-> Checkpoint(c), state |-> State(s.checkpoint_states[c])])
                                       : c \in DOMAIN s.checkpoint_states}),
        latest_messages |-> Items({Dict([index |-> Number(i), slot |-> Number(s.latest_messages[i].slot),
                                         payload_present |-> Flag(s.latest_messages[i].payload_present),
                                         root |-> Root(s.latest_messages[i].root)])
                                     : i \in DOMAIN s.latest_messages}),
        payloads |-> Items({Dict([root |-> Root(r),
                                  beacon_block_root |-> Root(s.payloads[r].beacon_block_root),
                                  parent_beacon_block_root |-> Root(s.payloads[r].parent_beacon_block_root),
                                  identity |-> Root(s.payloads[r].identity)]) : r \in DOMAIN s.payloads}),
        payload_timeliness_vote |-> Votes(s.payload_timeliness_vote),
        payload_data_availability_vote |-> Votes(s.payload_data_availability_vote),
        unrealized_justifications |->
          Items({Dict([root |-> Root(r), checkpoint |-> Checkpoint(s.unrealized_justifications[r])])
                   : r \in DOMAIN s.unrealized_justifications})])

CHECKPOINT_FIELDS == {"previous_epoch_observed_justified_checkpoint",
                      "current_epoch_observed_justified_checkpoint",
                      "previous_epoch_greatest_unrealized_checkpoint"}
FCR_FIELDS == CHECKPOINT_FIELDS \union {"confirmed_root", "previous_slot_head", "current_slot_head"}
FcrStore(fcr) ==
  Dict([k \in FCR_FIELDS |-> IF k \in CHECKPOINT_FIELDS THEN Checkpoint(fcr[k]) ELSE Root(fcr[k])])

CONFIG_FIELDS ==
  {"slots_per_epoch", "slot_duration_ms", "proposer_score_boost", "confirmation_byzantine_threshold",
   "committee_weight_estimation_adjustment_factor", "effective_balance_increment",
   "attestation_due_bps", "ptc_size", "payload_due_bps", "payload_attestation_due_bps",
   "reorg_head_weight_threshold", "min_seed_lookahead"}
(* Mutant: the PTC's threshold is written for its size.                    *)
threshold_for_size ==
  Dict([k \in CONFIG_FIELDS |-> Number(IF k = "ptc_size" THEN PTC_SIZE \div 2 ELSE 1)])
Config == Dict([k \in CONFIG_FIELDS |-> Number(IF k = "ptc_size" THEN PTC_SIZE ELSE 1)])

(* The answer to one call of an external; what its key holds depends on it. *)
Answer(call) ==
  Dict([k \in DOMAIN call.args \union {"state", "result"} |->
          IF k = "state" THEN State(call.state)
          ELSE IF k # "result" THEN Number(call.args[k])
          ELSE CASE call.function = "get_beacon_committee" -> Map(Number, call.result)
                 [] call.function = "get_committee_count_per_slot" -> Number(call.result)
                 [] OTHER -> State(call.result)])

Answers(calls, function) ==
  LET of == SelectSeq(calls, LAMBDA c : c.function = function)
  IN  Map(Answer, of)

RECURSIVE EncodeLargeIntegers(_)
EncodeLargeIntegers(v) ==
  CASE v[1] = "number" -> IF v[2] > JSON_INTEGER_MAX THEN Decimal(v[2]) ELSE v
    [] v[1] = "dict" -> Dict([k \in DOMAIN v[2] |-> EncodeLargeIntegers(v[2][k])])
    [] v[1] = "items" -> Items({EncodeLargeIntegers(x) : x \in v[2]})
    [] v[1] = "list" -> List([i \in DOMAIN v[2] |-> EncodeLargeIntegers(v[2][i])])
    [] OTHER -> v

(* The recorded reads of one state, by the key of the read. *)
CommitteeReads(calls, id) ==
  {c \in {calls[i] : i \in DOMAIN calls} : c.function = "get_beacon_committee" /\ c.state.id = id}
(* Mutant: the counts read of any state are attached.                      *)
counts_of_any_state(calls, id) ==
  {c \in {calls[i] : i \in DOMAIN calls} : c.function = "get_committee_count_per_slot"}
CountReads(calls, id) ==
  {c \in {calls[i] : i \in DOMAIN calls} : c.function = "get_committee_count_per_slot" /\ c.state.id = id}

(* Two reads of one state with one key and two results are refused. *)
ReadsConsistent(calls) ==
  \A i, j \in DOMAIN calls :
    /\ calls[i].function = calls[j].function
    /\ calls[i].function \in {"get_beacon_committee", "get_committee_count_per_slot"}
    /\ calls[i].state.id = calls[j].state.id
    /\ calls[i].args = calls[j].args
    => calls[i].result = calls[j].result

(* The reads of a state are attached to every copy of it in the record. *)
RECURSIVE AttachReadViews(_, _)
AttachReadViews(v, calls) ==
  CASE v[1] = "dict" ->
         LET inner == [k \in DOMAIN v[2] |-> AttachReadViews(v[2][k], calls)]
             views == [beacon_committee_reads |->
                         Items({Dict([slot |-> Number(c.args.slot), index |-> Number(c.args.index),
                                      result |-> Map(Number, c.result)])
                                  : c \in CommitteeReads(calls, v[2].id[2])}),
                       committee_count_reads |->
                         Items({Dict([epoch |-> Number(c.args.epoch), result |-> Number(c.result)])
                                  : c \in CountReads(calls, v[2].id[2])})]
         IN  IF {"id", "validators"} \subseteq DOMAIN v[2]
             THEN Dict([k \in DOMAIN inner \union DOMAIN views |->
                          IF k \in DOMAIN views THEN views[k] ELSE inner[k]])
             ELSE Dict(inner)
    [] v[1] = "items" -> Items({AttachReadViews(x, calls) : x \in v[2]})
    [] v[1] = "list" -> List([i \in DOMAIN v[2] |-> AttachReadViews(v[2][i], calls)])
    [] OTHER -> v

(* The ambiguity guard: a function gives one key one answer. *)
AnswersUnambiguous(externals) ==
  \A f \in EXTERNALS : \A i, j \in DOMAIN externals[2][f][2] :
    LET a == externals[2][f][2][i][2]
        b == externals[2][f][2][j][2]
    IN  (\A k \in DOMAIN a \ {"result"} : a[k] = b[k]) => a["result"] = b["result"]

-----------------------------------------------------------------------------
(* The reader: a schema is the kind a value has, and what is inside it.    *)

ListOf(schema) == <<"list of", schema>>
Keys(schemas) == <<"keys", schemas>>
TInt == <<"integer">>
TRoot == <<"root">>
TBool == <<"boolean">>
TVote == <<"nullable boolean">>
TTimely == <<"two booleans">>

Elements(v) == IF v[1] = "list" THEN {v[2][i] : i \in DOMAIN v[2]} ELSE v[2]

RECURSIVE Conforms(_, _)
Conforms(v, schema) ==
  CASE schema[1] = "integer" -> v[1] \in {"number", "decimal"}
    [] schema[1] = "root" -> v[1] = "root"
    [] schema[1] = "boolean" -> v[1] = "boolean"
    [] schema[1] = "nullable boolean" -> v[1] \in {"boolean", "null"}
    [] schema[1] = "two booleans" ->
         v[1] = "list" /\ Len(v[2]) = 2 /\ \A x \in Elements(v) : x[1] = "boolean"
    [] schema[1] = "list of" ->
         v[1] \in {"list", "items"} /\ \A x \in Elements(v) : Conforms(x, schema[2])
    [] schema[1] = "keys" ->
         /\ v[1] = "dict"
         /\ DOMAIN v[2] = DOMAIN schema[2]
         /\ \A k \in DOMAIN v[2] : Conforms(v[2][k], schema[2][k])

TCheckpoint == Keys([epoch |-> TInt, root |-> TRoot])

TState ==
  Keys([id |-> TRoot, genesis_time |-> TInt, slot |-> TInt,
        validators |-> ListOf(Keys([effective_balance |-> TInt, slashed |-> TBool,
                                    activation_epoch |-> TInt, exit_epoch |-> TInt])),
        current_justified_checkpoint |-> TCheckpoint, finalized_checkpoint |-> TCheckpoint,
        beacon_committee_reads |-> ListOf(Keys([slot |-> TInt, index |-> TInt, result |-> ListOf(TInt)])),
        committee_count_reads |-> ListOf(Keys([epoch |-> TInt, result |-> TInt]))])

TBlock ==
  Keys([root |-> TRoot, slot |-> TInt, parent_root |-> TRoot, proposer_index |-> TInt,
        parent_block_hash |-> TRoot, block_hash |-> TRoot,
        payload_attestations |->
          ListOf(Keys([attesting_indices |-> ListOf(TInt), signature |-> TRoot,
                       data |-> Keys([slot |-> TInt, beacon_block_root |-> TRoot,
                                      payload_present |-> TBool, blob_data_available |-> TBool])]))])

TVotes == ListOf(Keys([root |-> TRoot, votes |-> ListOf(TVote)]))

TStore ==
  Keys([time |-> TInt, genesis_time |-> TInt,
        justified_checkpoint |-> TCheckpoint, finalized_checkpoint |-> TCheckpoint,
        unrealized_justified_checkpoint |-> TCheckpoint,
        unrealized_finalized_checkpoint |-> TCheckpoint,
        proposer_boost_root |-> TRoot, equivocating_indices |-> ListOf(TInt),
        blocks |-> ListOf(TBlock),
        block_states |-> ListOf(Keys([root |-> TRoot, state |-> TState])),
        block_timeliness |-> ListOf(Keys([root |-> TRoot, timely |-> TTimely])),
        checkpoint_states |-> ListOf(Keys([checkpoint |-> TCheckpoint, state |-> TState])),
        latest_messages |-> ListOf(Keys([index |-> TInt, slot |-> TInt, root |-> TRoot,
                                         payload_present |-> TBool])),
        unrealized_justifications |-> ListOf(Keys([root |-> TRoot, checkpoint |-> TCheckpoint])),
        payloads |-> ListOf(Keys([root |-> TRoot, beacon_block_root |-> TRoot,
                                  parent_beacon_block_root |-> TRoot, identity |-> TRoot])),
        payload_timeliness_vote |-> TVotes, payload_data_availability_vote |-> TVotes])

PayloadKeysMatch(store) ==
  \A p \in Elements(store[2].payloads) : p[2].root = p[2].beacon_block_root

TFcr == Keys([k \in FCR_FIELDS |-> IF k \in CHECKPOINT_FIELDS THEN TCheckpoint ELSE TRoot])

TExternals ==
  Keys([get_beacon_committee |->
          ListOf(Keys([state |-> TState, slot |-> TInt, index |-> TInt, result |-> ListOf(TInt)])),
        get_committee_count_per_slot |->
          ListOf(Keys([state |-> TState, epoch |-> TInt, result |-> TInt])),
        process_slots |-> ListOf(Keys([state |-> TState, slot |-> TInt, result |-> TState])),
        process_justification_and_finalization |-> ListOf(Keys([state |-> TState, result |-> TState]))])

(* Mutant: the length of a vote list is not compared.                      *)
votes_of_any_length(store, config) == TRUE
VotesHavePtcSize(store, config) ==
  \A k \in {"payload_timeliness_vote", "payload_data_availability_vote"} :
    \A item \in Elements(store[2][k]) : Len(item[2].votes[2]) = config[2].ptc_size[2]

RECORD_FIELDS == {"schema", "source_pin", "head_before", "test_id", "fork", "preset", "call_index",
                  "config", "store", "fcr_before", "fcr_after", "externals"}
OPTIONAL_FIELD == "safe_execution_block_hash_after"

(* One line of a trace is accepted. *)
RecordAccepted(record) ==
  LET r == record[2]
  IN  /\ DOMAIN r \ {OPTIONAL_FIELD} = RECORD_FIELDS
      /\ r["schema"] = Number(2)
      /\ r["source_pin"] = Text(SOURCE_PIN)
      /\ OPTIONAL_FIELD \in DOMAIN r => Conforms(r[OPTIONAL_FIELD], TRoot)
      /\ Conforms(r["head_before"], Keys([root |-> TRoot, payload_status |-> TInt]))
      /\ r["head_before"][2].payload_status[2] \in {0, 1, 2}
      /\ \A k \in {"test_id", "fork", "preset"} : r[k][1] = "text"
      /\ r["fork"] = Text("gloas")
      /\ Conforms(r["call_index"], TInt)
      /\ Conforms(r["config"], Keys([k \in CONFIG_FIELDS |-> TInt]))
      /\ Conforms(r["store"], TStore)
      /\ PayloadKeysMatch(r["store"])
      /\ VotesHavePtcSize(r["store"], r["config"])
      /\ Conforms(r["fcr_before"], TFcr)
      /\ Conforms(r["fcr_after"], TFcr)
      /\ Conforms(r["externals"], TExternals)
=============================================================================
