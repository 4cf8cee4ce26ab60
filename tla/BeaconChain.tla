---------------------------- MODULE BeaconChain ----------------------------
(***************************************************************************)
(* The data the fork choice works on, and the beacon-chain helpers it      *)
(* reads: slots and epochs, checkpoints, blocks, attestations, the         *)
(* projected beacon state, and the functions the code leaves external      *)
(* (its BeaconFunctionInterface).                                          *)
(*                                                                         *)
(* Roots are natural numbers, because get_head breaks ties by their order. *)
(* The validator registry is one constant: no function of the model ever   *)
(* writes a validator record, so every state but the default one (what a   *)
(* read at a missing key returns) holds the same registry.                 *)
(***************************************************************************)
EXTENDS Integers, Sequences, FiniteSetsExt

CONSTANTS
  SLOTS_PER_EPOCH,
  SLOT_DURATION_MS,
  PROPOSER_SCORE_BOOST,
  EFFECTIVE_BALANCE_INCREMENT,
  ATTESTATION_DUE_BPS,
  PAYLOAD_ATTESTATION_DUE_BPS,
  MIN_SEED_LOOKAHEAD,
  PTC_SIZE,
  REORG_HEAD_WEIGHT_THRESHOLD,
  Root,             \* block roots, a set of naturals
  DefaultRoot,      \* the root in a default checkpoint
  DefaultBlock,     \* what a read of an unknown block returns
  Hash,             \* execution block hashes
  ValidatorIndex,   \* the validators of the registry
  REGISTRY,         \* the registry: a record per validator
  FFGData,          \* state fields that only the state transition reads
  DefaultFFG,
  BlockBody,        \* block fields that only the state transition reads
  BeaconStates      \* the beacon states of the runs in scope

(* The functions of the code's BeaconFunctionInterface. *)
CONSTANTS
  state_transition(_, _),
  process_slots(_, _),
  process_justification_and_finalization(_),
  is_valid_indexed_attestation(_, _),
  is_valid_indexed_payload_attestation(_),
  get_beacon_committee(_),
  get_ptc(_),
  InvalidTransition

NoRoot == -1        \* python's Root(): no block holds the boost
GENESIS_SLOT == 0
GENESIS_EPOCH == 0
BASIS_POINTS == 10000

ASSUME ConfigAssumption ==
  /\ SLOTS_PER_EPOCH \in Nat \ {0}
  /\ SLOT_DURATION_MS \in Nat \ {0}
  /\ PTC_SIZE \in Nat
  /\ {PROPOSER_SCORE_BOOST, EFFECTIVE_BALANCE_INCREMENT, ATTESTATION_DUE_BPS,
      PAYLOAD_ATTESTATION_DUE_BPS, MIN_SEED_LOOKAHEAD,
      REORG_HEAD_WEIGHT_THRESHOLD} \subseteq Nat
  /\ Root \subseteq Nat
  /\ DefaultRoot \in Root
  /\ DefaultFFG \in FFGData
  /\ DefaultBlock.slot = 0

(* The registry is a list, and balances are uint64. *)
ASSUME RegistryAssumption ==
  /\ IsFiniteSet(ValidatorIndex)
  /\ \A i \in ValidatorIndex : REGISTRY[i].effective_balance \in Nat

(* Slots start on whole seconds, as the catch-up loop of on_tick needs. *)
ASSUME WholeSecondsAssumption ==
  \E seconds \in 1..SLOT_DURATION_MS : SLOT_DURATION_MS = 1000 * seconds

-----------------------------------------------------------------------------
(* Containers. *)

PENDING == "pending"
EMPTY == "empty"
FULL == "full"
PayloadStatus == {PENDING, EMPTY, FULL}

Checkpoint == [epoch : Nat, root : Root]
ForkChoiceNode == [root : Root, payload_status : PayloadStatus]
LatestMessage == [slot : Nat, root : Root, payload_present : BOOLEAN]

NewNode(root, status) == [root |-> root, payload_status |-> status]

PayloadAttestationMessage ==
  [validator_index : ValidatorIndex, beacon_block_root : Root, slot : Nat,
   payload_present : BOOLEAN, blob_data_available : BOOLEAN]

AttestationData ==
  [slot : Nat, index : Nat, beacon_block_root : Root,
   source : Checkpoint, target : Checkpoint]

Attestation == [attesting_indices : SUBSET ValidatorIndex, data : AttestationData]

(* payload_attestations is the flattened list of the body's PTC votes. *)
BeaconBlock ==
  [slot : Nat, parent_root : Root, proposer_index : ValidatorIndex,
   parent_block_hash : Hash, block_hash : Hash, body : BlockBody,
   payload_attestations : Seq(PayloadAttestationMessage)]

SignedBeaconBlock == [root : Root, message : BeaconBlock]

AttesterSlashing == [attestation_1 : Attestation, attestation_2 : Attestation]

BeaconState ==
  [slot : Nat, validators : SUBSET ValidatorIndex,
   current_justified_checkpoint : Checkpoint,
   finalized_checkpoint : Checkpoint, ffg : FFGData]

DefaultCheckpoint == [epoch |-> 0, root |-> DefaultRoot]

(* A read of a missing key of block_states or checkpoint_states. *)
DefaultState ==
  [slot |-> 0, validators |-> {},
   current_justified_checkpoint |-> DefaultCheckpoint,
   finalized_checkpoint |-> DefaultCheckpoint, ffg |-> DefaultFFG]

is_slashable_attestation_data(data_1, data_2) ==
  \/ data_1 # data_2 /\ data_1.target.epoch = data_2.target.epoch
  \/ /\ data_1.source.epoch < data_2.source.epoch
     /\ data_2.target.epoch < data_1.target.epoch

-----------------------------------------------------------------------------
(* Time and registry helpers. *)

compute_epoch_at_slot(slot) == slot \div SLOTS_PER_EPOCH

compute_start_slot_at_epoch(epoch) == epoch * SLOTS_PER_EPOCH

saturating_sub(a, b) == IF a > b THEN a - b ELSE 0

is_active_validator(validator, epoch) ==
  validator.activation_epoch <= epoch /\ epoch < validator.exit_epoch

get_active_validator_indices(state, epoch) ==
  {i \in state.validators : is_active_validator(REGISTRY[i], epoch)}

get_current_epoch(state) == compute_epoch_at_slot(state.slot)

balance_of(indices) ==
  MapThenSumSet(LAMBDA i : REGISTRY[i].effective_balance, indices)

get_total_active_balance(state) ==
  LET balance == balance_of(get_active_validator_indices(state, get_current_epoch(state)))
  IN  IF balance < EFFECTIVE_BALANCE_INCREMENT
      THEN EFFECTIVE_BALANCE_INCREMENT ELSE balance
=============================================================================
