SPECIFICATION NodeSpec
CONSTANTS
  SLOTS_PER_EPOCH = 2
  SLOT_DURATION_MS = 1000
  PROPOSER_SCORE_BOOST = 40
  EFFECTIVE_BALANCE_INCREMENT = 100
  ATTESTATION_DUE_BPS = 2500
  PAYLOAD_ATTESTATION_DUE_BPS = 7500
  MIN_SEED_LOOKAHEAD = 1
  PTC_SIZE = 3
  REORG_HEAD_WEIGHT_THRESHOLD = 20
  Root = {0, 1, 2, 3, 4}
  DefaultRoot = 0
  DefaultBlock <- MCDefaultBlock
  Hash = {0, 1, 2, 3, 4}
  ValidatorIndex = {1, 2, 3, 4, 5, 6, 7, 8}
  REGISTRY <- RuleRegistry
  FFGData <- MCFFGData
  DefaultFFG <- MCDefaultFFG
  BlockBody <- MCBlockBody
  BeaconStates <- ForkStates
  state_transition <- MCStateTransition
  process_slots <- MCProcessSlots
  process_justification_and_finalization <- MCPullUp
  is_valid_indexed_attestation <- RuleIsValidAttestation
  is_valid_indexed_payload_attestation <- MCIsValidPayloadAttestation
  get_beacon_committee <- RuleCommittee
  get_ptc <- RulePtc
  InvalidTransition = InvalidTransition
  ANCHOR_STATE <- ForkAnchorState
  ANCHOR_BLOCK <- GenesisAnchor
  SIGNED_BLOCKS <- ForkBlocks
  ATTESTATIONS <- ForkAttestations
  SLASHINGS <- ForkSlashings
  PTC_MESSAGES = {}
  ENVELOPES = {1, 3}
  TickTimes = {1, 2, 3}
  chain_of <- MCChainOf
  states_after <- MCStatesAfter
  CONFIRMATION_BYZANTINE_THRESHOLD = 15
  COMMITTEE_WEIGHT_ESTIMATION_ADJUSTMENT_FACTOR = 5
  VERIFICATION_HORIZON = 5
INVARIANTS
  ConfirmedOutweighsRivals
  SafeExecutionBlockVerified
CHECK_DEADLOCK FALSE
