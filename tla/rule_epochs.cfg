SPECIFICATION NodeSpec
CONSTANTS
  SLOTS_PER_EPOCH = 2
  SLOT_DURATION_MS = 1000
  PROPOSER_SCORE_BOOST = 20
  EFFECTIVE_BALANCE_INCREMENT = 100
  ATTESTATION_DUE_BPS = 2500
  PAYLOAD_ATTESTATION_DUE_BPS = 7500
  MIN_SEED_LOOKAHEAD = 1
  PTC_SIZE = 3
  REORG_HEAD_WEIGHT_THRESHOLD = 20
  Root = {0, 1, 2, 3, 4, 5, 6, 7}
  DefaultRoot = 0
  DefaultBlock <- MCDefaultBlock
  Hash = {0, 1, 2, 3, 4, 5, 6, 7}
  ValidatorIndex = {1, 2, 3, 4, 5, 6, 7, 8}
  REGISTRY <- RuleRegistry
  FFGData <- EpochsFFGData
  DefaultFFG <- EpochsDefaultFFG
  BlockBody <- EpochsBodies
  BeaconStates <- EpochsStates
  state_transition <- MCStateTransition
  process_slots <- MCProcessSlots
  process_justification_and_finalization <- MCPullUp
  is_valid_indexed_attestation <- RuleIsValidAttestation
  is_valid_indexed_payload_attestation <- MCIsValidPayloadAttestation
  get_beacon_committee <- RuleCommittee
  get_ptc <- RulePtc
  InvalidTransition = InvalidTransition
  ANCHOR_STATE <- EpochsAnchorState
  ANCHOR_BLOCK <- GenesisAnchor
  SIGNED_BLOCKS <- EpochsBlocks
  ATTESTATIONS <- EpochsAttestations
  SLASHINGS = {}
  PTC_MESSAGES = {}
  ENVELOPES = {}
  TickTimes = {1, 2, 3, 4, 5, 6}
  chain_of <- MCChainOf
  states_after <- MCStatesAfter
  CONFIRMATION_BYZANTINE_THRESHOLD = 10
  COMMITTEE_WEIGHT_ESTIMATION_ADJUSTMENT_FACTOR = 5
  VERIFICATION_HORIZON = 5
INVARIANTS
  RuleTypeOK
  ObservedNeverAheadOfJustified
PROPERTIES
  ConfirmedIsCanonical
  ConfirmedExtendsWithinEpoch
  NoBalancesNoConfirmation
CHECK_DEADLOCK FALSE
