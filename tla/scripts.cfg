SPECIFICATION Spec
CONSTANTS
  SLOTS_PER_EPOCH = 3
  SLOT_DURATION_MS = 12000
  PROPOSER_SCORE_BOOST = 40
  EFFECTIVE_BALANCE_INCREMENT = 100
  ATTESTATION_DUE_BPS = 2500
  PAYLOAD_ATTESTATION_DUE_BPS = 7500
  MIN_SEED_LOOKAHEAD = 1
  PTC_SIZE = 4
  REORG_HEAD_WEIGHT_THRESHOLD = 20
  Root = {0, 1, 2, 3, 4}
  DefaultRoot = 0
  DefaultBlock <- MCDefaultBlock
  Hash = {0, 101, 102, 103, 104}
  ValidatorIndex = {0, 1, 2, 3, 4, 5, 6, 7, 8}
  REGISTRY <- MCRegistry
  FFGData = {"none"}
  DefaultFFG = "none"
  BlockBody = {"none"}
  BeaconStates <- MCStates
  state_transition <- MCTransition
  process_slots <- MCProcessSlots
  process_justification_and_finalization <- MCPullUp
  is_valid_indexed_attestation <- MCIsValid
  is_valid_indexed_payload_attestation <- MCIsValidPtc
  get_beacon_committee <- MCCommittee
  get_ptc <- MCPtc
  InvalidTransition = InvalidTransition
  CONFIRMATION_BYZANTINE_THRESHOLD = 25
  COMMITTEE_WEIGHT_ESTIMATION_ADJUSTMENT_FACTOR = 5
  EPOCHS = 2
  BALANCES <- MCBalances
  VOTERS = {0, 1}
  NoInput = NoInput
INVARIANTS
  EstimatesSound
  HelperAnswersHold
CHECK_DEADLOCK FALSE
