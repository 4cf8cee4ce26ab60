SPECIFICATION ObstaclesSpec
CONSTANTS
  SLOTS_PER_EPOCH = 32
  SLOT_DURATION_MS = 12000
  PROPOSER_SCORE_BOOST = 40
  EFFECTIVE_BALANCE_INCREMENT = 100
  ATTESTATION_DUE_BPS = 2500
  PAYLOAD_ATTESTATION_DUE_BPS = 7500
  MIN_SEED_LOOKAHEAD = 1
  PTC_SIZE = 2
  REORG_HEAD_WEIGHT_THRESHOLD = 20
  Root = {0, 1, 2, 3}
  DefaultRoot = 0
  DefaultBlock <- FixtureDefaultBlock
  Hash = {0, 1001, 1002, 1003}
  ValidatorIndex <- ScriptIndices
  REGISTRY <- ScriptRegistry
  FFGData = {"none"}
  DefaultFFG = "none"
  BlockBody = {"none"}
  BeaconStates <- FixtureStates
  state_transition <- FixtureTransition
  process_slots <- FixtureProcessSlots
  process_justification_and_finalization <- FixturePullUp
  is_valid_indexed_attestation <- FixtureIsValidAttestation
  is_valid_indexed_payload_attestation <- FixtureIsValidPtc
  get_beacon_committee <- FixtureCommittee
  get_ptc <- FixturePtc
  InvalidTransition = InvalidTransition
  CONFIRMATION_BYZANTINE_THRESHOLD = 25
  COMMITTEE_WEIGHT_ESTIMATION_ADJUSTMENT_FACTOR = 5
  SETTINGS <- ScriptSettings
  BRANCH_SLOTS = 13
  ACCEPTED_SLOTS = 18
  FREE_SLOTS = 2
  RELEASES <- FreeReleases
  Attack <- FreeAttack
  NoOwner = "nobody"
  GENESIS_STORE <- initial_store
INVARIANTS
  ScriptConfirmsChild
CHECK_DEADLOCK FALSE
