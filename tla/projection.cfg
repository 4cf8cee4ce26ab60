SPECIFICATION Spec
CONSTANTS
  SLOTS_PER_EPOCH = 3
  SLOT_DURATION_MS = 2000
  PROPOSER_SCORE_BOOST = 40
  EFFECTIVE_BALANCE_INCREMENT = 1
  ATTESTATION_DUE_BPS = 2500
  PAYLOAD_ATTESTATION_DUE_BPS = 7500
  MIN_SEED_LOOKAHEAD = 1
  PTC_SIZE = 1
  REORG_HEAD_WEIGHT_THRESHOLD = 20
  Root <- MCRoot
  DefaultRoot = 0
  DefaultBlock <- MCDefaultBlock
  Hash = {0}
  ValidatorIndex <- MCValidators
  REGISTRY <- MCRegistry
  FFGData = {0}
  DefaultFFG = 0
  BlockBody = {}
  BeaconStates = {}
  state_transition <- MCStateTransition
  process_slots <- MCProcessSlots
  process_justification_and_finalization <- MCPjf
  is_valid_indexed_attestation <- MCValidAttestation
  is_valid_indexed_payload_attestation <- MCValidPayload
  get_beacon_committee <- MCBeaconCommittee
  get_ptc <- MCPtc
  InvalidTransition = InvalidTransition
  SLOTS_PER_HISTORICAL_ROOT = 12
  MIN_ATTESTATION_INCLUSION_DELAY = 1
  MAX_COMMITTEES_PER_SLOT = 2
  MAX_VALIDATORS_PER_COMMITTEE = 2
  MAX_ATTESTATIONS = 8
  MAX_BLS_TO_EXECUTION_CHANGES = 16
  MAX_PAYLOAD_ATTESTATIONS = 4
  UINT64_MAX = 1000
  committee_count <- MCCommitteeCount
  committee_members <- MCCommittee
  oracle_accepts <- MCOracle
  GENESIS <- MCGenesis
  FREE_PLANS <- MCFreePlans
  build <- MCBuild
  FREE_SLOTS = 9
  FREE_ERRORS = 3
  CASES = {"full", "review", "late", "skipped", "forks", "later", "epoch_one", "two_step", "free"}
INVARIANTS
  RunLawsPass
  EvidenceHolds
CHECK_DEADLOCK FALSE
