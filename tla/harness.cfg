SPECIFICATION HarnessSpec
CONSTANTS
  JSON_INTEGER_MAX = 8
  PTC_SIZE = 2
  SOURCE_PIN = "13f3"
  MAIN = "main"
  SCENES <- MCScenes
  INITIAL_FCR <- MCFcr
  CALLS <- MCCalls
  GET_HEAD <- MCHead
  RESULTS <- MCResults
  SLOTS_PER_EPOCH = 8
  SLOTS_PER_HISTORICAL_ROOT = 64
  UINT64_MAX = 1000000
  EFFECTIVE_BALANCE_INCREMENT = 1
  MIN_ATTESTATION_INCLUSION_DELAY = 1
  MAX_COMMITTEES_PER_SLOT = 4
  MAX_VALIDATORS_PER_COMMITTEE = 2048
  MAX_ATTESTATIONS = 8
  MAX_BLS_TO_EXECUTION_CHANGES = 16
  MAX_PAYLOAD_ATTESTATIONS = 4
  FAULTS = {1, 2, 25, 45, 49, 55, 59, 60, 63, 64}
  epoch_of <- MCEpoch
  COMMITTEES_PER_SLOT = 2
  NONE = "none"
INVARIANTS
  TracesComplete
  RecordsSound
  DifferentialSound
CHECK_DEADLOCK FALSE
