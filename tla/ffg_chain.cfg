SPECIFICATION BundleSpec
CONSTANTS
  SLOTS_PER_EPOCH = 2
  SLOTS_PER_HISTORICAL_ROOT = 4
  EFFECTIVE_BALANCE_INCREMENT = 1
  MIN_ATTESTATION_INCLUSION_DELAY = 1
  MAX_COMMITTEES_PER_SLOT = 1
  MAX_VALIDATORS_PER_COMMITTEE = 3
  MAX_ATTESTATIONS = 8
  MAX_BLS_TO_EXECUTION_CHANGES = 16
  MAX_PAYLOAD_ATTESTATIONS = 4
  UINT64_MAX = 1000
  committee_count <- MCCommitteeCount
  committee_members <- MCCommittee
  oracle_accepts <- MCOracle
  GENESIS <- MCGenesis
  BLOCKS <- MCBlocks
  LAST_SLOT = 10
INVARIANTS
  BitsTellJustifiedEpochs
  FinalityHasLink
  JustifiedRootOnChain
  BundleSound
PROPERTIES
  CallsMatchTransition
CHECK_DEADLOCK FALSE
