SPECIFICATION Spec
CONSTANTS
  SLOTS_PER_EPOCH = 2
  SLOT_DURATION_MS = 2000
  PROPOSER_SCORE_BOOST = 40
  EFFECTIVE_BALANCE_INCREMENT = 1
  ATTESTATION_DUE_BPS = 2500
  PAYLOAD_ATTESTATION_DUE_BPS = 7500
  MIN_SEED_LOOKAHEAD = 1
  PTC_SIZE = 3
  REORG_HEAD_WEIGHT_THRESHOLD = 20
  Root = {0, 1, 2, 3, 4}
  DefaultRoot = 0
  DefaultBlock <- MCDefaultBlock
  Hash = {0, 1, 2, 3, 4}
  ValidatorIndex = {1, 2, 3, 4}
  REGISTRY <- MCRegistry
  FFGData <- MCFFGData
  DefaultFFG <- MCDefaultFFG
  BlockBody <- MCBlockBody
  BeaconStates <- VotesStates
  state_transition <- MCStateTransition
  process_slots <- MCProcessSlots
  process_justification_and_finalization <- MCPullUp
  is_valid_indexed_attestation <- MCIsValidAttestation
  is_valid_indexed_payload_attestation <- MCIsValidPayloadAttestation
  get_beacon_committee <- MCCommittee
  get_ptc <- MCPtc
  InvalidTransition = InvalidTransition
  ANCHOR_STATE <- VotesAnchorState
  ANCHOR_BLOCK <- GenesisAnchor
  SIGNED_BLOCKS <- VotesBlocks
  ATTESTATIONS <- VotesAttestations
  SLASHINGS <- VotesSlashings
  PTC_MESSAGES <- VotesPtcMessages
  ENVELOPES = {1, 3}
  TickTimes = {2, 3, 4, 6}
  chain_of <- MCChainOf
  states_after <- MCStatesAfter
INVARIANTS
  TypeOK
  FullBranchesVerified
  LatestMessagesSound
  WeightsSplitAtForks
  BoostIsTimelyBlock
  PtcVotesPaired
PROPERTIES
  LatestMessagesOnlyMoveForward
  BoostHeldForTheSlot
  ImportHappensOnce
CHECK_DEADLOCK FALSE
