------------------------------ MODULE FFGChain ------------------------------
(***************************************************************************)
(* Calls of state_transition on one chain, one iteration of their loops at *)
(* a time: a step per slot of process_slots, one for the block up to its   *)
(* operations, one per attestation of process_operations.  A call that a   *)
(* guard rejects gives back the state it was called with.                  *)
(*                                                                         *)
(* justified and links are history: the epochs that became justified, and  *)
(* the pairs of epochs <<source, target>> whose votes justified them.      *)
(***************************************************************************)
EXTENDS FFGTransition

CONSTANTS
  GENESIS,      \* the state of the chain's genesis
  BLOCKS(_),    \* the blocks a call may bring, by the state it starts from
  LAST_SLOT     \* bound: no call reaches past this slot

VARIABLES
  state,        \* the state, in the middle of a call the partial result
  before,       \* the state and the history when the call began
  at_slot,      \* the state the loop over the slots ended with
  block,        \* the block of the call
  phase,        \* "idle", "slots" or "operations"
  done,         \* the number of attestations already processed
  justified,
  links

vars == <<state, before, at_slot, block, phase, done, justified, links>>

state_fields ==
  {"slot", "validators", "justification_bits", "previous_justified_checkpoint",
   "current_justified_checkpoint", "finalized_checkpoint", "previous_epoch_participation",
   "current_epoch_participation", "block_roots", "latest_block_header",
   "execution_payload_availability", "latest_block_hash", "latest_bid_block_hash"}

has_state_fields(s) == s = [field \in state_fields |-> s[field]]

(* A checkpoint and a header have no other fields. *)
is_checkpoint(c) == c = [epoch |-> c.epoch, root |-> c.root]

is_header(h) ==
  h = [slot |-> h.slot, proposer_index |-> h.proposer_index,
       parent_root |-> h.parent_root, root |-> h.root]

ASSUME GenesisAssumption ==
  /\ has_state_fields(GENESIS)
  /\ is_checkpoint(GENESIS.previous_justified_checkpoint)
  /\ is_checkpoint(GENESIS.current_justified_checkpoint)
  /\ is_checkpoint(GENESIS.finalized_checkpoint)
  /\ is_header(GENESIS.latest_block_header)
  /\ GENESIS.slot \in Nat
  /\ get_current_epoch(GENESIS) <= 1
  /\ GENESIS.justification_bits = <<FALSE, FALSE, FALSE, FALSE>>
  /\ GENESIS.previous_justified_checkpoint.epoch = 0
  /\ GENESIS.current_justified_checkpoint.epoch = 0
  /\ GENESIS.finalized_checkpoint.epoch = 0

NoBlock == [slot |-> 0, attestations |-> <<>>]

block_fields ==
  {"slot", "parent_root", "proposer_index", "root", "parent_block_hash", "block_hash",
   "parent_requests_empty", "parent_requests_match", "deposit_count",
   "registry_operations", "bls_to_execution_change_count", "payload_attestation_count",
   "attestations"}

is_attestation(vote) ==
  /\ vote = [aggregation_bits |-> vote.aggregation_bits,
             committee_bits |-> vote.committee_bits, data |-> vote.data]
  /\ vote.data = [slot |-> vote.data.slot, index |-> vote.data.index,
                  beacon_block_root |-> vote.data.beacon_block_root,
                  source |-> vote.data.source, target |-> vote.data.target]
  /\ vote.data.slot \in Nat
  /\ is_checkpoint(vote.data.source)
  /\ is_checkpoint(vote.data.target)

(* What the type of a block says: its fields and a list of attestations. *)
is_block(b) ==
  /\ b = [field \in block_fields |-> b[field]]
  /\ b.slot \in Nat
  /\ Len(b.attestations) \in Nat
  /\ DOMAIN b.attestations = 1..Len(b.attestations)
  /\ \A k \in DOMAIN b.attestations : is_attestation(b.attestations[k])

Init ==
  /\ state = GENESIS
  /\ before = [state |-> GENESIS, justified |-> {0}, links |-> {}]
  /\ at_slot = GENESIS
  /\ block = NoBlock
  /\ phase = "idle"
  /\ done = 0
  /\ justified = {0}
  /\ links = {}

(* The epochs whose votes reach two thirds when the epoch of s ends, each  *)
(* with the justified epoch its votes name as their source.                *)
new_links(s) ==
  LET epoch == get_current_epoch(s)
      supported(e) ==
        LET indices == get_unslashed_participating_indices(s, e)
        IN  /\ indices.ok
            /\ has_two_thirds(get_total_balance(s, indices.value),
                              get_total_active_balance(s))
  IN  IF epoch <= 1 \/ (s.slot + 1) % SLOTS_PER_EPOCH # 0 THEN {}
      ELSE (IF supported(epoch - 1)
            THEN {<<s.previous_justified_checkpoint.epoch, epoch - 1>>} ELSE {})
           \cup (IF supported(epoch)
                 THEN {<<s.current_justified_checkpoint.epoch, epoch>>} ELSE {})

-----------------------------------------------------------------------------
(* The call.  state_transition checks its guards before any processing.    *)

BeginCall(new_block) ==
  /\ phase = "idle"
  /\ is_block(new_block)
  /\ new_block.slot <= UINT64_MAX
  /\ state.slot < new_block.slot
  /\ IsWellFormed(state)
  /\ in_fixed_scope(new_block)
  /\ before' = [state |-> state, justified |-> justified, links |-> links]
  /\ block' = new_block
  /\ phase' = "slots"
  /\ UNCHANGED <<state, at_slot, done, justified, links>>

AdvanceSlot ==
  /\ phase = "slots"
  /\ state.slot < block.slot
  /\ advance_slot(state).ok
  /\ state' = advance_slot(state).value
  /\ links' = links \cup new_links(state)
  /\ justified' = justified \cup {link[2] : link \in new_links(state)}
  /\ UNCHANGED <<before, at_slot, block, phase, done>>

BeginBlock ==
  /\ phase = "slots"
  /\ state.slot = block.slot
  /\ begin_block(state, block).ok
  /\ operations_within_limits(block)
  /\ state' = begin_block(state, block).value
  /\ at_slot' = state
  /\ phase' = "operations"
  /\ done' = 0
  /\ UNCHANGED <<before, block, justified, links>>

next_attestation ==
  process_attestation(state, block.attestations[done + 1], at_slot.latest_block_header.slot)

NextAttestation ==
  /\ phase = "operations"
  /\ done < Len(block.attestations)
  /\ next_attestation.ok
  /\ state' = next_attestation.value
  /\ done' = done + 1
  /\ UNCHANGED <<before, at_slot, block, phase, justified, links>>

Return ==
  /\ phase = "operations"
  /\ done = Len(block.attestations)
  /\ oracle_accepts(at_slot, block, state)
  /\ phase' = "idle"
  /\ UNCHANGED <<state, before, at_slot, block, done, justified, links>>

(* The step the call is at raises. *)
step_fails ==
  \/ phase = "slots" /\ IF state.slot < block.slot THEN ~advance_slot(state).ok
                        ELSE ~(begin_block(state, block).ok /\ operations_within_limits(block))
  \/ phase = "operations" /\ IF done < Len(block.attestations) THEN ~next_attestation.ok
                             ELSE ~oracle_accepts(at_slot, block, state)

Raise ==
  /\ step_fails
  /\ state' = before.state
  /\ justified' = before.justified
  /\ links' = before.links
  /\ phase' = "idle"
  /\ UNCHANGED <<before, at_slot, block, done>>

Next ==
  \/ \E new_block \in BLOCKS(state) : new_block.slot <= LAST_SLOT /\ BeginCall(new_block)
  \/ AdvanceSlot
  \/ BeginBlock
  \/ NextAttestation
  \/ Return
  \/ Raise

Spec == Init /\ [][Next]_vars

-----------------------------------------------------------------------------
(* Properties. *)

epoch == get_current_epoch(state)

(* The checkpoints of a state never overtake each other, and none is of the *)
(* current epoch before its end: what weigh_justification_and_finalization  *)
(* shifts from one field to the next.                                       *)
EpochsInOrder ==
  /\ state.finalized_checkpoint.epoch <= state.previous_justified_checkpoint.epoch
  /\ state.previous_justified_checkpoint.epoch <= state.current_justified_checkpoint.epoch
  /\ state.current_justified_checkpoint.epoch < epoch
       \/ state.current_justified_checkpoint.epoch = 0

(* Position k of the justification bits speaks of the epoch k before the    *)
(* current one: the shift at the boundary and the positions the two         *)
(* supermajority checks set agree.                                          *)
BitsTellJustifiedEpochs ==
  \A k \in 1..4 : state.justification_bits[k] => epoch - k \in justified

(* A finalized epoch is the source of a supermajority link that ends one    *)
(* epoch later, or two epochs later with the epoch between justified, so    *)
(* that the four bit patterns of the code are the k-finality rule, k <= 2.  *)
FinalityHasLink ==
  state.finalized_checkpoint.epoch > 0 =>
    \E link \in links :
      /\ link[1] = state.finalized_checkpoint.epoch
      /\ \/ link[2] = link[1] + 1
         \/ link[2] = link[1] + 2 /\ link[1] + 1 \in justified

(* A checkpoint is a block of the chain the state is on: its root is the    *)
(* root the ring of block roots holds for the start of its epoch, as long   *)
(* as the ring still reaches back to it.                                    *)
JustifiedRootOnChain ==
  LET checkpoint == state.current_justified_checkpoint
      root == get_block_root(state, checkpoint.epoch)
  IN  checkpoint.epoch > 0 /\ root.ok => root.value = checkpoint.root

(* The calls step by step give what the whole state_transition gives: the   *)
(* same state when it accepts, and the unchanged one when it does not.      *)
CallsMatchTransition ==
  [][phase # "idle" /\ phase' = "idle" =>
       LET whole == ffg_state_transition(before.state, block)
       IN  IF whole.ok THEN state' = whole.value ELSE state' = before.state]_vars

(* A justified checkpoint is never given up: no step of an accepted call    *)
(* moves a checkpoint of the state to an earlier epoch.                     *)
CheckpointsMoveForward ==
  [][phase' # "idle" =>
       /\ state'.current_justified_checkpoint.epoch
            >= state.current_justified_checkpoint.epoch
       /\ state'.finalized_checkpoint.epoch >= state.finalized_checkpoint.epoch]_vars
=============================================================================
