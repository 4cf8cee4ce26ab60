# TLA+ verification of the Verified Fast Confirmation model

The repository is a Lean 4 development around the Fast Confirmation Rule (FCR) of the Ethereum
consensus specification, in the Gloas version with payload branches. `src/FastConfirmationModel`
translates the Python specification function by function: the beacon-chain helpers, the
LMD-GHOST/FFG fork choice with its handlers, the rule itself, the concrete beacon transition, and
an execution layer in which nodes tick, handle scheduled events and query the rule.
`src/FastConfirmationProofs` proves one theorem about that model, the safety of confirmed roots
from the next slot on. `src/scripts/conformance` compares the model with the Python specification
and replays executions on it. This directory is an independent reading of the same code as state
machines: what a node's store does when blocks, votes, evidence, payloads and ticks arrive in any
order, what the rule computes over it, what several such nodes do together, what the chain does to
the checkpoints, and what the conformance programs would notice.

## 1. Inventory

| Component | Source (below `src/`) | State | Operations |
|---|---|---|---|
| Beacon types and helpers | `FastConfirmationModel/Spec/Config`, `Spec/BeaconChain/{Types,Helpers}` | none | epoch arithmetic, active sets, balances |
| Fork-choice store, reads | `Spec/ForkChoice` | `Store` | `get_ancestor`, `get_attestation_score`, `get_weight`, `get_filtered_block_tree`, `get_head`, payload and boost predicates |
| Fork-choice handlers | `Spec/Handlers` | writes `Store` | `on_tick`, `on_block`, `on_attestation`, `on_attester_slashing`, `on_execution_payload_envelope`, `on_payload_attestation_message`, `get_forkchoice_store` |
| Fast Confirmation Rule | `Spec/FastConfirmation/*` | `FastConfirmationStore`: confirmed root, two heads, three checkpoints | `on_fast_confirmation`, `get_safe_execution_block_hash` |
| Execution | `Execution/*`, `Spec/Validator/Attesting` | a store and an FCR store per node and second | schedules, event prefixes, honest attestations, ground-truth committees and honest set |
| Claim and premises | `FastConfirmationStatements` | none | synchrony, honest behaviour, economics, `ConfirmedRootSafeFromNextSlot` |
| Concrete beacon transition | `Spec/BeaconChain/Concrete*` | beacon state | `state_transition` and all it calls, justification and finalization |
| Concrete bridge | `Execution/Concrete*` | none | projection, decoding, total functions with their fallbacks |
| Projection check | `scripts/conformance/contracts/projection` | a replayed run with its evidence | `Run`, `check_run`, `make_runs` |
| Concrete differential | `scripts/conformance/concrete/run_differential.py` | rows and results of two evaluators | comparison, controls, exit code |
| Trace export and check | `fcr_trace_plugin.py`, `check_trace.py`, `run.sh` | patched functions, buffers and files of several processes | capture, write, merge, read |
| Obstacle and helper scripts | `scripts/conformance/python/gloas_*` | an execution, or a fixture | the scripts' steps and assertions |
| Premise sampling, anchor probes | `check_real_bundle.py`, `anchor_semantics_probe.py` | an accepted run | laws and labelled rows, spans, checkpoint sync |
| Lean proofs, internal vocabulary, witnesses, source audits, build checks, docs | the rest | none | they define no behaviour of the system |

**Interaction.** There is one process per node and no thread inside it. Each second the node calls
`on_tick` (a loop that visits every slot it has to catch up), then handles the events scheduled
for that second one after the other; a handler that fails an assertion leaves the store as it was.
If the slot has advanced, the second ends with one call of `on_fast_confirmation`, which reads the
store and writes only the FCR store. Nodes interact through messages alone. The handlers call the
beacon chain through an interface (`Execution/Externals.lean`): state transition, slot processing,
committees, signatures. The conformance programs are processes of their own; those that export
traces run several workers that share nothing but a directory.

**What is hard.** Order and repetition of messages against each other and against slot and epoch
boundaries. A checkpoint is *claimed* by a block's state, *unrealized* when the block is pulled
up, and *realized* by the tick into the next epoch or at once for a late block; a vote supports
one payload branch of its block; the rule keeps heads and checkpoints from one query to the next
and estimates committee weights across epoch boundaries; the transition rejects in the middle of
its loops; a worker may die between two records. What can go wrong, line by line, is the `hazards`
list of `PROJECT.json`.

**What makes each part correct.**
- The store: a validator's message only moves forward, votes add up at forks, FULL branches rest
  on verified payloads, the boost belongs to the first timely block, importing happens once.
- The checkpoints: realized never ahead of unrealized, no voting source ahead of the justified
  checkpoint, no regress, the head under the checkpoints; and all this whatever the number of
  slots a tick skips.
- The rule: a confirmed block outweighs every rival by the promised margin, stays on the chain of
  the head or is given up, is not taken back in the middle of an epoch, and its checkpoints never
  run ahead of the fork choice.
- The execution: a confirmed root is on every honest node's chain from the next slot on.
- The chain: a set bit means two thirds, a finalized epoch a link, a justified root a block of the
  chain; a rejected call changes nothing.
- The conformance programs: exit code 0 means what it is read as.

## 2. Modules

| Module | What it is |
|---|---|
| `BeaconChain` | configuration constants with their assumptions, types, epoch and balance helpers |
| `ForkChoice` | the `Store` record and every function that reads it |
| `Handlers` | each handler as `f_accepts(store, message)` (its assertions) and `f(store, message)` (its effect) |
| `ForkChoiceStore` | the state machine of one store: `store`, `tick_time`, one action per handler; properties |
| `CheckpointTracker`, `CheckpointRefinement` | abstract specification of the checkpoint bookkeeping, and the mapping from the store to it |
| `FastConfirmation` | the rule as operators over `store` and `fcr_store` |
| `FastConfirmationNode` | a node: ticks, messages and one query per slot; properties of the rule |
| `Execution` | several nodes on one schedule, the votes cast, the owed deliveries, and `broken`, the premises an execution has broken; the safety claim |
| `Adversary` | schedules of an adversary that keeps the premises, and of a network that relays in any order that brings each message after those it needs |
| `PayloadFixture`, `PayloadObstacles` | the three scripted executions and what the scripts assert |
| `FFGTransition` | the concrete transition as checked functions: `Accept(value)` or `Reject(error)` |
| `FFGChain` | calls of it, one loop iteration per step, with the history of justified epochs and links |
| `FFGBlocks`, `BundleFields` | a chain's blocks, rejected ones included; what the premise checks evaluate on the states of a run |
| `ConcreteBridge` | the concrete transition behind the fork choice's interface |
| `Projection`, `ProjectionLaws` | the replay with its evidence, and the laws of `check_run` |
| `AnchorProbe` | the checkpoint-sync probe |
| `DifferentialRows`, `Differential` | the rows of the concrete differential, its two evaluators and its verdict |
| `TraceRecord`, `TraceExport` | a trace record and its schema; the processes that write and join the records |
| `HelperObservations`, `EstimateSpans` | the helper scripts' cases; the estimate against the weight of every span |
| `MC*` | the TLC instances |
| `FiniteSums`, `CheckpointTrackerProofs`, `CheckpointRefinementProofs`, `ForkChoiceProofs`, `FastConfirmationProofs`, `FFGChainProofs`, `ExecutionProofs`, `EstimateProofs` | theorems and proofs |

**Composition.** `ForkChoiceStore` EXTENDS `Handlers` EXTENDS `ForkChoice` EXTENDS `BeaconChain`;
`FastConfirmationNode` EXTENDS `ForkChoiceStore` and `FastConfirmation`; `Execution` EXTENDS
`Handlers` and `FastConfirmation`, and its nodes are functions from node to store.
`CheckpointRefinement` instantiates `CheckpointTracker` over the store. `ConcreteBridge`
instantiates `FFGTransition` behind `Handlers`, and `Projection` and `AnchorProbe` build on it.
Two scripts or programs that share no state are composed by a choice in `Init` (`MCScripts`,
`MCHarness`, the three scripts of `PayloadObstacles`).

**Correspondence.** Definitions keep the source's names; `map` in `PROJECT.json` gives the lines
of each.
- A Python dictionary, in Lean a total map with its key set, is a function on its keys. Where the
  source reads an absent key of a total map it gets the default value, and so does `block_at`,
  `block_state`, `checkpoint_state`.
- Fuel-bounded recursion (`get_ancestor_aux`, `filter_block_tree`, `get_head_aux`,
  `prev_epoch_loop`) is a recursive function over roots, or for the two loops of the rule the
  length of the longest passing prefix (`advance`).
- The rule's functions call `get_head(store)` each for itself; in the model `on_fast_confirmation`
  passes them its root as `head`, since the rule never writes the store.
- `Option (Store Root)`, where `none` is a failed assertion, is the pair of operators above;
  rejection is stuttering.
- `on_tick`'s `while` is one `CatchUp` step per iteration followed by `EndTick`. The interleaving
  with other handlers is *not* widened by this: they need `Idle`. In the same way a step of
  `FFGChain` is an iteration of a loop, and no other call begins in between.
- `Store.genesis_time` is 0 (the anchor's time is that of its slot). `proposer_boost_root`, an
  `Option` in the source, is a root or `NoRoot`.
- `validators` in a projected state is the set of registry indices; balances, activity and the
  slashed flag are the constant `REGISTRY`, as in `Execution/Stake.lean`.
- Validators that act alike are one validator of their joint weight in the executions.
- Hashes, signatures and encodings are labels: a hash is the identity of what it is taken of.
- The premises of the safety claim are not guards. An execution that breaks one goes on, and
  `broken` remembers its name; the claim is stated of executions where `broken` is empty, and the
  scripts' controls of those where one name is in it.

Definitions marked *Mutant* are plausible bugs; no specification uses them. `mutants` in
`PROJECT.json` pairs each property with one: swapped into the code's definition, it makes TLC
report that property as violated.

## 3. Runs

`CHECK_DEADLOCK FALSE` in all of them: with finitely many messages, slots or tests a system really
ends up with nothing to do.

| Run | Question | Scene and bounds |
|---|---|---|
| `store_votes` | do votes, payloads, PTC votes and the boost stay consistent whatever the order? | 2 slots per epoch, ticks to second 6; two equivocating blocks in slot 1 on different payload branches, a child, votes for each of them on the wire and in bodies, PTC votes (validator 1 holds two of three positions), evidence against one voter, two envelopes |
| `store_checkpoints` | does the store implement the tracker, under jumps of the clock? | a non-genesis anchor, slots 5 to 12; blocks justify and finalize on two branches, late, early or never; calls one second to several slots apart, some not at a slot start |
| `rule_fork` | does a confirmed block really outweigh its rivals? | an empty slot whose votes split over the payload of the parent, two blocks on different payload branches, a late block, evidence; 8 validators, boost 40 %, threshold 15 % |
| `rule_epochs` | does the rule behave across epochs? | slots 1 to 6 of 2-slot epochs: blocks that justify epochs 1 and 2, a rival branch, each committee's vote present or missing; boost 20 %, threshold 10 %, so that one committee's votes can confirm |
| `ffg_chain` | do bits, checkpoints and finality agree with the votes? | every chain of the calls of `FFGBlocks` to slot 10 (five epochs): blocks one or two slots ahead, votes of any slot or none, calls a guard rejects; block-root ring of 4 |
| `execution` | does what each script asserts hold, with its neighbouring schedules? | 32-slot epochs, 100 validators per slot in the cohorts the scripts tell apart; the scripts end in slots 7, 13 and 18 |
| `free_adversary` | is a confirmed root safe against an adversary that chooses all it may? | two nodes, slots 0 to 2 with votes and a query in slot 3, two rival blocks on the two payload branches of their parent, that payload, evidence of a double vote, a quarter of each committee dishonest; what is confirmed in slot 2 is held against slot 3, the last |
| `payload_branch_assert` | does the branch script's assertion hold with this repository's rule? | the branch script; expected to fail |
| `projection` | do the laws of `check_run` hold, and do its fixtures reach their case? | 3-slot epochs; the eight fixtures, and free runs that go on after two full epochs to slot 9, the start of epoch 3, with blocks on two parents, votes for payloads, and up to three refused calls |
| `harness` | does exit code 0 mean a whole trace, and equal answers? | traces: one test with one call of two externals on each of three stores; two tests of two calls on two workers; a test on another fork. Differential: the script's rows, a fault in any of ten of them, each kind of fault |
| `scripts` | where can an estimate be too low; when do boost, PTC and branch decide the head? | 9 validators in 3-slot epochs, two epochs; every second shuffle, the first being fixed without loss by renaming; and every vote and PTC count of two voters and a PTC of four |
| `anchor_probe` | when does a child confirmed from a trusted anchor leave the head's chain? | 4-slot epochs with one validator per slot, any votes lost, the carrier anywhere in epoch F + 1 with any subset of the votes |

What they show.

- `store_votes`. `LatestMessagesSound`, `LatestMessagesOnlyMoveForward`, `WeightsSplitAtForks`,
  `FullBranchesVerified`, `PtcVotesPaired`, `BoostIsTimelyBlock`, `BoostHeldForTheSlot` and
  `ImportHappensOnce` relate votes, payloads and blocks that arrived in different steps.
- `store_checkpoints`. `TracksCheckpoints` is the refinement; `VotingSourceNeverAhead`,
  `RealizedNeverAheadOfUnrealized` and `CheckpointsOnlyAdvance` are its consequences on the store;
  `HeadExtendsCheckpoints` ties the head to them; `TickIsPathIndependent` says that a call of
  `on_tick` in between leaves no trace, and `TickCompletes` that its loop ends.
- `rule_fork`. `ConfirmedOutweighsRivals` is the margin behind the safety of the rule: support
  above every rival's plus the boost plus twice the adversarial share, where rivals are siblings
  *and* the other payload branch of the parent. It needs the discount for empty slots to count
  only votes bound to the branch the block builds on; counting every vote for the parent breaks
  it, and is the mutant. `SafeExecutionBlockVerified` is about the hash handed to the execution
  layer.
- `rule_epochs`. What a query answers is canonical and recent, or the finalized fallback
  (`ConfirmedIsCanonical`); within an epoch it only extends (`ConfirmedExtendsWithinEpoch`); it is
  not advanced on a checkpoint whose state no vote has prepared (`NoBalancesNoConfirmation`).
- `ffg_chain`. The history variables are the reference: which epochs had two thirds, and which
  links. `CallsMatchTransition` compares the stepwise call with the whole function, accepted or
  rejected. `BundleSound` evaluates what the premise checks evaluate; its check of the boundary
  looks at every prefix of a run, which is more than the scripts and the Lean premise ask.
- `execution`. `ScriptsHold` has the assertions of the three obstacle scripts, controls included,
  over a larger set of schedules; `ConfirmedRootSafeFromNextSlot` holds wherever no premise is
  broken. The claim exempts nothing here, because in these fixtures nothing finalizes and no block
  is excluded.
- `free_adversary`. `VotesArrive` says that the relay keeps the premises and that each node weighs
  every honest vote as it was cast, so that the safety claim is about something. One release per
  slot; nodes' validators vote before it or after it. What the adversary's validators tell a node
  depends on the node's store, as a constant operator of it (`Attack`).
- `payload_branch_assert` is a finding. With the rule of this repository the discount of the child
  of slot 4 is 0, the threshold 395 units, and it stays unconfirmed in slot 7; the script asserts
  225, 282.5 and confirmed. Another script in the same directory asserts the repaired rule.
- `projection`. `RunLawsPass`: each law at every prefix of every run, whatever is on the second
  branch, and also where the fork choice refuses a vote that the transition has counted: a vote
  for a payload the store never sees. `EvidenceHolds`: the evidence is causal, and the store's
  justified checkpoint is backed by it and up to date with the clock, which a refused block moves
  ahead and the next one may move back. This is where `FFGTransition` runs behind the handlers.
- `harness`. `TracesComplete`: exit code 0 only for a trace with all calls of all tests, although
  a worker may die at any step, also between the flush of a record and the return of its call (then
  the record of a call that did not return is there, and the run fails). `RecordsSound`: what the reader accepts and what it refuses.
  `DifferentialSound`: no fault of an evaluator gets past the comparison, and none is reported
  without one.
- `scripts`. `EstimatesSound`: with equal balances the estimate is an upper bound on every span
  within an epoch whatever the shuffle, on every span if the shuffle is perfectly mixed, and
  always on spans that hold a whole epoch; across a boundary it can be too low, and the loops
  report exactly those spans. `HelperAnswersHold`: the helper scripts' answers as functions of the
  counts.
- `anchor_probe`. `AnchorVerdicts`: the store trusts the anchor as justified, the states of its
  descendants do not know it; the child, though confirmed, stays on the head's chain only if two
  thirds of the anchor epoch's votes are included in time. With the checkpoints normalized it
  stays without them.

**Why the bounds are enough.** Two slots per epoch is the smallest non-trivial epoch; three or
four are used where a committee's share of an epoch matters. Each scene contains the case its
properties are about, and the mutants show it is reached. For the rule, reaching was also checked
directly: in `rule_epochs` blocks of three different epochs get confirmed, the previous-epoch
advance, the restart from the observed checkpoint, the revert by age and the revert of a block
that left the head's chain all happen, and so do queries without balances; in `rule_fork` blocks
with a positive empty-slot discount get confirmed. The messages of a scene may be delivered in any
order, any number of times, or never. What a scene fixes is the *set* of messages, hence the shape
of the block tree and the partition of the votes. The named bounds are `SIGNED_BLOCKS`,
`ATTESTATIONS`, `SLASHINGS`, `ENVELOPES`, `PTC_MESSAGES`, `TickTimes`, `VERIFICATION_HORIZON`,
`LAST_SLOT`, `BRANCH_SLOTS`, `ACCEPTED_SLOTS`, `DELIVERY_SLOTS`, `FREE_SLOTS`, `FREE_ERRORS`,
`CASES`, `FAULTS`, `JSON_INTEGER_MAX`, `EPOCHS` and `VOTERS`.

**Fairness.** Only `TickCompletes` needs it: `WF(CatchUp)` and `WF(EndTick)`. `on_tick` is a
synchronous call, so once made its loop runs until it ends; nothing is assumed about *when* a tick
or a message comes.

## 4. Proofs

Proved with TLAPS for every value of the constants that satisfies the named assumptions. TLC
evaluates each assumption on every run whose instance has the constants.

**Assumptions, and what in the source they stand for.**

| Assumption | Content | Source |
|---|---|---|
| `ConfigAssumption`, `RuleConfigAssumption`, `PresetAssumption` | positive sizes, percentages within bounds | `Spec/Config` |
| `RegistryAssumption` | the registry is finite and its balances are natural numbers | `Execution/Stake.lean` |
| `WholeSecondsAssumption` | a slot is a whole number of seconds; without it the loop of `on_tick` can stall | comment on `on_tick_aux` |
| `AnchorAssumption`, `AnchorParentAssumption` | anchor block and state agree, checkpoints not from the future; the anchor is not its own parent, and its parent never arrives | `get_forkchoice_store`, `ScheduledExecutionConditions.lean` |
| `MessagesAssumption` | messages are well formed | the Lean types |
| `ExternalsAssumption` | a transition ends at the block's slot and goes forward; pulling up never lowers a checkpoint | `Execution/Externals.lean` |
| `ChainAssumption`, `AcceptedStatesAssumption` | the chain of a block is itself and its parent's; a checkpoint newer than the anchor has its root on the chain of the block whose state names it | `AcceptedFFGState.lean` |
| `HorizonAssumption` | the execution lies below a horizon, in which the validator set is static | `Execution.WithinHorizon` in `Run.lean`, `StaticValidatorSet` in `Externals.lean` |
| `CommitteeAssumption`, `ConfinementAssumption` | a validator sits in one committee per epoch; the estimate bounds the committees' weight on every span; an accepted vote names members of its slot's committee | committee contracts of `Externals.lean`, premises of `FastConfirmationStatements` |
| `ExecutionAssumption`, `AdversaryAssumption` | finitely many nodes with an owner for each validator; finitely many messages, and no evidence against an honest validator | `Run.lean`, `HonestBehavior.not_slashable` |
| `BidAssumption` | a block is bid on its parent's execution block or on the one its parent was bid on | `process_parent_execution_payload`, `process_execution_payload_bid` in `ConcreteTransition.lean` |
| `SpansAssumption` | the validators are numbered from 0, and each slot of an epoch gets as many as the others | the uniform genesis of `check_real_bundle.py`, 128 validators in epochs of 8 slots |
| `GenesisAssumption` | the first state of `FFGChain` is a genesis state | `ConcreteTransition.lean` |
| `ScopeAssumption`, `RingAssumption` | activity does not change in the epochs of the run, and nobody has voted at its start; two epochs fit the ring of block roots, and the run ends before the uint64 guards | `FixedFFGScope` and presets in `ConcreteTypes.lean` |

**Groundwork.**
- `FiniteSums`: every non-empty set of naturals has a least element. All inductions below take a
  minimal counterexample, because the library's induction theorems cannot be instantiated. A sum
  over a finite set is the number of cells below its terms, hence independent of the order in
  which a fold takes the elements, additive over disjoint sets, and monotone.
- The first part of `ForkChoiceProofs`: a definition that reads only values of smaller rank has exactly one solution
  (`RecursionExists`). On a tree whose parents have smaller slots this gives `get_ancestor`,
  `filter_block_tree` and `get_head` their own equations. From them: descent is an order, and at
  one slot a node has one ancestor, so the branches below it split its descendants.

**The store** (`ForkChoiceProofs`; the types in `CheckpointRefinementProofs`).
- `StoreTypeCorrect`. `TypeOK` is inductive by itself, because it says of the dictionaries which
  have equal key sets.
- `StoreInvariant`: the inductive invariant `StoreSound`. Blocks form a tree under the anchor in
  which slots grow; a block on its parent's payload has a verified payload below it; counted votes
  and the boost are sound; PTC votes stand at all positions of their voter; the anchor stays the
  block it began as, with a parent nobody has. The parts need each other: that a vote stays sound
  when its block's branch is read again needs the blocks to be final, and the growth of slots
  needs the anchor never to be replaced.
- `VotesAreSound`, `BoostIsTimely`, `PtcVotesStayPaired`, `VotesMoveForward`, `BoostIsHeld`,
  `ImportsAreFinal` follow from it.
- `FullBranchesAreVerified`: along a chain of any depth, a FULL node is reached only through a
  block or a vote whose handler has asked for the verified payload.
- `WeightsSplit`: the supporters of two children, payload branches included, are disjoint sets of
  the parent's supporters; the sum over disjoint sets gives the bound for every tree, registry and
  set of votes.
- `StoreStaysWellFormed`: the invariant `ChainSound` ties each checkpoint to the chain of a known
  block, from which follow the structural invariants of `Run.lean` that the traversals rely on.
  The one about finality below justification is left out: the source says (`Run.lean`, same place)
  that the raw handlers do not maintain it.
- `HeadDescends`, `HeadExtendsBoth`: the head is a known block below the justified one whatever
  the weights are, and below the finalized one wherever that is below the justified one. That
  premise is explicit, for the reason just given.
- `TickPathIndependent`: the loop of `on_tick` is unfolded into a closed form (`Ticked`), in which
  only the time, the boost and the realized checkpoints differ; closed forms for two times in
  order compose. This is the safety half; that the loop ends is `TickCompletes`, checked by TLC.

**Checkpoints** (`CheckpointTrackerProofs`, `CheckpointRefinementProofs`).
- `TrackerInvariant`, `TrackerSources`, `TrackerOnlyAdvances`: the inductive invariant adds where
  each tip's pulled-up checkpoint is accounted for: always in the unrealized checkpoints, and in
  the realized ones once its epoch is over. "No voting source is ahead" is not inductive without
  it, because a tick changes which of a tip's two checkpoints is its source.
- `StoreImplementsTracker`: a `CatchUp` step is `EnterEpoch` or a stutter because the loop moves
  one slot at a time; `on_block` is `Import`; everything else leaves the tracked fields alone.
  `VotingSources`, `RealizedAtMostUnrealized`, `CheckpointsAdvance` are inherited through the
  mapping.

**The rule** (`FastConfirmationProofs`).
- `RuleLeavesStoreAlone`: `NodeSpec => Spec`, so all of the above holds of a node that runs the
  rule.
- `ObservedStaysBehind`: the invariant adds what holds between the tick into an epoch and the
  query, that the greatest unrealized checkpoint of the last query is realized already. It needs
  more than one slot per epoch: with one, the query copies the unrealized checkpoint at once, and
  a block imported between tick and query can put it ahead.
- `ConfirmedIsSafe`: the margin. A block, a rival and the votes bound to the parent are supported
  by three disjoint sets of validators; a vote for any of them is of a past slot after the
  parent's, so its validator sits in a committee of the span the rule estimates (votes are
  confined, an invariant); the estimate bounds that span's balance; the discount is at most the
  weight bound to the parent; so a score above the threshold, half of estimate, boost and twice the
  adversarial weight less the discount, leaves the rival short by the boost and twice that weight.
- `RuleTypeCorrect`: the invariant `RuleGrounded` says that the kept roots are known blocks and
  the kept checkpoints lie on known chains. The recursion over the canonical roots is unfolded, so
  that what the rule answers is one of them.
- `ConfirmedStaysCanonical`, `NothingWithoutBalances`: cases of the answer, from the same lemma.
- `ConfirmedOnlyExtends`: the confirmed block is recent, or finality has passed it on its own
  chain, or the first query of an epoch is due (`ConfirmedInv`); with the clock's own invariant,
  that no slot goes without a query. `FinalityStaysOnChain`, the finalized block moves only to its
  descendants, is a premise: `update_checkpoints` compares epochs, and only the economics of the
  stake keep two branches from finalizing. Where finality does not move, as in `rule_epochs`, the
  premise is met.
- `SafeBlockIsVerified`: by the order of slots, from a confirmed block down a chain of blocks
  without a payload, to the closest one whose payload was delivered and verified, or to the
  anchor's own bid.

**The chain** (`FFGChainProofs`).
- `ChainInvariant`, `EpochsStayInOrder`, `BitsAreJustified`, `FinalityIsLinked`,
  `CheckpointsNeverReturn`. That a finalized epoch has its link is not inductive: two of the four
  rules finalize the previous justified epoch by a link that an earlier boundary saw, so the
  invariant remembers that a set first bit is such a link, and that no bit is set before an epoch
  was weighed. It is stated of the state and of the one a call began with, to which a rejected
  call returns.
- `JustifiedIsOnChain`: `RootInv` follows the justified root in the ring of block roots.
- `CallsAreTransitions`: `CallInv` keeps the partial result equal to what the loops of
  `state_transition` have after as many iterations; folds are unfolded by minimal counterexample.
- `ExternalsAreCoherent`: what the safety claim supposes of `process_slots` and of pulling up. A
  run of slots is split at its epoch boundaries; after the first of them the current epoch has no
  participation and justifies nothing, and the one behind it is weighed a second time with the
  votes it had, unless it is epoch 1, which the first weighing skips.
- `BundleIsSound`: `Row` relates a state to the state with labels for its roots. Every function of
  the transition that reads a root compares it with another, stores it, or is indifferent to it,
  so that from related states and blocks it accepts the same calls and ends in related states
  (`RowTransition`); one table labels the run injectively, hence the related state *is* the row
  the script writes. The oracle's verdict stands outside: `OracleReadsNoRoot` says that the
  recorded verdict of an accepted block is given again on its row, which is the `oracle_accept`
  column of the rows. The row has no count of the operations that change nothing retained, and
  reads as a block without them.

**The execution** (`ExecutionProofs`).
- `VotesAlwaysArrive`: in every execution of `AdversarySpec`, with any number of nodes, no premise
  on the network is ever broken, and each node counts each honest vote of a past slot as it was
  cast, or a later vote of that validator. `HonestVotesArrive` is the second half alone, given the
  premises, and needs fewer hypotheses. The delivery premise says only that the vote is *handed*
  to the node, and the relay only that a block is; that the handlers take them is what has to be
  shown.
- `ExecutionInvariant`: the inductive invariant `ExecutionSound`, in four parts that need each
  other. `NodesSound`: a node's tree stays rooted at the anchor with no block from the future, no
  honest validator is marked as equivocating, and a message it holds of one is a vote that
  validator cast. `OwedSound`: what is owed by the next slot is held by some node, and until the
  deadline everything held is owed. `VotesSound`: an honest vote is for an owed block and, with
  index 1, an owed payload, because it is cast before the deadline; its target lies on the chain
  of its block; and there is one per validator and slot. `VotesCounted`: the property.
- The step that matters is the first second of a slot. The premises bring what is owed before the
  first vote, hence the block and the payload of each vote are known when it is handled. Two
  nodes that know a block agree on its ancestors (`BlocksAgree`, `AncestorsAgree`), so the target
  that one node computed passes the check of another (`VoteIsAccepted`). The vote replaces what
  was there since it is newer, or the node holds it already (`LastVoteCounts`), and no later event
  takes it away (`CountsStays`). The loop over a second's events is unfolded into its stages
  (`EventStages`).
- `RelayInvariant`: the inductive invariant `RelaySound`, on top of `ExecutionSound`. `Steady`:
  whatever `on_block` checked of a block that a node holds is a matter of the block, its parent and
  the parent's payload, and whatever a node marks as equivocating some evidence among the released
  convicts. Two such nodes have the same states under the same roots (`StatesAgree`), so what one
  accepted the other accepts (`BlockIsAccepted`, `EvidenceIsAccepted`). `OwedClosed`: what is owed
  contains what it depends on. Hence each event of the relay finds what it needs brought before it
  (`NeededBefore`, `RelayNext`), and the relay ends before the first vote (`RelayComesFirst`).
- Hypotheses, beside the named assumptions: `AdversaryScope`. The nodes start from the trusted
  anchor store and a root names one block; messages are of the kinds that handlers take, and the
  targets of votes up to the last slot are among `ATTESTATIONS`; `process_slots` reaches the slot
  asked for; an honest attestation of the slot's committee is valid in every state
  (`honest_attestation_valid`). `AdversaryAssumption` keeps honest validators out of the evidence
  the adversary has (`HonestBehavior.not_slashable`); that votes of honest validators are not
  forged (`no_forgery`) is how `Adversary` makes attestations, and is proved of the schedules, not
  assumed. The hypotheses speak of all stores and states, hence TLC does not evaluate them; the
  fixture of `free_adversary` was made to meet them: its anchor store, its blocks and its
  attacks are instances of each clause.
- The relay's theorems also have `RelayScope`, each clause of which excludes one reason for a node
  to refuse what another took. No state has a finalized epoch above 0: a block off a finalized
  branch is refused, for which the source has an exception of its own (`PermanentBlockExclusion`).
  A payload attestation in an accepted block is for its parent, which is what the transition
  asserts. Evidence valid in one state is valid in all, the argument that the comment of
  `DeadlineAttesterSlashingRelay` gives (static registry, one fork). These clauses range over the
  constants only; the fixture meets them, nothing finalizes in it and its validity of attestations
  reads no more of the state than its registry.

**The estimate** (`EstimateProofs`).
- `EstimateIsSound`: `EstimatesSound` for any number of validators, slots and epochs. Inside an
  epoch the estimate is compared with the sum of the committees' sizes. Across a boundary, each
  committee of the earlier epoch shares as many members with one committee of the later epoch as
  with another, so the members of the start that the end has not drawn again are counted exactly,
  and that number is the pro-rated part: no division in it leaves a remainder, and the adjustment
  that follows only raises it. Where the slots hold an epoch the estimate is all the stake.
- `SpansInvariant`: the inductive invariant `SpansInv` behind it. Whole epochs have been read; the
  members kept are those of the slots from `a` to before `b`; a failure is recorded for each span
  that was compared and too heavy. TLC checked it on the instance of `scripts` first.
- Equal committees are needed (`SpansAssumption`): if the epoch does not divide the validators,
  one slot has more than its share of the stake and even a single slot can outweigh its estimate.

**Only model-checked.**
- Liveness (`TickCompletes`), which needs ENABLED and fairness.
- The claim over several nodes (`ConfirmedRootSafeFromNextSlot`) and the scripts' assertions
  (`ScriptsHold`): the unbounded statement of the claim is the repository's own Lean theorem; the
  runs look for executions that a premise fails to exclude.
- The laws of the conformance programs (`RunLawsPass`, `EvidenceHolds`, `TracesComplete`, `RecordsSound`,
  `DifferentialSound`, `HelperAnswersHold`, `AnchorVerdicts`): finite programs on fixed inputs, which TLC covers.

## 5. Not modelled

- The scripts that audit source text, names and imports, the build checks, and the JSON reports.
- The Lean proofs and their internal vocabulary: they hold no state of the system. Payload frames
  and the records of scheduled prefixes are part of it; a prefix is a state between two steps
  here.
- The checks of constants of one genesis in `check_real_bundle.py` (quantized balances, horizon).
- Fields the certificate scripts mark as not established.
- An extra query in a slot: the repository lists it as outside its theorem.
- `get_block_support_between_slots` (`LMD.lean`): the Gloas rule does not call it.
- uint64 overflow in the fork choice: the source computes with natural numbers there, and its
  theorem assumes times and slots below `UINT64_MAX`. The concrete transition has its overflow
  guards, and they are modelled.
- The cache write of a rejected attestation in the Python code: the Lean source discards it
  (`docs/MODELING_CHOICES.md`), and so does the model.
- Hashing, signatures and codecs, which are labels.

## 6. Plan

1. The unfolding of `ConcreteBridge`: that the concrete transition satisfies
   `ExternalsAssumption`, `ChainAssumption` and `AcceptedStatesAssumption`, as theorems about
   `FFGTransition`; `ExternalsAreCoherent` is the part about slots and pulling up.
2. `FinalityStaysOnChain` from an assumption on the stake: two finalized branches need a third of
   it to equivocate.
3. A scene of `rule_epochs` in which finality moves while the confirmed block is not recent.
4. The differential's invariants (`RowsAgree`, `SuccessMeansAllRight`, `NoFalseAlarm`)
   as theorems.
5. `VotesAlwaysArrive` beyond the first finalization: with the exception for blocks off the
   finalized branch in `owed`, and `FinalityStaysOnChain` for those on it.
