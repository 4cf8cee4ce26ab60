----------------------------- MODULE AnchorProbe -----------------------------
(***************************************************************************)
(* checkpoint_sync_probe of anchor_semantics_probe.py: a node starts from  *)
(* an anchor at the first slot of epoch F, whose state has justified no    *)
(* epoch after F - 1, imports one child of it, and from then on sees votes *)
(* and at most one block more, the carrier, which brings votes of epoch F. *)
(* The store trusts the anchor as justified in epoch F; the state of its   *)
(* child does not know that.                                               *)
(*                                                                         *)
(* An iteration of the probe's loop is five steps: the votes of a slot are *)
(* made, the next slot begins, the votes are heard, the carrier comes, the *)
(* rule is queried.  In the probe no vote is lost, and the carrier comes   *)
(* in the first slot of epoch F + 1 with every vote or not at all; here    *)
(* any vote may be lost, and the carrier comes anywhere in the epoch with  *)
(* any of them.  A second store lacks the headers before the anchor, which *)
(* the probe has to supply for its proposer boost.                         *)
(***************************************************************************)
EXTENDS ConcreteBridge, FastConfirmation, SequencesExt

CONSTANTS
  ANCHOR,            \* the anchor's block
  ANCHOR_STATE,      \* its concrete state
  PRIOR,             \* the headers before it, by their roots
  CHILD, CARRIER,    \* roots
  build(_, _, _, _)  \* a valid block: the parent's state, slot, root and votes

VARIABLES
  stores,           \* the probe's store, and one without the headers
  fcr_store,
  vote,             \* the vote of the committee of slot
  epoch_f_votes,
  slot,             \* of the loop
  phase,            \* the next step
  carrier,          \* {}, or the votes the carrier brought, in a set
  confirmed_slot,   \* when the child was first confirmed, or 0
  lost              \* whether a vote was lost

vars == <<stores, fcr_store, vote, epoch_f_votes, slot, phase, carrier, confirmed_slot, lost>>

store == stores["headers"]

bare == stores["bare"]

NoVote == <<>>

F == compute_epoch_at_slot(ANCHOR_STATE.slot)

inclusion_slot == (F + 1) * SLOTS_PER_EPOCH

closing_slot == (F + 2) * SLOTS_PER_EPOCH

slot_start(n) == (n * SLOT_DURATION_MS) \div 1000

anchor_store == get_forkchoice_store(project(ANCHOR_STATE), ANCHOR)

with_headers(s) ==
  [s EXCEPT !.blocks = [root \in DOMAIN PRIOR \cup DOMAIN @ |->
                          IF root \in DOMAIN PRIOR THEN PRIOR[root] ELSE @[root]],
            !.block_timeliness =
              [root \in DOMAIN PRIOR \cup DOMAIN @ |->
                 IF root \in DOMAIN PRIOR THEN [attestation |-> TRUE, ptc |-> TRUE]
                 ELSE @[root]]]

(* Everyone in the committee of slot n votes for head, in the state at n. *)
head_vote(s, head, voter, n) ==
  [aggregation_bits |-> [k \in DOMAIN committee_members(n, 0) |-> TRUE],
   committee_bits |-> <<TRUE>>,
   data |-> [slot |-> n, index |-> 0, beacon_block_root |-> head,
             source |-> voter.current_justified_checkpoint,
             target |-> get_checkpoint_for_block(s, head, compute_epoch_at_slot(n))]]

voter_state(state, n) == IF state.slot < n THEN process_slots(state, n) ELSE state

-----------------------------------------------------------------------------
Init ==
  /\ stores = [kind \in {"headers", "bare"} |->
                 IF kind = "bare" THEN anchor_store ELSE with_headers(anchor_store)]
  /\ fcr_store = get_fast_confirmation_store(with_headers(anchor_store))
  /\ vote = NoVote
  /\ epoch_f_votes = <<>>
  /\ slot = ANCHOR_STATE.slot
  /\ phase = "tick"
  /\ carrier = {}
  /\ confirmed_slot = 0
  /\ lost = FALSE

(* The handlers run on both stores, the rule on the one of the probe. *)
Tick ==
  /\ phase = "tick"
  /\ stores' = [kind \in DOMAIN stores |-> on_tick(stores[kind], slot_start(slot + 1))]
  /\ slot' = slot + 1
  /\ phase' = IF slot = ANCHOR_STATE.slot THEN "child" ELSE "hear"
  /\ UNCHANGED <<fcr_store, vote, epoch_f_votes, carrier, confirmed_slot, lost>>

Import(block) ==
  /\ on_block_accepts(store, block)
  /\ \E heads \in {[kind \in DOMAIN stores |-> get_head(stores[kind])]} :
       stores' = [kind \in DOMAIN stores |-> import_block(stores[kind], block, heads[kind])]
  /\ phase' = "query"

ImportChild ==
  /\ phase = "child"
  /\ \E block \in {build(ANCHOR_STATE, slot, CHILD, <<>>)} : Import(block)
  /\ UNCHANGED <<fcr_store, vote, epoch_f_votes, slot, carrier, confirmed_slot, lost>>

Vote ==
  /\ phase = "vote"
  /\ slot < closing_slot
  /\ \E head \in {get_head(store).root} :
       \E voter \in {voter_state(block_state(store, head), slot)} :
         vote' = head_vote(store, head, voter, slot)
  /\ phase' = "tick"
  /\ UNCHANGED <<stores, fcr_store, epoch_f_votes, slot, carrier, confirmed_slot, lost>>

Keep ==
  /\ phase = "hear"
  /\ on_attestation_accepts(store, indexed(vote), FALSE)
  /\ epoch_f_votes' = IF slot <= inclusion_slot THEN Append(epoch_f_votes, vote)
                      ELSE epoch_f_votes
  /\ phase' = "include"
  /\ UNCHANGED <<fcr_store, vote, slot, carrier, confirmed_slot>>

Hear ==
  /\ Keep
  /\ stores' = [kind \in DOMAIN stores |-> on_attestation(stores[kind], indexed(vote))]
  /\ UNCHANGED lost

Lose ==
  /\ Keep
  /\ lost' = TRUE
  /\ UNCHANGED stores

(* The carrier builds on the child. *)
IncludeVotes ==
  /\ phase = "include"
  /\ carrier = {}
  /\ slot \in inclusion_slot..closing_slot-1
  /\ \E chosen \in SUBSET DOMAIN epoch_f_votes :
       \E votes \in {[k \in 1..Cardinality(chosen) |->
                        epoch_f_votes[SetToSortSeq(chosen, <)[k]]]} :
         /\ \E block \in {build(decode(store.block_states[CHILD]), slot, CARRIER, votes)} :
              Import(block)
         /\ carrier' = {votes}
  /\ UNCHANGED <<fcr_store, vote, epoch_f_votes, slot, confirmed_slot, lost>>

Query ==
  /\ phase \in {"include", "query"}
  /\ \E head \in {get_head(store).root} :
       \E updated \in {update_fast_confirmation_variables(store, fcr_store, head)} :
         fcr_store' = query(store, updated, head)
  /\ confirmed_slot' = IF confirmed_slot = 0 /\ fcr_store'.confirmed_root = CHILD
                       THEN slot ELSE confirmed_slot
  /\ phase' = "vote"
  /\ UNCHANGED <<stores, vote, epoch_f_votes, slot, carrier, lost>>

Next == Tick \/ ImportChild \/ Vote \/ Hear \/ Lose \/ IncludeVotes \/ Query

Spec == Init /\ [][Next]_vars

-----------------------------------------------------------------------------
(* Properties. *)

queried == phase = "vote"

on_head(s) == descends(s, get_head(s).root, CHILD)

(* Two thirds of epoch F's stake voted for the anchor in the carrier. *)
Included ==
  \E votes \in carrier :
    LET signers == UNION {T!get_attesting_indices(v) : v \in Range(votes)}
    IN  3 * balance_of(signers) >= 2 * balance_of(ValidatorIndex)

(* Mutant: only the anchor's own entry is raised. *)
normalized_at_anchor(s) ==
  [s EXCEPT !.unrealized_justifications[s.justified_checkpoint.root] = s.justified_checkpoint]

(* Every unrealized checkpoint is read as at least the store's own. *)
normalized(s) ==
  [s EXCEPT !.unrealized_justifications =
     [root \in DOMAIN @ |-> IF @[root].epoch <= s.justified_checkpoint.epoch
                            THEN s.justified_checkpoint ELSE @[root]]]

(* The limit the probe is about: the child of a trusted anchor, confirmed   *)
(* or not, leaves the chain of the head in epoch F + 2, and never before,   *)
(* unless a block of epoch F + 1 has brought two thirds of epoch F's votes; *)
(* which votes were heard does not matter.                                  *)
ChildNeedsInclusion ==
  queried => (on_head(store) <=> slot < closing_slot \/ Included)

(* Read with the normalized sources, the store never leaves the child.      *)
NormalizedKeepsChild ==
  queried => \A s \in {normalized(store)} : on_head(s)

(* A store that lacks the headers before its anchor does what the probe's   *)
(* does: both walks to the dependent roots of a boost end below the anchor  *)
(* at the same place.                                                       *)
HeadersChangeNothing ==
  store = with_headers(bare) /\ get_head(store) = get_head(bare)

(* What the probe asserts of its two runs, that without and that with the   *)
(* carrier.                                                                 *)
ProbeAsserts ==
  queried /\ slot = closing_slot /\ ~lost =>
    /\ confirmed_slot # 0
    /\ carrier = {} =>
         /\ get_head(store).root = ANCHOR.root
         /\ \A s \in {normalized(store)} : get_head(s).root = CHILD
    /\ carrier = {epoch_f_votes} =>
         /\ store.unrealized_justifications[CARRIER].epoch = F
         /\ get_voting_source(store, CARRIER).epoch = F
         /\ on_head(store)

(* A child of a store's trusted anchor, though it was confirmed, stays on  *)
(* the head's chain in epoch F + 2 exactly if a block of epoch F + 1 has   *)
(* brought two thirds of epoch F's votes; read with the normalized         *)
(* checkpoints it stays without such a block, and the headers before the   *)
(* anchor make no difference.                                              *)
AnchorVerdicts ==
  /\ ChildNeedsInclusion
  /\ NormalizedKeepsChild
  /\ HeadersChangeNothing
  /\ ProbeAsserts
=============================================================================
