------------------------- MODULE HelperObservations -------------------------
(***************************************************************************)
(* The two scripts that run single Gloas helpers on a projected store:     *)
(* gloas_helper_observations.py exports what the helpers answer for a list *)
(* of inputs, gloas_full_instance_obstacle.py compares the Gloas head with *)
(* the phase0 head where every payload is FULL, verified and available.    *)
(*                                                                         *)
(* A script changes parts of one fixture and calls the helpers on it: here *)
(* the inputs range over the neighbours of the scripts' own cases, and a   *)
(* PTC has PTC_SIZE members instead of 512.                                *)
(***************************************************************************)
EXTENDS ForkChoice

CONSTANTS
  VOTERS,   \* the validators whose latest message a fixture may have
  NoInput

VARIABLES
  store,
  input,      \* the input the store was made from
  observed    \* what the helpers answered

helper_vars == <<store, input, observed>>

-----------------------------------------------------------------------------
(* The fixture: block 1 in slot 0, the equivocating blocks 2 and 3 in slot *)
(* 1, and block 4 on 2 in slot 2, which is the current one.                *)

fixture_checkpoint == [epoch |-> 0, root |-> 1]

fixture_block(slot, parent, proposer, block_hash, parent_hash) ==
  [slot |-> slot, parent_root |-> parent, proposer_index |-> proposer,
   parent_block_hash |-> parent_hash, block_hash |-> block_hash,
   body |-> "none", payload_attestations |-> <<>>]

fixture_state(slot) ==
  [slot |-> slot, validators |-> ValidatorIndex,
   current_justified_checkpoint |-> fixture_checkpoint,
   finalized_checkpoint |-> fixture_checkpoint, ffg |-> DefaultFFG]

fixture ==
  LET blocks == <<fixture_block(0, 0, 0, 101, 0), fixture_block(1, 1, 7, 102, 101),
                  fixture_block(1, 1, 7, 103, 101), fixture_block(2, 2, 8, 104, 102)>>
      all_yes == [root \in 1..4 |-> [i \in 0..PTC_SIZE-1 |-> TRUE]]
  IN  [time |-> 24,
       justified_checkpoint |-> fixture_checkpoint,
       finalized_checkpoint |-> fixture_checkpoint,
       unrealized_justified_checkpoint |-> fixture_checkpoint,
       unrealized_finalized_checkpoint |-> fixture_checkpoint,
       blocks |-> blocks,
       block_states |-> [root \in 1..4 |-> fixture_state(blocks[root].slot)],
       checkpoint_states |-> put(EmptyDict, fixture_checkpoint, fixture_state(0)),
       unrealized_justifications |-> [root \in 1..4 |-> fixture_checkpoint],
       proposer_boost_root |-> 4,
       equivocating_indices |-> {},
       latest_messages |-> put(EmptyDict, 0, [slot |-> 1, root |-> 3, payload_present |-> FALSE]),
       block_timeliness |-> [root \in 1..4 |-> [attestation |-> TRUE, ptc |-> TRUE]],
       payloads |-> 1..4,
       payload_timeliness_vote |-> all_yes,
       payload_data_availability_vote |-> all_yes]

-----------------------------------------------------------------------------
(* gloas_helper_observations.py *)

votes(counts) == [i \in 0..counts.yes+counts.no-1 |-> i < counts.yes]

(* Every split of the PTC, by those who said yes, no and nothing. *)
Counts == {c \in [yes : 0..PTC_SIZE, no : 0..PTC_SIZE] : c.yes + c.no <= PTC_SIZE}

(* The attestation deadline precedes the PTC deadline. *)
Inputs ==
  {i \in [verified : BOOLEAN, timely : Counts, available : Counts,
          boost_root : {NoRoot, 4}, boost_parent_full : BOOLEAN,
          sibling_attestation_timely : BOOLEAN, sibling_ptc_timely : BOOLEAN] :
     i.sibling_attestation_timely => i.sibling_ptc_timely}

make_store(i) ==
  [fixture EXCEPT
     !.latest_messages = EmptyDict,
     !.proposer_boost_root = i.boost_root,
     !.blocks[4].parent_block_hash = IF i.boost_parent_full THEN 102 ELSE 101,
     !.block_timeliness[3] = [attestation |-> i.sibling_attestation_timely,
                              ptc |-> i.sibling_ptc_timely],
     !.payloads = IF i.verified THEN @ ELSE @ \ {2},
     !.payload_timeliness_vote[2] = votes(i.timely),
     !.payload_data_availability_vote[2] = votes(i.available)]

is_head_late(s, root) == ~timeliness(s, root).attestation

observe(s) ==
  LET of_status(Helper(_)) ==
        [status \in PayloadStatus |-> Helper(NewNode(2, status))]
  IN  [payload_verified |-> is_payload_verified(s, 2),
       timely |-> [value \in BOOLEAN |-> payload_timeliness(s, 2, value)],
       available |-> [value \in BOOLEAN |-> payload_data_availability(s, 2, value)],
       extend |-> should_extend_payload(s, 2),
       head_weak |-> is_head_weak(s, 2),
       apply_boost |-> should_apply_proposer_boost(s),
       sibling_head_late |-> is_head_late(s, 3),
       previous |-> of_status(LAMBDA node : is_previous_slot_payload_decision(s, node)),
       tiebreak |-> of_status(LAMBDA node : get_payload_status_tiebreaker(s, node)),
       weight |-> of_status(LAMBDA node : get_weight(s, node)),
       head |-> get_head(s)]

-----------------------------------------------------------------------------
(* gloas_full_instance_obstacle.py: the phase0 fork choice on the same     *)
(* store.  Its nodes are roots, and it always applies the boost.           *)

phase0_is_ancestor(s, root, ancestor) ==
  get_ancestor(s, NewNode(root, PENDING), block_slot(s, ancestor)).root = ancestor

phase0_get_weight(s, root) ==
  balance_of({i \in DOMAIN s.latest_messages \ s.equivocating_indices :
                phase0_is_ancestor(s, s.latest_messages[i].root, root)})
  + (IF /\ s.proposer_boost_root # NoRoot
        /\ phase0_is_ancestor(s, s.proposer_boost_root, root)
     THEN get_proposer_score(s) ELSE 0)

phase0_get_head(s) ==
  LET beaten_by(a, b) ==
        \/ phase0_get_weight(s, a) < phase0_get_weight(s, b)
        \/ phase0_get_weight(s, a) = phase0_get_weight(s, b) /\ a <= b
      descend[root \in DOMAIN s.blocks] ==
        LET children == children_of(s, root) \cap get_filtered_block_tree(s)
        IN  IF children = {} THEN root
            ELSE descend[CHOOSE best \in children : \A c \in children : beaten_by(c, best)]
  IN  descend[s.justified_checkpoint.root]

(* The latest messages of a FULL instance: whoever votes after the slot of *)
(* a block votes for its payload.                                          *)
FullMessages ==
  {m \in [slot : 0..2, root : 1..4, payload_present : BOOLEAN] :
     /\ fixture.blocks[m.root].slot <= m.slot
     /\ m.payload_present <=> fixture.blocks[m.root].slot < m.slot}

Instances ==
  [messages : UNION {[voters -> FullMessages] : voters \in SUBSET VOTERS},
   early : BOOLEAN, boost_root : {NoRoot, 4}]

make_instance(i) ==
  [fixture EXCEPT !.latest_messages = i.messages,
                  !.block_timeliness[3].ptc = i.early,
                  !.proposer_boost_root = i.boost_root]

compare(s) ==
  [phase0 |-> phase0_get_head(s), gloas |-> get_head(s),
   apply_boost |-> should_apply_proposer_boost(s),
   weights |-> [root \in {2, 3} |-> [phase0 |-> phase0_get_weight(s, root),
                                     gloas |-> get_weight(s, NewNode(root, PENDING))]]]

-----------------------------------------------------------------------------
HelpersInit == store = fixture /\ input = NoInput /\ observed = NoInput

MakeStore(i) ==
  /\ input = NoInput
  /\ input' = i
  /\ store' = make_store(i)
  /\ UNCHANGED observed

MakeInstance(i) ==
  /\ input = NoInput
  /\ input' = i
  /\ store' = make_instance(i)
  /\ UNCHANGED observed

Observe ==
  /\ input \in Inputs
  /\ observed = NoInput
  /\ observed' = observe(store)
  /\ UNCHANGED <<store, input>>

Compare ==
  /\ input \in Instances
  /\ observed = NoInput
  /\ observed' = compare(store)
  /\ UNCHANGED <<store, input>>

HelpersNext ==
  \/ \E i \in Inputs : MakeStore(i)
  \/ Observe
  \/ \E i \in Instances : MakeInstance(i)
  \/ Compare

-----------------------------------------------------------------------------
(* Properties. *)

(* What gloas_helper_observations.py asserts of its cases, of every input:  *)
(* the branches of a block of the last slot weigh nothing, the boost counts *)
(* unless the block 3 reached the PTC in time, and then only it weighs.     *)
ObservationAsserts ==
  input \in Inputs /\ observed # NoInput =>
    /\ observed.weight[EMPTY] = 0 /\ observed.weight[FULL] = 0
    /\ observed.apply_boost <=> input.boost_root = 4 /\ ~input.sibling_ptc_timely
    /\ observed.weight[PENDING] = IF observed.apply_boost THEN 40 ELSE 0

(* The PTC overrules the boosted block only by majority: block 4 on the     *)
(* EMPTY branch loses to the payload of 2 only if that is verified and more *)
(* than half of all members, not of those who voted, said yes to both       *)
(* questions.                                                               *)
MajorityOverrulesBoost ==
  input \in Inputs /\ observed # NoInput /\ input.boost_root = 4 /\ ~input.boost_parent_full =>
    (observed.extend <=> /\ input.verified
                         /\ 2 * input.timely.yes > PTC_SIZE
                         /\ 2 * input.available.yes > PTC_SIZE)

(* With no votes, head and payload branch of the last slot are decided by   *)
(* the boost and the PTC alone: the head goes through the payload of its    *)
(* block exactly if the helper says that payload is to be extended, also    *)
(* when this leaves the boosted block aside.                                *)
HeadFollowsPtc ==
  input \in Inputs /\ observed # NoInput =>
    LET decided == get_ancestor(store, observed.head, 1)
    IN  IF observed.apply_boost
        THEN decided.root = 2 /\ (decided.payload_status = FULL <=> observed.extend)
        ELSE decided = NewNode(3, FULL)

(* FULL payloads make the two fork choices agree but for one rule: where    *)
(* the heads differ, the Gloas one has denied the boost to a child of a     *)
(* weak parent whose proposer equivocated early; and every node on the way  *)
(* to the Gloas head is FULL.                                               *)
HeadsDifferByDeniedBoost ==
  input \in Instances /\ observed # NoInput =>
    /\ observed.gloas.payload_status = FULL
    /\ observed.phase0 # observed.gloas.root =>
         /\ input.boost_root = 4 /\ input.early /\ ~observed.apply_boost
         /\ observed.phase0 = 4

(* What gloas_full_instance_obstacle.py asserts of its fixture and of its   *)
(* control.                                                                 *)
InstanceAsserts ==
  /\ input \in Instances /\ observed # NoInput
  /\ input.boost_root = 4
  /\ input.messages = fixture.latest_messages
  => /\ observed.phase0 = 4
     /\ observed.weights[2].phase0 = 40 /\ observed.weights[3].phase0 = 32
     /\ observed.weights[3].gloas = 32
     /\ IF input.early
        THEN observed.weights[2].gloas = 0 /\ observed.gloas = NewNode(3, FULL)
        ELSE observed.apply_boost /\ observed.gloas.root = 4

(* Head, boost and the vote of the PTC decide as the two scripts assert.   *)
HelperAnswersHold ==
  /\ ObservationAsserts
  /\ MajorityOverrulesBoost
  /\ HeadFollowsPtc
  /\ HeadsDifferByDeniedBoost
  /\ InstanceAsserts
=============================================================================
