------------------------------ MODULE Execution ------------------------------
(***************************************************************************)
(* An execution of the protocol: several honest nodes, each with a fork-   *)
(* choice store and the Fast Confirmation Rule beside it, whose validators *)
(* vote for the heads the node sees.  In every second a node ticks its     *)
(* store, handles the events scheduled for it, in the first second of a    *)
(* slot runs the rule, and then its validators may vote.                   *)
(*                                                                         *)
(* The schedule is the network's and the adversary's choice: the steps     *)
(* below take it as a parameter, and the modules that extend this one say  *)
(* which schedules occur.  The premises of the safety claim are not        *)
(* guards: broken collects the names of those that the execution has       *)
(* broken so far.                                                          *)
(***************************************************************************)
EXTENDS Handlers, FastConfirmation, SequencesExt

CONSTANTS
  SETTINGS,       \* by script: its honest nodes, those of them that run the
                  \* rule, and the owner of every validator: a node or NoOwner
  NoOwner,        \* of the adversary's validators
  GENESIS_STORE   \* the shared trusted starting store

ASSUME ExecutionAssumption ==
  /\ \A s \in DOMAIN SETTINGS :
       /\ IsFiniteSet(SETTINGS[s].nodes)
       /\ SETTINGS[s].rule_nodes \subseteq SETTINGS[s].nodes
       /\ NoOwner \notin SETTINGS[s].nodes
       /\ SETTINGS[s].owner \in [ValidatorIndex -> SETTINGS[s].nodes \cup {NoOwner}]
  /\ GENESIS_STORE.time = 0

(* The adversary's share of the committees of any span of slots is within  *)
(* the threshold of the rule, and the rule's estimate bounds the span.     *)
ByzantineBound(owner, slots) ==
  \A first \in slots : \A last \in {slot \in slots : slot >= first} :
    LET members == get_slot_committees(first, last)
    IN  /\ 100 * balance_of({i \in members : owner[i] = NoOwner})
             <= CONFIRMATION_BYZANTINE_THRESHOLD * balance_of(members)
        /\ balance_of(members)
             <= estimate_committee_weight_between_slots(balance_of(ValidatorIndex), first, last)

VARIABLES
  script,    \* which execution this is
  time,      \* the second
  stores,    \* the Store of every node
  fcrs,      \* the FastConfirmationStore of every node
  votes,     \* the votes that honest validators cast
  settled,   \* the roots that a node had confirmed when a past slot ended
  owed,      \* what some node held at an attestation deadline so far
  broken     \* the premises broken so far

execution_vars == <<script, time, stores, fcrs, votes, settled, owed, broken>>

Node == SETTINGS[script].nodes

RuleNodes == SETTINGS[script].rule_nodes

Owner == SETTINGS[script].owner

honest == {i \in ValidatorIndex : Owner[i] # NoOwner}

Premise == {"votes_head", "attestation_delivery", "boundary_block_prefix",
            "boundary_envelope_prefix", "attester_slashing_relay"}

ExecutionTypeOK ==
  /\ script \in DOMAIN SETTINGS
  /\ time \in Nat
  /\ \A v \in Node : /\ IsStore(stores[v])
                     /\ stores[v].time = time
                     /\ fcrs[v] \in FastConfirmationStore
  /\ votes \subseteq [validator : honest, time : 0..time, data : AttestationData]
  /\ settled \subseteq Root
  /\ owed \in [blocks : SUBSET Root, payloads : SUBSET Root, evidence : SUBSET ValidatorIndex]
  /\ broken \subseteq Premise

-----------------------------------------------------------------------------
(* Events. *)

block_event(signed_block) == [kind |-> "block", signed_block |-> signed_block]

attestation_event(indices, data) ==
  [kind |-> "attestation", is_from_block |-> FALSE,
   attestation |-> [attesting_indices |-> indices, data |-> data]]

slashing_event(slashing) == [kind |-> "attester_slashing", slashing |-> slashing]

envelope_event(root) == [kind |-> "execution_payload_envelope", root |-> root]

(* Whether the handler of the event takes it, and the store it leaves.     *)
accepts(store, event) ==
  CASE event.kind = "block" -> on_block_accepts(store, event.signed_block)
    [] event.kind = "attestation" ->
         on_attestation_accepts(store, event.attestation, event.is_from_block)
    [] event.kind = "attester_slashing" -> on_attester_slashing_accepts(store, event.slashing)
    [] event.kind = "execution_payload_envelope" ->
         on_execution_payload_envelope_accepts(store, event.root)
    [] event.kind = "payload_attestation_message" ->
         on_payload_attestation_message_accepts(store, event.message, event.is_from_block)

apply_event(store, event) ==
  IF ~accepts(store, event) THEN store
  ELSE CASE event.kind = "block" ->
              [head \in ForkChoiceNode |->
                 import_block(store, event.signed_block, head)][get_head(store)]
         [] event.kind = "attestation" -> on_attestation(store, event.attestation)
         [] event.kind = "attester_slashing" -> on_attester_slashing(store, event.slashing)
         [] event.kind = "execution_payload_envelope" ->
              on_execution_payload_envelope(store, event.root)
         [] event.kind = "payload_attestation_message" ->
              on_payload_attestation_message(store, event.message)

apply_events(store, events) == FoldLeft(apply_event, store, events)

(* The events of a second before its first vote, and those from it on.     *)
votes_start(events) ==
  Cardinality({k \in DOMAIN events : \A j \in 1..k : events[j].kind # "attestation"})

before_votes(events) == SubSeq(events, 1, votes_start(events))

from_votes(events) == SubSeq(events, votes_start(events) + 1, Len(events))

-----------------------------------------------------------------------------
(* Honest voting. *)

(* The data of an honest vote of a slot, for the head of the store.        *)
honest_attestation_data(store, head, slot) ==
  LET block_post_state == block_state(store, head.root)
      head_state == IF block_post_state.slot < slot
                    THEN process_slots(block_post_state, slot) ELSE block_post_state
  IN  [slot |-> slot,
       index |-> IF block_slot(store, head.root) # slot /\ head.payload_status = FULL
                 THEN 1 ELSE 0,
       beacon_block_root |-> head.root,
       source |-> head_state.current_justified_checkpoint,
       target |-> get_checkpoint_for_block(store, head.root, get_current_epoch(head_state))]

current_slot == slot_at(time)

slot_start(slot) == (slot * SLOT_DURATION_MS) \div 1000

attestation_deadline(slot) == slot_start(slot) + get_attestation_due_ms \div 1000

(* The honest members of the current committee that have not voted yet.    *)
Unvoted ==
  {i \in get_beacon_committee(current_slot) \cap honest :
     \A vote \in votes : vote.validator = i => vote.data.slot # current_slot}

(* The votes of the last slot, each of its own validator. *)
VotesOf(slot) == {vote \in votes : vote.data.slot = slot}

vote_event(vote) == attestation_event({vote.validator}, vote.data)

-----------------------------------------------------------------------------
(* Steps. *)

ExecutionInit ==
  /\ script \in DOMAIN SETTINGS
  /\ time = 0
  /\ stores = [v \in Node |-> GENESIS_STORE]
  /\ fcrs = [v \in Node |-> get_fast_confirmation_store(GENESIS_STORE)]
  /\ votes = {}
  /\ settled = {}
  /\ owed = [blocks |-> {}, payloads |-> {}, evidence |-> {}]
  /\ broken = {}

held_blocks(all_stores) == UNION {DOMAIN all_stores[v].blocks : v \in Node}

(* Mutant: a payload that some node lacks is not relayed. *)
commonly_held_payloads(all_stores) ==
  {root \in held_blocks(all_stores) : \A v \in Node : root \in all_stores[v].payloads}

held_payloads(all_stores) == UNION {all_stores[v].payloads : v \in Node}

held_evidence(all_stores) == UNION {all_stores[v].equivocating_indices : v \in Node}

(* The deadline has not passed: what a node holds now is owed to the others. *)
observed(all_stores) ==
  [blocks |-> owed.blocks \cup held_blocks(all_stores),
   payloads |-> owed.payloads \cup held_payloads(all_stores),
   evidence |-> owed.evidence \cup held_evidence(all_stores)]

(* The premises on the network that the schedule of a slot's first second  *)
(* breaks: a block or payload that a node held at a deadline of an earlier *)
(* slot is handled before the votes, evidence of equivocation in the same  *)
(* second, and each vote of the last slot is delivered.                    *)
relay_failures(prefixes, next_stores, schedule) ==
  LET delivered(v, vote) == \E k \in DOMAIN schedule[v] : schedule[v][k] = vote_event(vote)
  IN  (IF \A v \in Node : owed.blocks \subseteq DOMAIN prefixes[v].blocks
       THEN {} ELSE {"boundary_block_prefix"})
      \cup (IF \A v \in Node : owed.payloads \subseteq prefixes[v].payloads
            THEN {} ELSE {"boundary_envelope_prefix"})
      \cup (IF \A v \in Node : \A vote \in VotesOf(current_slot) : delivered(v, vote)
            THEN {} ELSE {"attestation_delivery"})
      \cup (IF \A v \in Node : owed.evidence \subseteq next_stores[v].equivocating_indices
            THEN {} ELSE {"attester_slashing_relay"})

(* on_fast_confirmation of every node that runs the rule, in its two parts *)
(* with the head read once.                                                *)
RunRule(next_stores) ==
  \E heads \in {[v \in RuleNodes |-> get_head(next_stores[v]).root]} :
  \E updated \in {[v \in RuleNodes |->
        update_fast_confirmation_variables(next_stores[v], fcrs[v], heads[v])]} :
    fcrs' = [v \in Node |-> IF v \in RuleNodes
                            THEN query(next_stores[v], updated[v], heads[v]) ELSE fcrs[v]]

(* The first second of the next slot, with the rule after its events.  A   *)
(* second without events is no step: on_tick reaches the same store        *)
(* whether or not it stops there.                                          *)
BeginSlot(schedule) ==
  /\ time' = slot_start(current_slot + 1)
  /\ \E ticked \in {[v \in Node |-> on_tick(stores[v], time')]} :
     \E prefixes \in {[v \in Node |-> apply_events(ticked[v], before_votes(schedule[v]))]} :
     \E next_stores \in {[v \in Node |-> apply_events(prefixes[v], from_votes(schedule[v]))]} :
       /\ stores' = next_stores
       /\ owed' = observed(next_stores)
       /\ RunRule(next_stores)
       /\ broken' = broken \cup relay_failures(prefixes, next_stores, schedule)
  /\ settled' = settled \cup {fcrs[v].confirmed_root : v \in Node}
  /\ UNCHANGED <<script, votes>>

(* Another second of the slot, with events.                                *)
LaterSecond(second, schedule) ==
  /\ second > time
  /\ second < slot_start(current_slot + 1)
  /\ time' = second
  /\ \E next_stores \in {[v \in Node |->
                            apply_events(on_tick(stores[v], second), schedule[v])]} :
       /\ stores' = next_stores
       /\ owed' = IF second <= attestation_deadline(current_slot)
                  THEN observed(next_stores) ELSE owed
  /\ UNCHANGED <<script, fcrs, votes, settled, broken>>

(* More events for a node in the current second, after the rule. *)
HandleMore(v, events) ==
  /\ \E next_stores \in {[stores EXCEPT ![v] = apply_events(@, events)]} :
       /\ stores' = next_stores
       /\ owed' = IF time <= attestation_deadline(current_slot)
                  THEN observed(next_stores) ELSE owed
  /\ UNCHANGED <<script, time, fcrs, votes, settled, broken>>

(* Members of the current committee vote with their node's head. *)
CastVotes(voters) ==
  /\ voters # {}
  /\ voters \subseteq Unvoted
  /\ time <= attestation_deadline(current_slot)
  /\ \E heads \in {[v \in Node |-> get_head(stores[v])]} :
       votes' = votes \cup
         {[validator |-> i, time |-> time,
           data |-> honest_attestation_data(stores[Owner[i]], heads[Owner[i]], current_slot)] :
            i \in voters}
  /\ UNCHANGED <<script, time, stores, fcrs, settled, owed, broken>>

(* Honest validators made to vote for something else than their head.      *)
CastInjected(voters, data) ==
  /\ voters # {}
  /\ voters \subseteq Unvoted
  /\ votes' = votes \cup {[validator |-> i, time |-> time, data |-> data] : i \in voters}
  /\ \E heads \in {[v \in Node |-> get_head(stores[v])]} :
       broken' = broken \cup
         {"votes_head" : i \in {i \in voters :
            honest_attestation_data(stores[Owner[i]], heads[Owner[i]], current_slot) # data}}
  /\ UNCHANGED <<script, time, stores, fcrs, settled, owed>>

-----------------------------------------------------------------------------

(* ConfirmedRootSafeFromNextSlot: as long as the premises hold, what one   *)
(* node confirmed in an earlier slot is known to every node and on the     *)
(* chain of its head, whatever the adversary shows to whom.                *)
ConfirmedRootSafeFromNextSlot ==
  broken = {} => \A root \in settled, v \in Node :
    /\ root \in DOMAIN stores[v].blocks
    /\ is_ancestor(stores[v], get_head(stores[v]), get_node_for_root(root))

(* A relayed payload is what makes an honest vote count everywhere: as     *)
(* long as the premises hold, from the next slot on every node weighs      *)
(* every honest vote as it was cast.                                       *)
HonestVotesCount ==
  broken = {} => \A vote \in votes, v \in Node :
    vote.data.slot < current_slot =>
      /\ vote.validator \in DOMAIN stores[v].latest_messages
      /\ \/ stores[v].latest_messages[vote.validator].slot > vote.data.slot
         \/ stores[v].latest_messages[vote.validator] =
              [slot |-> vote.data.slot, root |-> vote.data.beacon_block_root,
               payload_present |-> vote.data.index = 1]

(* Without the relay of payloads, the only honest votes that a node does   *)
(* not count are votes for a payload it has not verified when they arrive. *)
OnlyPayloadVotesAreLost ==
  broken \subseteq {"boundary_envelope_prefix"} => \A vote \in votes, v \in Node :
    vote.data.slot < current_slot /\ vote.data.index = 0 =>
      /\ vote.validator \in DOMAIN stores[v].latest_messages
      /\ stores[v].latest_messages[vote.validator].slot >= vote.data.slot
=============================================================================
