------------------------------ MODULE Adversary ------------------------------
(***************************************************************************)
(* The executions of a free adversary that keeps the premises of the       *)
(* safety claim.  It decides which node sees a block or a payload first    *)
(* and when, which nodes' validators vote before they see it, and what its *)
(* own validators tell each node; the network relays to every node by the  *)
(* next slot what some node held at the deadline, and every honest vote.   *)
(***************************************************************************)
EXTENDS Execution

CONSTANTS
  RELEASES,         \* blocks, payloads and evidence: sequences of events
  Attack(_, _, _),  \* what it may tell a node with this store in a slot:
                    \* sequences of vote data
  FREE_SLOTS        \* the last slot with votes; the run ends in the next

released == UNION {ToSet(release) : release \in RELEASES}

(* Who signed both attestations of the evidence. *)
slashed_by(event) ==
  event.slashing.attestation_1.attesting_indices
    \cap event.slashing.attestation_2.attesting_indices

(* There are finitely many messages to release, and none of the evidence   *)
(* convicts an honest validator (HonestBehavior.not_slashable).            *)
ASSUME AdversaryAssumption ==
  /\ FREE_SLOTS \in Nat
  /\ \A slot \in 0..(FREE_SLOTS + 1) : get_beacon_committee(slot) \subseteq ValidatorIndex
  /\ IsFiniteSet(released)
  /\ \A release \in RELEASES : release \in Seq(released)
  /\ \A event \in released :
       /\ event.kind \in {"block", "execution_payload_envelope", "attester_slashing"}
       /\ event.kind = "attester_slashing" =>
            \A s \in DOMAIN SETTINGS, i \in slashed_by(event) : SETTINGS[s].owner[i] = NoOwner

(* What a node lacks of what the others held. *)
holder(root) == CHOOSE w \in Node : root \in DOMAIN stores[w].blocks

held_block(root) == stores[holder(root)].blocks[root]

missing_blocks(v) ==
  {block_event([root |-> root, message |-> held_block(root)]) :
     root \in owed.blocks \ DOMAIN stores[v].blocks}

missing_payloads(v) == {envelope_event(root) : root \in owed.payloads \ stores[v].payloads}

missing_evidence(v) ==
  {event \in released : /\ event.kind = "attester_slashing"
                        /\ slashed_by(event) \subseteq owed.evidence
                        /\ ~ slashed_by(event) \subseteq stores[v].equivocating_indices}

(* The second event is rejected unless the first was handled before it: a  *)
(* block before its children and its payload, and the payload before the   *)
(* children that build on it.                                              *)
is_needed(first, second) ==
  CASE first.kind = "block" /\ second.kind = "block" ->
         first.signed_block.root = second.signed_block.message.parent_root
    [] first.kind = "block" /\ second.kind # "block" -> first.signed_block.root = second.root
    [] first.kind # "block" /\ second.kind = "block" ->
         LET child == second.signed_block
         IN  /\ first.root = child.message.parent_root
             /\ is_parent_node_full(stores[holder(child.root)], child.message)
    [] OTHER -> FALSE

(* The orders in which the network may bring them.                         *)
relay_orders(v) ==
  {order \in SetToSeqs(missing_blocks(v) \cup missing_payloads(v)) :
     \A j, k \in DOMAIN order : j < k => ~ is_needed(order[k], order[j])}

(* Mutant: the relay brings the blocks without their payloads. *)
relay_of_blocks(v, order) == SelectSeq(order, LAMBDA event : event.kind = "block")

relay_of(v, order) == order \o SetToSeq(missing_evidence(v))

votes_of_last_slot ==
  LET sequence == SetToSeq(VotesOf(current_slot))
  IN  [k \in DOMAIN sequence |-> vote_event(sequence[k])]

(* The adversary's committee members, and their votes for a node. *)
dishonest_members == get_beacon_committee(current_slot) \ honest

attack_events(plan) ==
  [k \in DOMAIN plan |-> attestation_event(dishonest_members, plan[k])]

(* A slot begins: the relay, the honest votes, then the adversary's own.   *)
FreeSlot ==
  /\ Unvoted = {}
  /\ current_slot <= FREE_SLOTS
  /\ \E attack \in [Node -> UNION {Attack(stores[v], v, current_slot) : v \in Node}],
        order \in [Node -> UNION {relay_orders(v) : v \in Node}] :
       /\ \A v \in Node : /\ attack[v] \in Attack(stores[v], v, current_slot)
                          /\ order[v] \in relay_orders(v)
       /\ \E schedule \in {[v \in Node |->
             relay_of(v, order[v]) \o votes_of_last_slot \o attack_events(attack[v])]} :
            BeginSlot(schedule)

(* One release reaches some of the nodes, in time for the slot's votes.    *)
Release ==
  /\ Unvoted # {}
  /\ time = slot_start(current_slot)
  /\ current_slot <= FREE_SLOTS
  /\ \E release \in RELEASES, receivers \in SUBSET Node :
       /\ \E v \in receivers : accepts(stores[v], Head(release))
       /\ LaterSecond(time + 1,
            [v \in Node |-> IF v \in receivers THEN release ELSE <<>>])

(* The validators of some of the nodes vote before that message, and those *)
(* of the others after it: their order among themselves changes nothing.   *)
FreeVotes ==
  /\ current_slot <= FREE_SLOTS
  /\ \E nodes \in SUBSET Node :
       /\ time > slot_start(current_slot) => nodes = Node
       /\ CastVotes({i \in Unvoted : Owner[i] \in nodes})

AdversaryNext == FreeSlot \/ Release \/ FreeVotes

AdversarySpec == ExecutionInit /\ [][AdversaryNext]_execution_vars

(* The adversary keeps the premises, the relay and the delivery of votes    *)
(* leave none of them broken, so that the next two say something.           *)
PremisesHold == broken = {}

(* From the next slot on every node weighs every honest vote as it was      *)
(* cast, although the nodes see blocks, payloads and evidence in different  *)
(* orders.                                                                  *)
VotesArrive == PremisesHold /\ HonestVotesCount
=============================================================================
