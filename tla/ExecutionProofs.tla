--------------------------- MODULE ExecutionProofs ---------------------------
(***************************************************************************)
(* Votes arrive: the relay keeps the premises on the network, and then     *)
(* every node weighs every honest vote from the next slot on, whatever the *)
(* adversary shows to whom.                                                *)
(***************************************************************************)
EXTENDS Adversary, SequenceTheorems, ForkChoiceProofs

-----------------------------------------------------------------------------
(* The events of a second are handled in order.  FoldLeft recurses over    *)
(* the sets of positions still to process; the store after the first k     *)
(* events is the value of that recursion at 1..k.                          *)

Handled(s, events, n, iter) ==
  iter = [S \in SUBSET (1..n) |->
            IF S = {} THEN s ELSE apply_event(iter[S \ {Max(S)}], events[Max(S)])]

LEMMA HandledExists ==
  ASSUME NEW s, NEW events, NEW n \in Nat
  PROVE  \E iter : Handled(s, events, n, iter)
<1> DEFINE Has(k) == \E iter : Handled(s, events, k, iter)
           missing == {k \in Nat : ~ Has(k)}
<1> SUFFICES missing = {}
  OBVIOUS
<1> SUFFICES ASSUME missing # {} PROVE FALSE
  OBVIOUS
<1>1. PICK m \in missing : \A k \in missing : m <= k
  BY LeastNatural
<1>2. m # 0
  <2> DEFINE iter == [S \in SUBSET (1..0) |-> s]
  <2>1. 1..0 = {}
    OBVIOUS
  <2>2. Handled(s, events, 0, iter)
    BY <2>1 DEF Handled
  <2> QED BY <2>2
<1>3. m - 1 \in Nat /\ Has(m - 1)
  BY <1>1, <1>2
<1>4. PICK g : Handled(s, events, m - 1, g)
  BY <1>3
<1> DEFINE iter == [S \in SUBSET (1..m) |->
                      IF m \in S THEN apply_event(g[S \ {m}], events[m]) ELSE g[S]]
<1>5. ASSUME NEW S \in SUBSET (1..m)
      PROVE  iter[S] = IF S = {} THEN s
                       ELSE apply_event(iter[S \ {Max(S)}], events[Max(S)])
  <2>1. CASE m \in S
    <3>1. Max(S) = m
      BY <2>1, MaxIsLast
    <3>2. S \ {m} \in SUBSET (1..m) /\ m \notin S \ {m}
      OBVIOUS
    <3>3. iter[S \ {m}] = g[S \ {m}]
      BY <3>2
    <3> QED BY <2>1, <3>1, <3>3
  <2>2. CASE m \notin S
    <3>1. S \in SUBSET (1..(m - 1))
      BY <1>3, <2>2
    <3>2. g[S] = IF S = {} THEN s ELSE apply_event(g[S \ {Max(S)}], events[Max(S)])
      BY <1>4, <3>1 DEF Handled
    <3>3. iter[S] = g[S] /\ iter[S \ {Max(S)}] = g[S \ {Max(S)}]
      BY <2>2
    <3> QED BY <3>2, <3>3
  <2> QED BY <2>1, <2>2
<1>6. Handled(s, events, m, iter)
  <2> DEFINE body == [S \in SUBSET (1..m) |->
                        IF S = {} THEN s
                        ELSE apply_event(iter[S \ {Max(S)}], events[Max(S)])]
  <2>1. DOMAIN iter = DOMAIN body /\ \A S \in SUBSET (1..m) : iter[S] = body[S]
    BY <1>5
  <2>2. iter = [S \in SUBSET (1..m) |-> iter[S]] /\ body = [S \in SUBSET (1..m) |-> body[S]]
    OBVIOUS
  <2>3. iter = body
    BY <2>1, <2>2
  <2> QED BY <2>3 DEF Handled
<1> HIDE DEF iter
<1>7. Has(m)
  BY <1>6
<1> QED BY <1>1, <1>7

(* after[k] is the store after the first k events.                         *)
Stages(s, events, after) ==
  /\ after[0] = s
  /\ \A k \in 1..Len(events) : after[k] = apply_event(after[k - 1], events[k])
  /\ after[Len(events)] = apply_events(s, events)

LEMMA EventStages ==
  ASSUME NEW s, NEW S, NEW events \in Seq(S)
  PROVE  \E after : Stages(s, events, after)
<1> DEFINE n == Len(events)
           body(iter) == [T \in SUBSET (1..n) |->
                            IF T = {} THEN s
                            ELSE apply_event(iter[T \ {Max(T)}], events[Max(T)])]
           result == CHOOSE iter : iter = body(iter)
           after == [k \in 0..n |-> result[1..k]]
<1>1. n \in Nat /\ DOMAIN events = 1..n
  OBVIOUS
<1>2. \A iter : Handled(s, events, n, iter) <=> iter = body(iter)
  BY DEF Handled
<1>3. \E iter : Handled(s, events, n, iter)
  BY <1>1, HandledExists
<1>4. result = body(result)
  BY <1>2, <1>3
<1>5. apply_events(s, events) = result[1..n]
  BY <1>1 DEF apply_events, FoldLeft, MapThenFoldSet
<1> HIDE DEF result
<1>6. result[{}] = s
  <2>1. {} \in SUBSET (1..n)
    OBVIOUS
  <2> QED BY <1>4, <2>1
<1>7. ASSUME NEW k \in 1..n
      PROVE  result[1..k] = apply_event(result[1..(k - 1)], events[k])
  <2>1. 1..k \in SUBSET (1..n) /\ 1..k # {} /\ k \in 1..k /\ k \in Nat
    <3>1. k \in Nat /\ 1 <= k /\ k <= n
      BY <1>1
    <3> HIDE DEF n
    <3> QED BY <1>1, <3>1
  <2>2. Max(1..k) = k
    BY <2>1, MaxIsLast
  <2>3. (1..k) \ {k} = 1..(k - 1)
    BY <1>1
  <2> QED BY <1>4, <2>1, <2>2, <2>3
<1>8. after[0] = s
  <2>1. 0 \in 0..n /\ 1..0 = {}
    BY <1>1
  <2> QED BY <1>6, <2>1
<1>9. ASSUME NEW k \in 1..n PROVE after[k] = apply_event(after[k - 1], events[k])
  <2>1. k \in 0..n /\ k - 1 \in 0..n
    BY <1>1
  <2> QED BY <1>7, <2>1
<1>10. after[n] = apply_events(s, events)
  <2>1. n \in 0..n
    BY <1>1
  <2> QED BY <1>5, <2>1
<1> QED BY <1>8, <1>9, <1>10 DEF Stages

-----------------------------------------------------------------------------
(* What the theorem takes for granted of the constants, beside the         *)
(* assumptions of the modules: the nodes start from the trusted anchor; a  *)
(* root names one block (WellFormedExecution); what the adversary releases *)
(* and tells is of the kinds that handlers take; and the external          *)
(* functions advance a state to a slot and find an honest attestation of   *)
(* the slot's committee valid (honest_attestation_valid).                  *)

AnchoredScope ==
  /\ GENESIS_STORE = get_forkchoice_store(ANCHOR_STATE, ANCHOR_BLOCK)
  /\ \A a \in SIGNED_BLOCKS :
       /\ \A b \in SIGNED_BLOCKS : a.root = b.root => a.message = b.message
       /\ a.root = ANCHOR_BLOCK.root => a.message = ANCHOR_BLOCK.message

MessagesScope ==
  /\ \A event \in released :
       /\ event.kind = "block" => event.signed_block \in SIGNED_BLOCKS
       /\ event.kind = "attester_slashing" => event.slashing \in SLASHINGS
  /\ \A s, v : Rooted(s) =>
       \A slot \in 0..FREE_SLOTS : Attack(s, v, slot) \subseteq Seq(AttestationData)
  /\ {a \in Attestation : a.data.target.epoch <= compute_epoch_at_slot(FREE_SLOTS + 1)}
       \subseteq ATTESTATIONS

StatesScope ==
  \A state \in BeaconStates :
    /\ \A slot \in 0..FREE_SLOTS :
         state.slot < slot => /\ process_slots(state, slot) \in BeaconStates
                              /\ process_slots(state, slot).slot = slot
    /\ \A s \in DOMAIN SETTINGS, i \in ValidatorIndex, data \in AttestationData :
         /\ SETTINGS[s].owner[i] # NoOwner /\ i \in get_beacon_committee(data.slot)
         /\ data.slot <= FREE_SLOTS /\ data.index \in {0, 1}
         /\ data.target.epoch = compute_epoch_at_slot(data.slot)
         => is_valid_indexed_attestation(state, [attesting_indices |-> {i}, data |-> data])

AdversaryScope == AnchoredScope /\ MessagesScope /\ StatesScope

-----------------------------------------------------------------------------
(* Two nodes see the same blocks under the same roots, and so the same     *)
(* ancestors of a block that both know.                                    *)

LEMMA BlocksAgree ==
  ASSUME AnchoredScope, NEW s, Rooted(s), NEW t, Rooted(t),
         NEW root \in DOMAIN s.blocks, root \in DOMAIN t.blocks
  PROVE  s.blocks[root] = t.blocks[root]
<1>1. CASE root = ANCHOR_BLOCK.root
  BY <1>1 DEF Rooted, AnchorSound
<1>2. CASE root # ANCHOR_BLOCK.root
  <2>1. /\ \E a \in SIGNED_BLOCKS : a.root = root /\ s.blocks[root] = a.message
        /\ \E b \in SIGNED_BLOCKS : b.root = root /\ t.blocks[root] = b.message
    BY <1>2 DEF Rooted, ChainSound, BlocksDelivered
  <2> QED BY <2>1 DEF AnchoredScope
<1> QED BY <1>1, <1>2

LEMMA AncestorsAgree ==
  ASSUME AnchoredScope, NEW s, Rooted(s), NEW t, Rooted(t),
         NEW slot \in Nat, ANCHOR_BLOCK.message.slot <= slot,
         NEW node \in ForkChoiceNode,
         node.root \in DOMAIN s.blocks, node.root \in DOMAIN t.blocks
  PROVE  /\ get_ancestor(t, node, slot) = get_ancestor(s, node, slot)
         /\ get_ancestor(t, node, slot).root \in DOMAIN t.blocks
<1> DEFINE S == {n \in ForkChoiceNode : n.root \in DOMAIN s.blocks /\ n.root \in DOMAIN t.blocks}
           agree(n) == /\ get_ancestor(t, n, slot) = get_ancestor(s, n, slot)
                       /\ get_ancestor(t, n, slot).root \in DOMAIN t.blocks
           bad == {n \in S : ~ agree(n)}
           ranks == {block_slot(s, n.root) : n \in bad}
<1> SUFFICES ASSUME bad # {} PROVE FALSE
  OBVIOUS
<1>1. /\ Tree(s) /\ Tree(t) /\ IsStore(s) /\ IsStore(t)
      /\ Descending(s, slot) /\ Descending(t, slot)
  BY SoundIsTree, TreeDescends DEF Rooted
<1>2. ranks \subseteq Nat /\ ranks # {}
  BY <1>1, BlockSlotType
<1>3. PICK m \in ranks : \A other \in ranks : m <= other
  BY <1>2, LeastNatural
<1>4. PICK n \in bad : m = block_slot(s, n.root)
  OBVIOUS
<1>5. n \in S /\ ~ agree(n)
  OBVIOUS
<1>6. s.blocks[n.root] = t.blocks[n.root] /\ block_slot(t, n.root) = block_slot(s, n.root)
  BY <1>5, BlocksAgree DEF block_slot, block_at
<1>7. /\ get_ancestor(s, n, slot) = IF block_slot(s, n.root) > slot
                                    THEN get_ancestor(s, parent_node(s, n), slot) ELSE n
      /\ get_ancestor(t, n, slot) = IF block_slot(s, n.root) > slot
                                    THEN get_ancestor(t, parent_node(t, n), slot) ELSE n
  BY <1>1, <1>5, <1>6, AncestorEquation
<1>8. block_slot(s, n.root) > slot
  BY <1>5, <1>7
<1> DEFINE parent == parent_node(s, n)
<1>9. n.root # ANCHOR_BLOCK.root
  <2>1. s.blocks[ANCHOR_BLOCK.root].slot = ANCHOR_BLOCK.message.slot /\ ANCHOR_BLOCK.root \in DOMAIN s.blocks
    BY DEF Rooted, AnchorSound
  <2>2. ANCHOR_BLOCK.message.slot \in Nat
    BY AnchorAssumption DEF SignedBeaconBlock, BeaconBlock
  <2> QED BY <1>8, <2>1, <2>2 DEF block_slot, block_at
<1>10. /\ s.blocks[n.root].parent_root \in DOMAIN s.blocks
       /\ s.blocks[s.blocks[n.root].parent_root].slot < s.blocks[n.root].slot
       /\ s.blocks[n.root].parent_root \in DOMAIN t.blocks
  BY <1>5, <1>6, <1>9 DEF Rooted, TreeSound
<1>11. parent \in ForkChoiceNode /\ parent.root = s.blocks[n.root].parent_root
  BY <1>1, <1>5, ParentNodeType
<1>12. parent_node(t, n) = parent
  <2>1. s.blocks[s.blocks[n.root].parent_root] = t.blocks[s.blocks[n.root].parent_root]
    BY <1>10, BlocksAgree
  <2> QED BY <1>5, <1>6, <1>10, <2>1
             DEF parent_node, block_at, get_parent_payload_status
<1> HIDE DEF parent
<1>13. parent \in S /\ block_slot(s, parent.root) < block_slot(s, n.root)
  BY <1>5, <1>10, <1>11 DEF block_slot, block_at
<1>14. parent \notin bad
  <2>1. parent \in bad => m <= block_slot(s, parent.root)
    BY <1>3
  <2>2. m \in Nat /\ block_slot(s, parent.root) \in Nat
    BY <1>1, <1>2, BlockSlotType
  <2> HIDE DEF bad
  <2> QED BY <1>4, <1>13, <2>1, <2>2
<1>15. agree(parent)
  BY <1>13, <1>14
<1> HIDE DEF bad, S, ranks
<1> QED BY <1>5, <1>7, <1>8, <1>12, <1>15 DEF parent

-----------------------------------------------------------------------------
(* An event.  What a node has seen stays seen, its tree stays rooted, and  *)
(* the messages of honest validators are votes that they cast, as long as  *)
(* the attestations that name them are (HonestBehavior.no_forgery).        *)

message_of(vote) ==
  [slot |-> vote.data.slot, root |-> vote.data.beacon_block_root,
   payload_present |-> vote.data.index = 1]

MessagesCast(s) ==
  \A i \in DOMAIN s.latest_messages \cap honest :
    \E vote \in votes : vote.validator = i /\ s.latest_messages[i] = message_of(vote)

NodeSound(s) ==
  /\ Rooted(s)
  /\ \A root \in DOMAIN s.blocks : s.blocks[root].slot <= get_current_slot(s)
  /\ s.equivocating_indices \cap honest = {}
  /\ MessagesCast(s)

Learns(s, t) ==
  /\ DOMAIN s.blocks \subseteq DOMAIN t.blocks
  /\ s.payloads \subseteq t.payloads
  /\ s.equivocating_indices \subseteq t.equivocating_indices
  /\ DOMAIN s.latest_messages \subseteq DOMAIN t.latest_messages
  /\ \A i \in DOMAIN s.latest_messages :
       \/ t.latest_messages[i] = s.latest_messages[i]
       \/ t.latest_messages[i].slot > s.latest_messages[i].slot

Grows(s, t) == t.time = s.time /\ Learns(s, t)

Genuine(attestation) ==
  \A i \in attestation.attesting_indices \cap honest :
    \E vote \in votes : vote.validator = i /\ vote.data = attestation.data

Deliverable(event) ==
  \/ event.kind = "block" /\ event.signed_block \in SIGNED_BLOCKS
  \/ event.kind = "execution_payload_envelope"
  \/ /\ event.kind = "attester_slashing"
     /\ event \in released /\ event.slashing \in SLASHINGS
     /\ slashed_by(event) \cap honest = {}
  \/ /\ event.kind = "attestation" /\ event.is_from_block = FALSE
     /\ event.attestation \in Attestation
     /\ Genuine(event.attestation)

LEMMA GrowsItself == ASSUME NEW s PROVE Grows(s, s)
BY DEF Grows, Learns

LEMMA LearnsFurther ==
  ASSUME NEW s, NEW t, NEW u, IsStore(s), IsStore(t), IsStore(u), Learns(s, t), Learns(t, u)
  PROVE  Learns(s, u)
<1>1. ASSUME NEW i \in DOMAIN s.latest_messages
      PROVE  /\ i \in DOMAIN u.latest_messages
             /\ \/ u.latest_messages[i] = s.latest_messages[i]
                \/ u.latest_messages[i].slot > s.latest_messages[i].slot
  <2>1. i \in DOMAIN t.latest_messages /\ i \in DOMAIN u.latest_messages
    BY DEF Learns
  <2>2. /\ s.latest_messages[i].slot \in Nat /\ t.latest_messages[i].slot \in Nat
        /\ u.latest_messages[i].slot \in Nat
    BY <2>1 DEF IsStore, StoreOver, LatestMessage
  <2>3. /\ \/ t.latest_messages[i] = s.latest_messages[i]
           \/ t.latest_messages[i].slot > s.latest_messages[i].slot
        /\ \/ u.latest_messages[i] = t.latest_messages[i]
           \/ u.latest_messages[i].slot > t.latest_messages[i].slot
    BY <2>1 DEF Learns
  <2> QED BY <2>1, <2>2, <2>3
<1> QED BY <1>1 DEF Learns

LEMMA GrowsFurther ==
  ASSUME NEW s, NEW t, NEW u, IsStore(s), IsStore(t), IsStore(u), Grows(s, t), Grows(t, u)
  PROVE  Grows(s, u)
BY LearnsFurther DEF Grows

(* A handler that leaves the blocks and the checkpoints alone.             *)
LEMMA TrackedStaysRooted ==
  ASSUME NEW s, Rooted(s), NEW t, IsStore(t), SameTracked(s, t)
  PROVE  Rooted(t)
<1>1. TreeSound(t) /\ AnchorSound(t)
  BY DEF Rooted, SameTracked, TreeSound, AnchorSound
<1>2. ChainSound(t)
  BY DEF Rooted, SameTracked, ChainSound, BlocksDelivered, CheckpointsOnChains, OnKnownChain
<1> QED BY <1>1, <1>2 DEF Rooted

LEMMA BlockKeepsSound ==
  ASSUME NEW s, NodeSound(s), NEW sb \in SIGNED_BLOCKS, on_block_accepts(s, sb)
  PROVE  NodeSound(on_block(s, sb)) /\ Grows(s, on_block(s, sb))
<1> DEFINE t == on_block(s, sb)
<1>1. Rooted(s) /\ IsStore(s)
  BY DEF NodeSound, Rooted
<1>2. IsStore(t) /\ TreeSound(t) /\ AnchorSound(t) /\ ChainSound(t)
  BY <1>1, OnBlockType, ImportKeepsTree, ImportKeepsAnchor, ImportKeepsChains DEF Rooted
<1>3. SameVotes(s, t) /\ t.payloads = s.payloads /\ t.time = s.time
  BY <1>1, OnBlockLeaves
<1>4. t.blocks = put(s.blocks, sb.root, sb.message) /\ sb.root \notin DOMAIN s.blocks
  BY <1>1, ImportedBlock
<1>5. sb.message.slot <= get_current_slot(s)
  <2>1. get_current_slot(s) >= sb.message.slot
    BY DEF on_block_accepts, on_block_asserts
  <2>2. get_current_slot(s) \in Nat /\ sb.message.slot \in Nat
    BY <1>1, SlotType, MessagesAssumption
       DEF get_current_slot, IsStore, StoreOver, SignedBeaconBlock, BeaconBlock
  <2> QED BY <2>1, <2>2
<1> HIDE DEF t
<1>6. get_current_slot(t) = get_current_slot(s)
  BY <1>3 DEF get_current_slot
<1>7. \A root \in DOMAIN t.blocks : t.blocks[root].slot <= get_current_slot(t)
  BY <1>4, <1>5, <1>6 DEF NodeSound, put
<1>8. t.equivocating_indices \cap honest = {} /\ MessagesCast(t)
  BY <1>3 DEF NodeSound, SameVotes, MessagesCast
<1>9. Grows(s, t)
  BY <1>3, <1>4 DEF Grows, Learns, SameVotes, put
<1> QED BY <1>2, <1>7, <1>8, <1>9 DEF NodeSound, Rooted, t

LEMMA SlashingKeepsSound ==
  ASSUME NEW s, NodeSound(s), NEW event, event.slashing \in SLASHINGS,
         slashed_by(event) \cap honest = {}
  PROVE  LET t == on_attester_slashing(s, event.slashing) IN NodeSound(t) /\ Grows(s, t)
<1> DEFINE t == on_attester_slashing(s, event.slashing)
<1>1. Rooted(s) /\ IsStore(s) /\ Shaped(s)
  BY DEF NodeSound, Rooted, IsStore, Shaped
<1>2. IsStore(t) /\ SameTracked(s, t)
  BY <1>1, OnAttesterSlashingType, UntrackedFields
<1>3. Rooted(t)
  BY <1>1, <1>2, TrackedStaysRooted
<1>4. /\ SameBlocks(s, t) /\ SameClock(s, t) /\ t.payloads = s.payloads
      /\ t.latest_messages = s.latest_messages
  BY <1>1, OnAttesterSlashingLeaves
<1>5. t.equivocating_indices = s.equivocating_indices \cup slashed_by(event)
  BY <1>1 DEF on_attester_slashing, slashed_by, Shaped, StoreOver
<1> HIDE DEF t
<1>6. NodeSound(t)
  BY <1>3, <1>4, <1>5 DEF NodeSound, SameBlocks, SameClock, MessagesCast, get_current_slot
<1>7. Grows(s, t)
  BY <1>4, <1>5 DEF Grows, Learns, SameBlocks, SameClock
<1> QED BY <1>6, <1>7 DEF t

LEMMA EnvelopeKeepsSound ==
  ASSUME NEW s, NodeSound(s), NEW root, on_execution_payload_envelope_accepts(s, root)
  PROVE  LET t == on_execution_payload_envelope(s, root) IN NodeSound(t) /\ Grows(s, t)
<1> DEFINE t == on_execution_payload_envelope(s, root)
<1>1. Rooted(s) /\ IsStore(s) /\ Shaped(s)
  BY DEF NodeSound, Rooted, IsStore, Shaped
<1>2. IsStore(t) /\ SameTracked(s, t)
  BY <1>1, OnEnvelopeType, UntrackedFields
<1>3. Rooted(t)
  BY <1>1, <1>2, TrackedStaysRooted
<1>4. /\ SameBlocks(s, t) /\ SameClock(s, t) /\ SameVotes(s, t)
      /\ t.payloads = s.payloads \cup {root}
  BY <1>1, OnEnvelopeLeaves
<1> HIDE DEF t
<1>5. NodeSound(t)
  BY <1>3, <1>4 DEF NodeSound, SameBlocks, SameClock, SameVotes, MessagesCast, get_current_slot
<1>6. Grows(s, t)
  BY <1>4 DEF Grows, Learns, SameBlocks, SameClock, SameVotes
<1> QED BY <1>5, <1>6 DEF t

(* A handler takes attestations of the epochs up to the current one only.  *)
LEMMA AttestationInScope ==
  ASSUME MessagesScope, NEW s, s.time \in Nat, get_current_slot(s) <= FREE_SLOTS + 1,
         NEW a \in Attestation, validate_target_epoch_against_current_time(s, a)
  PROVE  a \in ATTESTATIONS
<1> DEFINE epoch == get_current_store_epoch(s)
<1>1. epoch \in Nat /\ epoch <= compute_epoch_at_slot(FREE_SLOTS + 1)
  <2>1. get_current_slot(s) \in Nat /\ FREE_SLOTS + 1 \in Nat
    BY SlotType, AdversaryAssumption DEF get_current_slot
  <2> QED BY <2>1, EpochOfSlot DEF get_current_store_epoch
<1>2. a.data.target.epoch \in {epoch, saturating_sub(epoch, 1)}
  BY DEF validate_target_epoch_against_current_time
<1>3. compute_epoch_at_slot(FREE_SLOTS + 1) \in Nat
  BY AdversaryAssumption, EpochOfSlot
<1> HIDE DEF epoch
<1>4. a.data.target.epoch <= compute_epoch_at_slot(FREE_SLOTS + 1)
  BY <1>1, <1>2, <1>3 DEF saturating_sub
<1> QED BY <1>4 DEF MessagesScope

LEMMA AttestationKeepsSound ==
  ASSUME MessagesScope, NEW s, NodeSound(s), get_current_slot(s) <= FREE_SLOTS + 1,
         NEW a \in Attestation, Genuine(a), on_attestation_accepts(s, a, FALSE)
  PROVE  NodeSound(on_attestation(s, a)) /\ Grows(s, on_attestation(s, a))
<1> DEFINE t == on_attestation(s, a)
           r == store_target_checkpoint_state(s, a.data.target)
<1>1. Rooted(s) /\ IsStore(s) /\ Shaped(s) /\ s.time \in Nat
  BY DEF NodeSound, Rooted, IsStore, Shaped, StoreOver
<1>2. a \in ATTESTATIONS /\ a.data.target.root \in DOMAIN s.blocks
  BY <1>1, AttestationInScope DEF on_attestation_accepts, validate_on_attestation
<1>3. IsStore(t)
  BY <1>1, <1>2, OnAttestationType
<1>4. SameTracked(s, t)
  <2>1. SameTracked(s, r)
    BY <1>1, UntrackedFields
  <2>2. Shaped(r)
    BY <1>1, <1>2, TargetStateType DEF IsStore, Shaped
  <2>3. t = update_latest_messages(r, a)
    BY DEF on_attestation
  <2> HIDE DEF r, t
  <2>4. SameTracked(r, t)
    BY <2>2, <2>3, UntrackedFields
  <2> QED BY <2>1, <2>4 DEF SameTracked
<1>5. Rooted(t)
  BY <1>1, <1>3, <1>4, TrackedStaysRooted
<1> DEFINE voters == newer_voters(s, a)
<1>6. /\ t.payloads = s.payloads
      /\ t.equivocating_indices = s.equivocating_indices
      /\ t.latest_messages =
           [i \in DOMAIN s.latest_messages \cup voters |->
              IF i \in voters
              THEN [slot |-> a.data.slot, root |-> a.data.beacon_block_root,
                    payload_present |-> a.data.index = 1]
              ELSE s.latest_messages[i]]
  <2>1. /\ on_attestation(s, a).payloads = s.payloads
        /\ on_attestation(s, a).equivocating_indices = s.equivocating_indices
    BY <1>1, OnAttestationLeaves
  <2>2. on_attestation(s, a).latest_messages =
          [i \in DOMAIN s.latest_messages \cup newer_voters(s, a) |->
             IF i \in newer_voters(s, a)
             THEN [slot |-> a.data.slot, root |-> a.data.beacon_block_root,
                   payload_present |-> a.data.index = 1]
             ELSE s.latest_messages[i]]
    BY <1>1, OnAttestationLeaves
  <2> QED BY <2>1, <2>2
<1>7. \A i \in voters :
        /\ i \in a.attesting_indices
        /\ i \in DOMAIN s.latest_messages => a.data.slot > s.latest_messages[i].slot
  BY DEF newer_voters, is_newer_vote
<1> HIDE DEF t, voters
<1>8. MessagesCast(t)
  <2>1. SUFFICES ASSUME NEW i \in DOMAIN t.latest_messages \cap honest
                 PROVE  \E vote \in votes :
                          vote.validator = i /\ t.latest_messages[i] = message_of(vote)
    BY DEF MessagesCast
  <2>2. CASE i \in voters
    <3>1. PICK vote \in votes : vote.validator = i /\ vote.data = a.data
      BY <1>7, <2>1, <2>2 DEF Genuine
    <3> QED BY <1>6, <2>2, <3>1 DEF message_of
  <2>3. CASE i \notin voters
    BY <1>6, <2>1, <2>3 DEF NodeSound, MessagesCast
  <2> QED BY <2>2, <2>3
<1>9. NodeSound(t)
  BY <1>4, <1>5, <1>6, <1>8 DEF NodeSound, SameTracked, get_current_slot
<1>10. Grows(s, t)
  BY <1>4, <1>6, <1>7 DEF Grows, Learns, SameTracked
<1> QED BY <1>9, <1>10 DEF t

LEMMA EventKeepsSound ==
  ASSUME MessagesScope, NEW s, NodeSound(s), get_current_slot(s) <= FREE_SLOTS + 1,
         NEW event, Deliverable(event)
  PROVE  NodeSound(apply_event(s, event)) /\ Grows(s, apply_event(s, event))
<1>1. CASE ~ accepts(s, event)
  BY <1>1, GrowsItself DEF apply_event
<1> SUFFICES ASSUME accepts(s, event)
             PROVE  NodeSound(apply_event(s, event)) /\ Grows(s, apply_event(s, event))
  BY <1>1
<1>2. CASE event.kind = "block" /\ event.signed_block \in SIGNED_BLOCKS
  <2>1. on_block_accepts(s, event.signed_block)
    BY <1>2 DEF accepts
  <2>2. apply_event(s, event)
          = [head \in ForkChoiceNode |-> import_block(s, event.signed_block, head)][get_head(s)]
    BY <1>2 DEF apply_event
  <2>3. get_head(s) \in ForkChoiceNode
    BY HeadIsIn DEF NodeSound
  <2>4. apply_event(s, event) = on_block(s, event.signed_block)
    BY <2>2, <2>3 DEF on_block
  <2> QED BY <1>2, <2>1, <2>4, BlockKeepsSound
<1>3. CASE event.kind = "execution_payload_envelope"
  <2>1. on_execution_payload_envelope_accepts(s, event.root)
    BY <1>3 DEF accepts
  <2>2. apply_event(s, event) = on_execution_payload_envelope(s, event.root)
    BY <1>3 DEF apply_event
  <2> QED BY <2>1, <2>2, EnvelopeKeepsSound
<1>4. CASE /\ event.kind = "attester_slashing" /\ event.slashing \in SLASHINGS
           /\ slashed_by(event) \cap honest = {}
  <2>1. apply_event(s, event) = on_attester_slashing(s, event.slashing)
    BY <1>4 DEF apply_event
  <2> QED BY <1>4, <2>1, SlashingKeepsSound
<1>5. CASE /\ event.kind = "attestation" /\ event.is_from_block = FALSE
           /\ event.attestation \in Attestation /\ Genuine(event.attestation)
  <2>1. on_attestation_accepts(s, event.attestation, FALSE)
    BY <1>5 DEF accepts
  <2>2. apply_event(s, event) = on_attestation(s, event.attestation)
    BY <1>5 DEF apply_event
  <2> QED BY <1>5, <2>1, <2>2, AttestationKeepsSound
<1> QED BY <1>2, <1>3, <1>4, <1>5 DEF Deliverable

(* So do all events of a second, and what a stage has seen the later ones  *)
(* have seen too.                                                          *)
LEMMA StagesStaySound ==
  ASSUME MessagesScope, NEW s, NodeSound(s), get_current_slot(s) <= FREE_SLOTS + 1,
         NEW S, NEW events \in Seq(S), \A k \in DOMAIN events : Deliverable(events[k]),
         NEW after, Stages(s, events, after)
  PROVE  \A k \in 0..Len(events) :
           /\ NodeSound(after[k]) /\ get_current_slot(after[k]) <= FREE_SLOTS + 1
           /\ \A j \in 0..k : Grows(after[j], after[k])
<1> DEFINE n == Len(events)
           sound(k) == /\ NodeSound(after[k]) /\ get_current_slot(after[k]) <= FREE_SLOTS + 1
                       /\ \A j \in 0..k : Grows(after[j], after[k])
           bad == {k \in 0..n : ~ sound(k)}
<1> SUFFICES ASSUME bad # {} PROVE FALSE
  OBVIOUS
<1>1. n \in Nat /\ DOMAIN events = 1..n
  OBVIOUS
<1>2. bad \subseteq Nat
  BY <1>1
<1>3. PICK m \in bad : \A k \in bad : m <= k
  BY <1>2, LeastNatural
<1>4. m \in 0..n /\ ~ sound(m)
  OBVIOUS
<1>5. m # 0
  <2>1. after[0] = s /\ 0..0 = {0}
    BY DEF Stages
  <2>2. sound(0)
    BY <2>1, GrowsItself
  <2> HIDE DEF sound
  <2> QED BY <1>4, <2>2
<1>6. m - 1 \in 0..n /\ m \in 1..n /\ m - 1 < m
  BY <1>1, <1>4, <1>5
<1>7. m - 1 \notin bad
  <2> HIDE DEF bad
  <2> QED BY <1>3, <1>6
<1>8. sound(m - 1)
  BY <1>6, <1>7
<1>9. after[m] = apply_event(after[m - 1], events[m]) /\ Deliverable(events[m])
  BY <1>1, <1>6 DEF Stages
<1>10. NodeSound(after[m]) /\ Grows(after[m - 1], after[m])
  BY <1>8, <1>9, EventKeepsSound
<1>11. get_current_slot(after[m]) <= FREE_SLOTS + 1
  BY <1>8, <1>10 DEF Grows, Learns, get_current_slot
<1>12. ASSUME NEW j \in 0..m PROVE Grows(after[j], after[m])
  <2>1. CASE j = m
    BY <2>1, GrowsItself
  <2>2. CASE j # m
    <3>1. j \in 0..(m - 1) /\ j \in 0..n /\ j < m
      BY <1>1, <1>6, <2>2
    <3>2. j \notin bad
      <4> HIDE DEF bad
      <4> QED BY <1>1, <1>3, <1>6, <3>1
    <3>3. Grows(after[j], after[m - 1]) /\ sound(j)
      BY <1>8, <3>1, <3>2
    <3>4. IsStore(after[j]) /\ IsStore(after[m - 1]) /\ IsStore(after[m])
      BY <1>8, <1>10, <3>3 DEF NodeSound, Rooted
    <3> QED BY <1>10, <3>3, <3>4, GrowsFurther
  <2> QED BY <2>1, <2>2
<1> QED BY <1>4, <1>10, <1>11, <1>12

LEMMA EventsKeepSound ==
  ASSUME MessagesScope, NEW s, NodeSound(s), get_current_slot(s) <= FREE_SLOTS + 1,
         NEW S, NEW events \in Seq(S), \A k \in DOMAIN events : Deliverable(events[k])
  PROVE  NodeSound(apply_events(s, events)) /\ Grows(s, apply_events(s, events))
<1> DEFINE n == Len(events)
<1>1. PICK after : Stages(s, events, after)
  BY EventStages
<1>2. n \in Nat /\ n \in 0..n /\ 0 \in 0..n
  OBVIOUS
<1>3. after[0] = s /\ after[n] = apply_events(s, events)
  BY <1>1 DEF Stages
<1> HIDE DEF n
<1>4. NodeSound(after[n]) /\ Grows(after[0], after[n])
  BY <1>1, <1>2, StagesStaySound DEF n
<1> QED BY <1>3, <1>4

-----------------------------------------------------------------------------
(* A vote.  The store counts it once it was delivered, and from then on.   *)

Counts(s, vote) ==
  /\ vote.validator \in DOMAIN s.latest_messages
  /\ \/ s.latest_messages[vote.validator].slot > vote.data.slot
     \/ s.latest_messages[vote.validator] = message_of(vote)

LEMMA CountsStays ==
  ASSUME NEW s, NEW t, IsStore(s), IsStore(t), Learns(s, t),
         NEW vote, vote.data.slot \in Nat, Counts(s, vote)
  PROVE  Counts(t, vote)
<1> DEFINE i == vote.validator
<1>1. i \in DOMAIN s.latest_messages /\ i \in DOMAIN t.latest_messages
  BY DEF Counts, Learns
<1>2. s.latest_messages[i].slot \in Nat /\ t.latest_messages[i].slot \in Nat
  BY <1>1 DEF IsStore, StoreOver, LatestMessage
<1>3. \/ t.latest_messages[i] = s.latest_messages[i]
      \/ t.latest_messages[i].slot > s.latest_messages[i].slot
  BY <1>1 DEF Learns
<1>4. s.latest_messages[i].slot > vote.data.slot \/ s.latest_messages[i] = message_of(vote)
  BY DEF Counts
<1>5. s.latest_messages[i].slot >= vote.data.slot
  BY <1>2, <1>4 DEF message_of
<1> HIDE DEF i
<1> QED BY <1>1, <1>2, <1>3, <1>4, <1>5 DEF Counts, i

LEMMA AnchorAtGenesis ==
  ASSUME AnchoredScope
  PROVE  ANCHOR_BLOCK.message.slot = 0
<1> DEFINE slot == ANCHOR_BLOCK.message.slot
<1>1. slot \in Nat /\ ANCHOR_STATE.slot = slot
  BY AnchorAssumption DEF SignedBeaconBlock, BeaconBlock
<1>2. (SLOT_DURATION_MS * slot) \div 1000 = 0
  BY <1>1, ExecutionAssumption DEF AnchoredScope, get_forkchoice_store
<1>3. PICK seconds \in 1..SLOT_DURATION_MS : SLOT_DURATION_MS = 1000 * seconds
  BY WholeSecondsAssumption
<1>4. seconds \in Nat /\ seconds >= 1
  BY <1>3, ConfigAssumption
<1> HIDE DEF slot
<1>5. seconds * slot \in Nat /\ SLOT_DURATION_MS * slot = (seconds * slot) * 1000
  BY <1>1, <1>3, <1>4
<1>6. seconds * slot = 0
  BY <1>2, <1>5, DivOfMultiple
<1>7. seconds * slot >= slot
  BY <1>1, <1>4
<1> QED BY <1>1, <1>5, <1>6, <1>7 DEF slot

(* What an honest vote looks like, whatever node it came from.             *)
VoteShape(vote) ==
  /\ vote.validator \in honest \cap get_beacon_committee(vote.data.slot)
  /\ vote.data \in AttestationData
  /\ vote.data.slot <= FREE_SLOTS
  /\ vote.data.index \in {0, 1}
  /\ vote.data.target.epoch = compute_epoch_at_slot(vote.data.slot)

(* A node that knows its block finds its target on the chain of the block. *)
VoteRooted(s, vote) ==
  LET root == vote.data.beacon_block_root
  IN  /\ root \in DOMAIN s.blocks
      /\ s.blocks[root].slot <= vote.data.slot
      /\ s.blocks[root].slot = vote.data.slot => vote.data.index = 0
      /\ vote.data.target.root = get_checkpoint_block(s, root, vote.data.target.epoch)

LEMMA VoteTargetAgrees ==
  ASSUME AnchoredScope, NEW s, Rooted(s), NEW t, Rooted(t),
         NEW vote, vote.data \in AttestationData, VoteRooted(s, vote),
         vote.data.beacon_block_root \in DOMAIN t.blocks
  PROVE  VoteRooted(t, vote) /\ vote.data.target.root \in DOMAIN t.blocks
<1> DEFINE root == vote.data.beacon_block_root
           start == compute_start_slot_at_epoch(vote.data.target.epoch)
           node == NewNode(root, PENDING)
<1>1. /\ root \in DOMAIN s.blocks /\ root \in DOMAIN t.blocks /\ root \in Root
      /\ vote.data.target.epoch \in Nat
  BY DEF VoteRooted, AttestationData, Checkpoint
<1>2. node \in ForkChoiceNode /\ node.root = root
  BY <1>1, PendingNode
<1>3. start \in Nat /\ ANCHOR_BLOCK.message.slot <= start
  BY <1>1, ConfigAssumption, AnchorAtGenesis DEF compute_start_slot_at_epoch
<1>4. s.blocks[root] = t.blocks[root]
  BY <1>1, BlocksAgree
<1> HIDE DEF node, start
<1>5. /\ get_ancestor(t, node, start) = get_ancestor(s, node, start)
      /\ get_ancestor(t, node, start).root \in DOMAIN t.blocks
  BY <1>1, <1>2, <1>3, AncestorsAgree
<1> QED BY <1>1, <1>4, <1>5 DEF VoteRooted, get_checkpoint_block, node, start

LEMMA VoteIsAccepted ==
  ASSUME AdversaryScope, script \in DOMAIN SETTINGS,
         NEW vote \in votes, VoteShape(vote),
         NEW s, NodeSound(s), get_current_slot(s) = vote.data.slot + 1,
         VoteRooted(s, vote), vote.data.target.root \in DOMAIN s.blocks,
         vote.data.index = 1 => vote.data.beacon_block_root \in s.payloads
  PROVE  /\ vote_event(vote).attestation \in Attestation
         /\ on_attestation_accepts(s, vote_event(vote).attestation, FALSE)
<1> DEFINE a == vote_event(vote).attestation
           data == vote.data
           r == store_target_checkpoint_state(s, data.target)
<1>1. a = [attesting_indices |-> {vote.validator}, data |-> data]
  BY DEF vote_event, attestation_event
<1>2. /\ data \in AttestationData /\ vote.validator \in ValidatorIndex
      /\ data.slot \in Nat /\ data.target \in Checkpoint
  BY DEF VoteShape, honest, AttestationData
<1>3. a \in Attestation /\ a.data = data
  BY <1>1, <1>2 DEF Attestation
<1>4. IsStore(s) /\ s.time \in Nat /\ Rooted(s)
  BY DEF NodeSound, Rooted, IsStore, StoreOver
<1> HIDE DEF a, r, data
<1>5. validate_target_epoch_against_current_time(s, a)
  <2>1. compute_epoch_at_slot(data.slot + 1) \in
          {compute_epoch_at_slot(data.slot), compute_epoch_at_slot(data.slot) + 1}
    BY <1>2, NextSlotEpoch
  <2>2. compute_epoch_at_slot(data.slot) \in Nat
    BY <1>2, EpochOfSlot
  <2>3. get_current_store_epoch(s) = compute_epoch_at_slot(data.slot + 1)
    BY DEF get_current_store_epoch, data
  <2>4. data.target.epoch = compute_epoch_at_slot(data.slot)
    BY DEF VoteShape, data
  <2>5. saturating_sub(compute_epoch_at_slot(data.slot) + 1, 1) = compute_epoch_at_slot(data.slot)
    BY <2>2 DEF saturating_sub
  <2> QED BY <1>3, <2>1, <2>3, <2>4, <2>5 DEF validate_target_epoch_against_current_time
<1>6. validate_on_attestation(s, a, FALSE)
  <2>1. block_slot(s, data.beacon_block_root) = s.blocks[data.beacon_block_root].slot
    BY DEF block_slot, block_at, VoteRooted, data
  <2>2. slot_is_over(s, data.slot)
    BY <1>2 DEF slot_is_over, data
  <2> QED BY <1>3, <1>5, <2>1, <2>2
          DEF validate_on_attestation, VoteShape, VoteRooted, is_payload_verified, data
<1>7. a \in ATTESTATIONS
  <2>1. get_current_slot(s) <= FREE_SLOTS + 1
    BY <1>2, AdversaryAssumption DEF VoteShape, data
  <2> QED BY <1>3, <1>4, <1>5, <2>1, AttestationInScope DEF AdversaryScope
<1>8. IsStore(r) /\ data.target \in DOMAIN r.checkpoint_states
  <2>1. IsStore(r)
    BY <1>3, <1>4, <1>7, TargetStateType DEF r, data
  <2>2. data.target \in DOMAIN r.checkpoint_states
    BY <1>4 DEF r, store_target_checkpoint_state, put, IsStore, StoreOver
  <2> QED BY <2>1, <2>2
<1>9. checkpoint_state(r, data.target) \in BeaconStates
  BY <1>8 DEF checkpoint_state, IsStore, StoreOver
<1>10. is_valid_indexed_attestation(checkpoint_state(r, data.target), a)
  BY <1>1, <1>2, <1>9
     DEF AdversaryScope, StatesScope, VoteShape, honest, Owner, data
<1> QED BY <1>3, <1>6, <1>10 DEF on_attestation_accepts, r, a

LEMMA VoteIsCounted ==
  ASSUME AdversaryScope, script \in DOMAIN SETTINGS,
         NEW vote \in votes, VoteShape(vote),
         \A other \in votes : other.validator = vote.validator
                                /\ other.data.slot = vote.data.slot => other = vote,
         NEW s, NodeSound(s), get_current_slot(s) = vote.data.slot + 1,
         VoteRooted(s, vote), vote.data.target.root \in DOMAIN s.blocks,
         vote.data.index = 1 => vote.data.beacon_block_root \in s.payloads
  PROVE  Counts(apply_event(s, vote_event(vote)), vote)
<1> DEFINE a == vote_event(vote).attestation
           i == vote.validator
           t == on_attestation(s, a)
           voters == newer_voters(s, a)
<1>1. a \in Attestation /\ on_attestation_accepts(s, a, FALSE)
  BY VoteIsAccepted
<1>2. a.attesting_indices = {i} /\ a.data = vote.data
  BY DEF vote_event, attestation_event
<1>3. apply_event(s, vote_event(vote)) = t
  BY <1>1 DEF apply_event, accepts, vote_event, attestation_event
<1>4. IsStore(s) /\ i \in honest /\ i \notin s.equivocating_indices
  BY DEF NodeSound, Rooted, VoteShape
<1> HIDE DEF a
<1>5. t.latest_messages = [j \in DOMAIN s.latest_messages \cup voters |->
                             IF j \in voters THEN message_of(vote) ELSE s.latest_messages[j]]
  <2> DEFINE message == [slot |-> a.data.slot, root |-> a.data.beacon_block_root,
                         payload_present |-> a.data.index = 1]
  <2>1. t.latest_messages = [j \in DOMAIN s.latest_messages \cup voters |->
                               IF j \in voters THEN message ELSE s.latest_messages[j]]
    BY <1>4, OnAttestationLeaves
  <2>2. message = message_of(vote)
    BY <1>2 DEF message_of
  <2> HIDE DEF message
  <2> QED BY <2>1, <2>2
<1>6. i \in voters <=> (i \in DOMAIN s.latest_messages
                          => vote.data.slot > s.latest_messages[i].slot)
  BY <1>2, <1>4 DEF newer_voters, is_newer_vote
<1> HIDE DEF t, voters
<1>7. CASE i \in voters
  BY <1>3, <1>5, <1>7 DEF Counts
<1>8. CASE i \notin voters
  <2>1. i \in DOMAIN s.latest_messages /\ ~ vote.data.slot > s.latest_messages[i].slot
    BY <1>6, <1>8
  <2>2. PICK other \in votes : other.validator = i /\ s.latest_messages[i] = message_of(other)
    BY <1>4, <2>1 DEF NodeSound, MessagesCast
  <2>3. s.latest_messages[i].slot \in Nat /\ vote.data.slot \in Nat
    BY <1>4, <2>1 DEF IsStore, StoreOver, LatestMessage, VoteShape, AttestationData
  <2>4. s.latest_messages[i].slot > vote.data.slot \/ s.latest_messages[i].slot = vote.data.slot
    BY <2>1, <2>3
  <2>5. s.latest_messages[i].slot = vote.data.slot => other = vote
    BY <2>2 DEF message_of
  <2>6. t.latest_messages[i] = s.latest_messages[i] /\ i \in DOMAIN t.latest_messages
    BY <1>5, <1>8, <2>1
  <2> QED BY <1>3, <2>2, <2>4, <2>5, <2>6 DEF Counts
<1> QED BY <1>7, <1>8

(* In a second in which the vote is delivered.                             *)
LEMMA VoteEventCounts ==
  ASSUME AdversaryScope, script \in DOMAIN SETTINGS,
         NEW vote \in votes, VoteShape(vote),
         \A other \in votes : other.validator = vote.validator
                                /\ other.data.slot = vote.data.slot => other = vote,
         NEW s, NodeSound(s), get_current_slot(s) = vote.data.slot + 1,
         VoteRooted(s, vote), vote.data.target.root \in DOMAIN s.blocks,
         vote.data.index = 1 => vote.data.beacon_block_root \in s.payloads,
         NEW S, NEW events \in Seq(S), \A k \in DOMAIN events : Deliverable(events[k]),
         NEW k \in DOMAIN events, events[k] = vote_event(vote)
  PROVE  Counts(apply_events(s, events), vote)
<1> DEFINE n == Len(events)
<1>1. PICK after : Stages(s, events, after)
  BY EventStages
<1>2. /\ after[0] = s /\ after[n] = apply_events(s, events)
      /\ k \in Nat /\ n \in Nat /\ k \in 1..n /\ k - 1 \in 0..n /\ k \in 0..n /\ n \in 0..n
      /\ 0 \in 0..(k - 1) /\ k \in 0..n
  BY <1>1 DEF Stages
<1>3. /\ vote.data \in AttestationData /\ vote.data.slot \in Nat
      /\ get_current_slot(s) <= FREE_SLOTS + 1
  BY AdversaryAssumption DEF VoteShape, AttestationData
<1>4. \A j \in 0..n :
        /\ NodeSound(after[j]) /\ get_current_slot(after[j]) <= FREE_SLOTS + 1
        /\ \A i \in 0..j : Grows(after[i], after[j])
  BY <1>1, <1>3, StagesStaySound DEF AdversaryScope
<1> HIDE DEF n
<1> DEFINE t == after[k - 1]
<1>5. NodeSound(t) /\ Grows(s, t)
  BY <1>2, <1>4
<1> HIDE DEF t
<1>6. VoteRooted(t, vote) /\ vote.data.target.root \in DOMAIN t.blocks
  BY <1>3, <1>5, VoteTargetAgrees DEF NodeSound, Grows, Learns, VoteRooted, AdversaryScope
<1>7. /\ get_current_slot(t) = vote.data.slot + 1
      /\ vote.data.index = 1 => vote.data.beacon_block_root \in t.payloads
  BY <1>5 DEF Grows, Learns, get_current_slot
<1>8. Counts(apply_event(t, vote_event(vote)), vote)
  BY <1>5, <1>6, <1>7, VoteIsCounted
<1>9. after[k] = apply_event(t, vote_event(vote))
  BY <1>1, <1>2 DEF Stages, t, n
<1>10. Counts(after[k], vote) /\ IsStore(after[k]) /\ IsStore(after[n]) /\ Grows(after[k], after[n])
  BY <1>2, <1>4, <1>8, <1>9 DEF NodeSound, Rooted
<1> QED BY <1>2, <1>3, <1>10, CountsStays DEF Grows

-----------------------------------------------------------------------------
(* The schedule of a second: the events before its first vote, and those   *)
(* from it on.                                                             *)

LEMMA VotesStart ==
  ASSUME NEW S, NEW events \in Seq(S)
  PROVE  /\ votes_start(events) \in 0..Len(events)
         /\ \A k \in DOMAIN events :
              events[k].kind = "attestation" => k > votes_start(events)
         /\ \/ votes_start(events) = Len(events)
            \/ events[votes_start(events) + 1].kind = "attestation"
<1> DEFINE n == Len(events)
           free == {k \in DOMAIN events : \A j \in 1..k : events[j].kind # "attestation"}
           stops == {k \in 1..(n + 1) : k = n + 1 \/ events[k].kind = "attestation"}
<1>1. n \in Nat /\ DOMAIN events = 1..n
  OBVIOUS
<1>2. stops \subseteq Nat /\ n + 1 \in stops
  BY <1>1
<1>3. PICK m \in stops : \A k \in stops : m <= k
  BY <1>2, LeastNatural
<1>4. m \in 1..(n + 1) /\ (m = n + 1 \/ events[m].kind = "attestation")
  OBVIOUS
<1>5. \A k \in 1..n : events[k].kind = "attestation" => m <= k
  BY <1>1, <1>3
<1>6. free = 1..(m - 1)
  <2>1. ASSUME NEW k \in free PROVE k \in 1..(m - 1)
    <3>1. k \in 1..n /\ \A j \in 1..k : events[j].kind # "attestation"
      BY <1>1
    <3> HIDE DEF n, stops
    <3> QED BY <1>1, <1>4, <3>1
  <2>2. ASSUME NEW k \in 1..(m - 1) PROVE k \in free
    <3> HIDE DEF n, stops
    <3> QED BY <1>1, <1>4, <1>5
  <2> QED BY <2>1, <2>2
<1>7. Cardinality(1..(m - 1)) = m - 1
  <2>1. m \in Nat /\ 1 \in Int /\ m - 1 \in Int /\ m >= 1
    BY <1>1, <1>4
  <2> HIDE DEF n, stops
  <2>2. Cardinality(1..(m - 1)) = IF 1 > m - 1 THEN 0 ELSE (m - 1) - 1 + 1
    BY <2>1, FS_Interval
  <2> QED BY <2>1, <2>2
<1>8. votes_start(events) = m - 1
  BY <1>6, <1>7 DEF votes_start
<1> HIDE DEF n, stops, free
<1> QED BY <1>1, <1>4, <1>5, <1>8 DEF n

LEMMA ScheduleParts ==
  ASSUME NEW S, NEW events \in Seq(S)
  PROVE  /\ before_votes(events) \in Seq(S) /\ from_votes(events) \in Seq(S)
         /\ \A k \in DOMAIN before_votes(events) :
              \E j \in DOMAIN events : before_votes(events)[k] = events[j]
         /\ \A k \in DOMAIN from_votes(events) :
              \E j \in DOMAIN events : from_votes(events)[k] = events[j]
         /\ \A j \in DOMAIN events : events[j].kind = "attestation" =>
              \E k \in DOMAIN from_votes(events) : from_votes(events)[k] = events[j]
<1> DEFINE n == Len(events)
           m == votes_start(events)
<1>1. /\ n \in Nat /\ DOMAIN events = 1..n /\ \A k \in 1..n : events[k] \in S
      /\ m \in 0..n
      /\ \A k \in DOMAIN events : events[k].kind = "attestation" => k > m
  BY VotesStart
<1> HIDE DEF n, m
<1>2. /\ SubSeq(events, 1, m) \in Seq(S)
      /\ Len(SubSeq(events, 1, m)) = m
      /\ \A i \in 1..m : SubSeq(events, 1, m)[i] = events[i]
  <2>1. 1 \in Int /\ m \in Int /\ \A i \in 1..m : events[i] \in S
    BY <1>1
  <2> QED BY <1>1, <2>1, SubSeqProperties
<1>3. /\ SubSeq(events, m + 1, n) \in Seq(S)
      /\ Len(SubSeq(events, m + 1, n)) = n - m
      /\ \A i \in 1..(n - m) : SubSeq(events, m + 1, n)[i] = events[m + i]
  <2>1. m + 1 \in Int /\ n \in Int /\ \A i \in (m + 1)..n : events[i] \in S
    BY <1>1
  <2>2. /\ SubSeq(events, m + 1, n) \in Seq(S)
        /\ Len(SubSeq(events, m + 1, n)) = IF m + 1 <= n THEN n - (m + 1) + 1 ELSE 0
        /\ \A i \in 1..(n - (m + 1) + 1) :
             SubSeq(events, m + 1, n)[i] = events[m + 1 + i - 1]
    BY <2>1, SubSeqProperties
  <2> QED BY <1>1, <2>2
<1>4. /\ before_votes(events) = SubSeq(events, 1, m)
      /\ from_votes(events) = SubSeq(events, m + 1, n)
  BY DEF before_votes, from_votes, m, n
<1>5. DOMAIN before_votes(events) = 1..m /\ DOMAIN from_votes(events) = 1..(n - m)
  BY <1>2, <1>3, <1>4
<1>6. ASSUME NEW j \in 1..n, events[j].kind = "attestation"
      PROVE  \E k \in 1..(n - m) : from_votes(events)[k] = events[j]
  <2>1. j > m /\ j - m \in 1..(n - m) /\ m + (j - m) = j
    BY <1>1, <1>6
  <2> QED BY <1>3, <1>4, <2>1
<1>7. \A k \in 1..(n - m) : m + k \in 1..n /\ from_votes(events)[k] = events[m + k]
  BY <1>1, <1>3, <1>4
<1>8. \A k \in 1..m : k \in 1..n /\ before_votes(events)[k] = events[k]
  BY <1>1, <1>2, <1>4
<1> QED BY <1>1, <1>2, <1>3, <1>4, <1>5, <1>6, <1>7, <1>8

LEMMA FiniteImage ==
  ASSUME NEW S, IsFiniteSet(S), NEW f
  PROVE  IsFiniteSet({f[x] : x \in S})
<1> DEFINE T == {f[x] : x \in S}
           g == [x \in S |-> f[x]]
<1>1. g \in Surjection(S, T)
  BY DEF Surjection
<1> HIDE DEF g, T
<1>2. IsFiniteSet(T)
  BY <1>1, FS_Surjection
<1> QED BY <1>2 DEF T

(* As many different elements of a finite set as it has are all of them.   *)
LEMMA AllAreListed ==
  ASSUME NEW S, IsFiniteSet(S), NEW f \in [1..Cardinality(S) -> S],
         \A j, k \in 1..Cardinality(S) : j # k => f[j] # f[k]
  PROVE  \A x \in S : \E k \in 1..Cardinality(S) : f[k] = x
<1> DEFINE n == Cardinality(S)
<1>1. n \in Nat
  BY FS_CardinalityType
<1>2. f \in Injection(1..n, S)
  BY DEF Injection, IsInjective
<1>3. Cardinality(1..n) = n /\ IsFiniteSet(1..n)
  BY <1>1, FS_Interval
<1>4. f \in Surjection(1..n, S)
  <2>1. n = Cardinality(S)
    OBVIOUS
  <2> HIDE DEF n
  <2> QED BY <1>2, <1>3, <2>1, FS_Injection
<1> QED BY <1>4 DEF Surjection

LEMMA SetListed ==
  ASSUME NEW S, IsFiniteSet(S)
  PROVE  /\ SetToSeq(S) \in Seq(S)
         /\ \A x \in S : \E k \in DOMAIN SetToSeq(S) : SetToSeq(S)[k] = x
<1>1. PICK n \in Nat : ExistsBijection(1..n, S)
  BY FS_NatBijection
<1>2. Cardinality(S) = n
  BY <1>1, FS_CountingElements
<1>3. \E f \in [1..n -> S] : IsInjective(f)
  BY <1>1 DEF ExistsBijection, Bijection, Injection, IsInjective
<1>4. SetToSeq(S) \in [1..n -> S] /\ IsInjective(SetToSeq(S))
  BY <1>2, <1>3 DEF SetToSeq
<1>5. \A j, k \in 1..n : j # k => SetToSeq(S)[j] # SetToSeq(S)[k]
  BY <1>4 DEF IsInjective
<1>6. \A x \in S : \E k \in 1..n : SetToSeq(S)[k] = x
  BY <1>2, <1>4, <1>5, AllAreListed
<1>7. SetToSeq(S) \in Seq(S) /\ DOMAIN SetToSeq(S) = 1..n
  BY <1>1, <1>4
<1> QED BY <1>6, <1>7

(* Lists of events that handlers may be given.                             *)
DeliverableList(events) ==
  /\ \E S : events \in Seq(S)
  /\ \A k \in DOMAIN events : Deliverable(events[k])

LEMMA ListedEvents ==
  ASSUME NEW n \in Nat, NEW f, f = [k \in 1..n |-> f[k]],
         \A k \in 1..n : Deliverable(f[k])
  PROVE  DeliverableList(f)
<1> DEFINE S == {f[k] : k \in 1..n}
<1>1. f \in [1..n -> S]
  <2>1. \A k \in 1..n : f[k] \in S
    OBVIOUS
  <2> HIDE DEF S
  <2> QED BY <2>1
<1>2. DOMAIN f = 1..n
  OBVIOUS
<1> HIDE DEF S
<1>3. f \in Seq(S)
  BY <1>1
<1> QED BY <1>2, <1>3 DEF DeliverableList

LEMMA ConcatenatedEvents ==
  ASSUME NEW p, DeliverableList(p), NEW q, DeliverableList(q)
  PROVE  DeliverableList(p \o q)
<1>1. PICK S : p \in Seq(S)
  BY DEF DeliverableList
<1>2. PICK T : q \in Seq(T)
  BY DEF DeliverableList
<1>3. p \in Seq(S \cup T) /\ q \in Seq(S \cup T)
  BY <1>1, <1>2
<1>4. /\ p \o q \in Seq(S \cup T)
      /\ Len(p \o q) = Len(p) + Len(q)
      /\ \A k \in 1..(Len(p) + Len(q)) :
           (p \o q)[k] = IF k <= Len(p) THEN p[k] ELSE q[k - Len(p)]
  BY <1>3, ConcatProperties
<1>5. Len(p) \in Nat /\ Len(q) \in Nat /\ DOMAIN p = 1..Len(p) /\ DOMAIN q = 1..Len(q)
  BY <1>3
<1>6. ASSUME NEW k \in DOMAIN (p \o q) PROVE Deliverable((p \o q)[k])
  <2>1. k \in 1..(Len(p) + Len(q))
    BY <1>4
  <2>2. CASE k <= Len(p)
    <3>1. k \in DOMAIN p /\ (p \o q)[k] = p[k]
      BY <1>4, <1>5, <2>1, <2>2
    <3> QED BY <3>1 DEF DeliverableList
  <2>3. CASE ~ k <= Len(p)
    <3>1. k - Len(p) \in DOMAIN q /\ (p \o q)[k] = q[k - Len(p)]
      BY <1>4, <1>5, <2>1, <2>3
    <3> QED BY <3>1 DEF DeliverableList
  <2> QED BY <2>2, <2>3
<1> QED BY <1>4, <1>6 DEF DeliverableList

LEMMA DividedEvents ==
  ASSUME NEW events, DeliverableList(events)
  PROVE  DeliverableList(before_votes(events)) /\ DeliverableList(from_votes(events))
<1>1. PICK S : events \in Seq(S)
  BY DEF DeliverableList
<1> QED BY <1>1, ScheduleParts DEF DeliverableList

-----------------------------------------------------------------------------
(* The invariant.  Every node is sound and on the clock; what is owed is   *)
(* what some node held at a deadline; and an honest vote is for a block    *)
(* and a payload that are owed, because votes are cast before the          *)
(* deadline: this is what brings both to every node before the vote.       *)

NodesSound ==
  /\ script \in DOMAIN SETTINGS
  /\ time \in Nat
  /\ current_slot <= FREE_SLOTS + 1
  /\ \A v \in Node : NodeSound(stores[v]) /\ stores[v].time = time

OwedSound ==
  /\ owed.blocks \subseteq held_blocks(stores)
  /\ owed.payloads \subseteq held_payloads(stores)
  /\ time <= attestation_deadline(current_slot) =>
       /\ held_blocks(stores) \subseteq owed.blocks \cup {ANCHOR_BLOCK.root}
       /\ held_payloads(stores) \subseteq owed.payloads

VoteSound(vote) ==
  LET root == vote.data.beacon_block_root
  IN  /\ VoteShape(vote)
      /\ vote.data.slot <= current_slot
      /\ \E w \in Node : VoteRooted(stores[w], vote)
      /\ root \in owed.blocks \cup {ANCHOR_BLOCK.root}
      /\ vote.data.index = 1 => root \in owed.payloads

VotesSound ==
  /\ IsFiniteSet(votes)
  /\ \A vote \in votes : VoteSound(vote)
  /\ \A vote, other \in votes :
       other.validator = vote.validator /\ other.data.slot = vote.data.slot => other = vote

VotesCounted ==
  broken = {} => \A vote \in votes, v \in Node :
    vote.data.slot < current_slot => Counts(stores[v], vote)

ExecutionSound == NodesSound /\ OwedSound /\ VotesSound /\ VotesCounted

LEMMA CountedVotes == VotesCounted <=> HonestVotesCount
BY DEF VotesCounted, HonestVotesCount, Counts, message_of

(* The first state.                                                        *)
LEMMA GenesisSound ==
  ASSUME AnchoredScope
  PROVE  /\ NodeSound(GENESIS_STORE)
         /\ DOMAIN GENESIS_STORE.blocks = {ANCHOR_BLOCK.root}
         /\ GENESIS_STORE.payloads = {}
<1> DEFINE s == get_forkchoice_store(ANCHOR_STATE, ANCHOR_BLOCK)
<1>1. GENESIS_STORE = s
  BY DEF AnchoredScope
<1>2. /\ IsStore(s) /\ TreeSound(s) /\ AnchorSound(s) /\ ChainSound(s)
      /\ DOMAIN s.blocks = {ANCHOR_BLOCK.root}
  BY AnchorStoreType, AnchorStoreSound, AnchorStoreOnChains
<1>3. s.equivocating_indices = {} /\ DOMAIN s.latest_messages = {} /\ s.payloads = {}
  BY DEF get_forkchoice_store, EmptyDict
<1> HIDE DEF s
<1>4. s.blocks[ANCHOR_BLOCK.root].slot = 0 /\ get_current_slot(s) \in Nat
  BY <1>2, AnchorAtGenesis, SlotType DEF AnchorSound, get_current_slot, IsStore, StoreOver
<1>5. \A root \in DOMAIN s.blocks : s.blocks[root].slot <= get_current_slot(s)
  BY <1>2, <1>4
<1> QED BY <1>1, <1>2, <1>3, <1>5 DEF NodeSound, Rooted, MessagesCast

LEMMA ExecutionStartsSound ==
  ASSUME AdversaryScope, ExecutionInit
  PROVE  ExecutionSound
<1>1. /\ script \in DOMAIN SETTINGS /\ time = 0 /\ votes = {}
      /\ \A v \in Node : stores[v] = GENESIS_STORE
      /\ owed.blocks = {} /\ owed.payloads = {}
  BY DEF ExecutionInit
<1>2. /\ NodeSound(GENESIS_STORE) /\ GENESIS_STORE.time = 0
      /\ DOMAIN GENESIS_STORE.blocks = {ANCHOR_BLOCK.root}
      /\ GENESIS_STORE.payloads = {}
  BY GenesisSound, ExecutionAssumption DEF AdversaryScope
<1>3. current_slot <= FREE_SLOTS + 1
  <2>1. slot_at(0) = 0
    BY ConfigAssumption DEF slot_at, GENESIS_SLOT
  <2> QED BY <1>1, <2>1, AdversaryAssumption DEF current_slot
<1>4. NodesSound
  BY <1>1, <1>2, <1>3 DEF NodesSound
<1>5. OwedSound
  BY <1>1, <1>2 DEF OwedSound, held_blocks, held_payloads
<1>6. VotesSound /\ VotesCounted
  BY <1>1, FS_EmptySet DEF VotesSound, VotesCounted
<1> QED BY <1>4, <1>5, <1>6 DEF ExecutionSound

-----------------------------------------------------------------------------
(* Votes are cast: each for the head of its node, which the node knows.    *)

LEMMA HonestVote ==
  ASSUME StatesScope, NEW s, NodeSound(s), NEW slot \in Nat, slot <= FREE_SLOTS,
         get_current_slot(s) = slot,
         NEW i \in honest \cap get_beacon_committee(slot), NEW second
  PROVE  LET vote == [validator |-> i, time |-> second,
                      data |-> honest_attestation_data(s, get_head(s), slot)]
         IN  /\ vote.data.slot = slot
             /\ VoteShape(vote)
             /\ VoteRooted(s, vote)
             /\ vote.data.index = 1 => vote.data.beacon_block_root \in s.payloads
<1> DEFINE head == get_head(s)
           base == block_state(s, head.root)
           state == IF base.slot < slot THEN process_slots(base, slot) ELSE base
           data == honest_attestation_data(s, head, slot)
<1>1. Rooted(s) /\ IsStore(s) /\ Tree(s)
  BY SoundIsTree DEF NodeSound, Rooted
<1>2. /\ head \in ForkChoiceNode /\ head.root \in DOMAIN s.blocks /\ head.root \in Root
      /\ head.payload_status = FULL => head.root \in s.payloads
  BY <1>1, HeadIsIn DEF is_payload_verified, IsStore
<1> HIDE DEF head
<1>3. /\ base \in BeaconStates /\ base \in BeaconState
      /\ base.slot = s.blocks[head.root].slot
      /\ block_slot(s, head.root) = s.blocks[head.root].slot
      /\ s.blocks[head.root].slot \in Nat /\ s.blocks[head.root].slot <= slot
  <2>1. /\ base = s.block_states[head.root] /\ base \in BeaconStates /\ base \in BeaconState
        /\ s.blocks[head.root] \in BeaconBlock
    BY <1>1, <1>2, BlockReads
  <2> HIDE DEF base
  <2> QED BY <1>1, <1>2, <2>1
          DEF Rooted, TreeSound, NodeSound, block_slot, block_at, BeaconBlock
<1> HIDE DEF base
<1>4. state \in BeaconStates /\ state.slot = slot
  BY <1>3, AdversaryAssumption DEF StatesScope, BeaconState
<1>5. state \in BeaconState
  BY <1>4, ExternalsAssumption
<1>6. data = [slot |-> slot,
              index |-> IF block_slot(s, head.root) # slot /\ head.payload_status = FULL
                        THEN 1 ELSE 0,
              beacon_block_root |-> head.root,
              source |-> state.current_justified_checkpoint,
              target |-> get_checkpoint_for_block(s, head.root, get_current_epoch(state))]
  BY DEF honest_attestation_data, base
<1> HIDE DEF state
<1>7. get_current_epoch(state) = compute_epoch_at_slot(slot) /\ compute_epoch_at_slot(slot) \in Nat
  BY <1>4, EpochOfSlot DEF get_current_epoch
<1> DEFINE epoch == compute_epoch_at_slot(slot)
           target == get_checkpoint_block(s, head.root, epoch)
<1>8. target \in Root
  <2> DEFINE start == compute_start_slot_at_epoch(epoch)
  <2>1. start \in Nat
    BY <1>7, ConfigAssumption DEF compute_start_slot_at_epoch
  <2>2. Descending(s, start) /\ NewNode(head.root, PENDING) \in ForkChoiceNode
    BY <1>1, <1>2, <2>1, TreeDescends, PendingNode
  <2> HIDE DEF start
  <2>3. get_ancestor(s, NewNode(head.root, PENDING), start) \in ForkChoiceNode
    BY <1>1, <2>1, <2>2, AncestorType
  <2> QED BY <2>3 DEF ForkChoiceNode, get_checkpoint_block, start
<1> HIDE DEF target, epoch
<1>9. /\ data.slot = slot
      /\ data.index = IF block_slot(s, head.root) # slot /\ head.payload_status = FULL
                      THEN 1 ELSE 0
      /\ data.beacon_block_root = head.root
      /\ data.source = state.current_justified_checkpoint
      /\ data.target = [epoch |-> epoch, root |-> target]
  BY <1>6, <1>7 DEF get_checkpoint_for_block, target, epoch
<1>10. data \in AttestationData
  <2>1. state.current_justified_checkpoint \in Checkpoint
    BY <1>5 DEF BeaconState
  <2>2. get_checkpoint_for_block(s, head.root, get_current_epoch(state)) \in Checkpoint
    BY <1>7, <1>8 DEF get_checkpoint_for_block, Checkpoint, target, epoch
  <2> QED BY <1>2, <1>6, <2>1, <2>2 DEF AttestationData
<1> HIDE DEF data
<1> DEFINE vote == [validator |-> i, time |-> second, data |-> data]
<1>11. VoteShape(vote)
  BY <1>7, <1>9, <1>10 DEF VoteShape, epoch
<1>12. VoteRooted(s, vote)
  BY <1>2, <1>3, <1>9 DEF VoteRooted, target
<1> QED BY <1>2, <1>9, <1>11, <1>12 DEF data, head

LEMMA SoundForMoreVotes ==
  ASSUME script' = script, votes \subseteq votes', NEW s, NodeSound(s)
  PROVE  NodeSound(s)'
BY DEF NodeSound, MessagesCast, honest, Owner

LEMMA VotesKeepSound ==
  ASSUME AdversaryScope, ExecutionSound, FreeVotes
  PROVE  ExecutionSound'
<1>1. PICK voters : CastVotes(voters) /\ current_slot <= FREE_SLOTS
  BY DEF FreeVotes
<1> DEFINE head_of == [v \in Node |-> get_head(stores[v])]
           cast(i) == [validator |-> i, time |-> time,
                       data |-> honest_attestation_data(stores[Owner[i]], get_head(stores[Owner[i]]),
                                                        current_slot)]
<1>2. /\ voters \subseteq Unvoted /\ time <= attestation_deadline(current_slot)
      /\ votes' = votes \cup
           {[validator |-> i, time |-> time,
             data |-> honest_attestation_data(stores[Owner[i]], head_of[Owner[i]],
                                              current_slot)] : i \in voters}
      /\ script' = script /\ time' = time /\ stores' = stores /\ owed' = owed /\ broken' = broken
  BY <1>1 DEF CastVotes
<1>3. /\ Node' = Node /\ honest' = honest /\ current_slot' = current_slot
      /\ NodesSound /\ OwedSound /\ VotesSound /\ VotesCounted
      /\ current_slot \in Nat
  BY <1>2, SlotType DEF Node, honest, Owner, current_slot, ExecutionSound, NodesSound
<1>4. ASSUME NEW i \in voters
      PROVE  /\ i \in honest \cap get_beacon_committee(current_slot)
             /\ i \in ValidatorIndex
             /\ Owner[i] \in Node
             /\ \A vote \in votes : vote.validator = i => vote.data.slot # current_slot
  BY <1>2, <1>3, ExecutionAssumption DEF Unvoted, honest, Owner, Node, NodesSound
<1>5. votes' = votes \cup {cast(i) : i \in voters}
  <2>1. \A i \in voters : head_of[Owner[i]] = get_head(stores[Owner[i]])
    BY <1>4
  <2> HIDE DEF head_of
  <2> QED BY <1>2, <2>1
<1>6. ASSUME NEW i \in voters
      PROVE  /\ cast(i).validator = i /\ cast(i).data.slot = current_slot
             /\ VoteShape(cast(i))
             /\ VoteRooted(stores[Owner[i]], cast(i))
             /\ cast(i).data.index = 1
                  => cast(i).data.beacon_block_root \in stores[Owner[i]].payloads
  <2>1. NodeSound(stores[Owner[i]]) /\ get_current_slot(stores[Owner[i]]) = current_slot
    BY <1>3, <1>4 DEF NodesSound, get_current_slot, current_slot
  <2>2. cast(i).validator = i
    OBVIOUS
  <2> QED BY <1>1, <1>3, <1>4, <2>1, <2>2, HonestVote DEF AdversaryScope
<1> HIDE DEF cast, head_of
<1>7. NodesSound'
  <2>1. ASSUME NEW v \in Node PROVE NodeSound(stores[v])'
    BY <1>2, <1>3, <1>5, SoundForMoreVotes DEF NodesSound
  <2> QED BY <1>2, <1>3, <2>1 DEF NodesSound
<1>8. OwedSound'
  BY <1>2, <1>3 DEF OwedSound, held_blocks, held_payloads
<1>9. \A vote : VoteSound(vote) => VoteSound(vote)'
  BY <1>2, <1>3 DEF VoteSound, VoteShape
<1>10. ASSUME NEW i \in voters, NEW vote, vote = cast(i) PROVE VoteSound(vote)'
  <2> DEFINE root == cast(i).data.beacon_block_root
  <2>1. Owner[i] \in Node /\ root \in DOMAIN stores[Owner[i]].blocks
    BY <1>4, <1>6 DEF VoteRooted
  <2>2. root \in held_blocks(stores)
    BY <2>1 DEF held_blocks
  <2>3. root \in owed.blocks \cup {ANCHOR_BLOCK.root}
    BY <1>2, <1>3, <2>2 DEF OwedSound
  <2>4. cast(i).data.index = 1 => root \in held_payloads(stores)
    BY <1>6, <2>1 DEF held_payloads
  <2>5. cast(i).data.index = 1 => root \in owed.payloads
    BY <1>2, <1>3, <2>4 DEF OwedSound
  <2>6. VoteSound(cast(i))
    BY <1>3, <1>6, <2>1, <2>3, <2>5 DEF VoteSound
  <2> QED BY <1>9, <1>10, <2>6
<1>11. VotesSound'
  <2>1. IsFiniteSet(votes')
    <3>1. IsFiniteSet(voters)
      BY <1>4, RegistryAssumption, FS_Subset
    <3> DEFINE casting == [i \in voters |-> cast(i)]
    <3>2. IsFiniteSet({casting[i] : i \in voters})
      <4> HIDE DEF casting
      <4> QED BY <3>1, FiniteImage
    <3>3. {casting[i] : i \in voters} = {cast(i) : i \in voters}
      OBVIOUS
    <3> QED BY <1>3, <1>5, <3>2, <3>3, FS_Union DEF VotesSound
  <2>2. \A vote \in votes' : VoteSound(vote)'
    BY <1>3, <1>5, <1>9, <1>10 DEF VotesSound
  <2>3. ASSUME NEW vote \in votes', NEW other \in votes',
               other.validator = vote.validator, other.data.slot = vote.data.slot
        PROVE  other = vote
    BY <1>3, <1>4, <1>5, <1>6, <2>3 DEF VotesSound
  <2> QED BY <2>1, <2>2, <2>3 DEF VotesSound
<1>12. VotesCounted'
  <2>1. SUFFICES ASSUME broken = {}, NEW vote \in votes', NEW v \in Node,
                        vote.data.slot < current_slot
                 PROVE  Counts(stores[v], vote)
    BY <1>2, <1>3 DEF VotesCounted
  <2>2. vote \in votes
    BY <1>3, <1>5, <1>6, <2>1
  <2> QED BY <1>3, <2>1, <2>2 DEF VotesCounted
<1> QED BY <1>7, <1>8, <1>11, <1>12 DEF ExecutionSound

-----------------------------------------------------------------------------
(* A second passes: the tick, then the events.                             *)

LEMMA TickKeepsSound ==
  ASSUME NEW s, NodeSound(s), NEW second \in Nat, s.time <= second
  PROVE  LET t == on_tick(s, second)
         IN  /\ NodeSound(t) /\ t.time = second
             /\ t.blocks = s.blocks /\ t.payloads = s.payloads
             /\ t.latest_messages = s.latest_messages
             /\ t.equivocating_indices = s.equivocating_indices
<1> DEFINE t == on_tick(s, second)
           new_epoch == compute_epoch_at_slot(slot_at(second)) > get_current_store_epoch(s)
<1>1. Rooted(s) /\ IsStore(s) /\ Shaped(s) /\ s.time \in Nat
  BY DEF NodeSound, Rooted, IsStore, Shaped, StoreOver
<1>2. get_current_slot(s) <= slot_at(second) /\ get_current_slot(s) \in Nat /\ slot_at(second) \in Nat
  BY <1>1, SlotMonotone, SlotType DEF get_current_slot
<1>3. t = Ticked(s, second)
  BY <1>1, <1>2, OnTickIsTicked
<1>4. /\ Shaped(t) /\ SameBlocks(s, t) /\ SamePtcVotes(s, t) /\ SameVotes(s, t)
      /\ t.checkpoint_states = s.checkpoint_states
      /\ t.payloads = s.payloads
      /\ t.unrealized_justified_checkpoint = s.unrealized_justified_checkpoint
      /\ t.unrealized_finalized_checkpoint = s.unrealized_finalized_checkpoint
      /\ t.time = second
      /\ t.justified_checkpoint =
           IF new_epoch THEN Tracker!newer(s.justified_checkpoint,
                                           s.unrealized_justified_checkpoint)
           ELSE s.justified_checkpoint
      /\ t.finalized_checkpoint =
           IF new_epoch THEN Tracker!newer(s.finalized_checkpoint,
                                           s.unrealized_finalized_checkpoint)
           ELSE s.finalized_checkpoint
  BY <1>1, <1>3, TickedFields
<1> HIDE DEF t, new_epoch
<1>5. IsStore(t)
  BY <1>1, <1>4, SameKeysType DEF SameKeys, SameBlocks, SamePtcVotes, SameVotes
<1>6. TreeSound(t) /\ AnchorSound(t)
  BY <1>1, <1>4, SameBlocksKeepTree DEF Rooted
<1>7. BlocksDelivered(t)
  BY <1>1, <1>4 DEF Rooted, ChainSound, BlocksDelivered, SameBlocks
<1>8. CheckpointsOnChains(t)
  <2>1. /\ DOMAIN s.blocks \subseteq DOMAIN t.blocks
        /\ \A checkpoint : OnKnownChain(s, checkpoint) => OnKnownChain(t, checkpoint)
    BY <1>4 DEF SameBlocks, OnKnownChain
  <2>2. CheckpointsOnChains(s)
    BY <1>1 DEF Rooted, ChainSound
  <2>3. /\ s.justified_checkpoint \in Checkpoint
        /\ s.finalized_checkpoint \in Checkpoint
        /\ s.unrealized_justified_checkpoint \in Checkpoint
        /\ s.unrealized_finalized_checkpoint \in Checkpoint
    BY <1>1, StoreCheckpointsIn
  <2>4. OnKnownChain(t, Tracker!newer(s.justified_checkpoint,
                                      s.unrealized_justified_checkpoint))
    BY <2>1, <2>2, <2>3, NewerOnChain DEF CheckpointsOnChains
  <2>5. OnKnownChain(t, Tracker!newer(s.finalized_checkpoint,
                                      s.unrealized_finalized_checkpoint))
    BY <2>1, <2>2, <2>3, NewerOnChain DEF CheckpointsOnChains
  <2> QED BY <1>4, <2>1, <2>2, <2>4, <2>5 DEF CheckpointsOnChains
<1>9. \A root \in DOMAIN t.blocks : t.blocks[root].slot <= get_current_slot(t)
  <2>1. \A root \in DOMAIN s.blocks : s.blocks[root].slot \in Nat
    BY <1>1 DEF IsStore, StoreOver, BeaconBlock
  <2>2. t.blocks = s.blocks /\ get_current_slot(t) = slot_at(second)
    BY <1>4 DEF SameBlocks, get_current_slot
  <2> QED BY <1>2, <2>1, <2>2 DEF NodeSound
<1>10. NodeSound(t)
  BY <1>4, <1>5, <1>6, <1>7, <1>8, <1>9
     DEF NodeSound, Rooted, ChainSound, SameVotes, MessagesCast
<1> QED BY <1>4, <1>10 DEF t, SameBlocks, SameVotes

LEMMA ListKeepsSound ==
  ASSUME MessagesScope, NEW s, NodeSound(s), get_current_slot(s) <= FREE_SLOTS + 1,
         NEW events, DeliverableList(events)
  PROVE  NodeSound(apply_events(s, events)) /\ Grows(s, apply_events(s, events))
BY EventsKeepSound DEF DeliverableList

(* What the events of a second leave, when the stores of all nodes are     *)
(* sound after them.                                                       *)
LEMMA SecondKeepsVotes ==
  ASSUME AdversaryScope, ExecutionSound, script' = script, votes' = votes,
         NEW second \in Nat, time' = second, time <= second,
         slot_at(second) <= FREE_SLOTS + 1,
         NEW next, stores' = next,
         \A v \in Node : /\ NodeSound(next[v]) /\ next[v].time = second
                         /\ Learns(stores[v], next[v]),
         \/ owed' = observed(next)
         \/ owed' = owed /\ ~ second <= attestation_deadline(slot_at(second))
  PROVE  /\ NodesSound' /\ OwedSound' /\ VotesSound'
         /\ \A vote \in votes, v \in Node :
              vote.data.slot < current_slot /\ broken = {} => Counts(next[v], vote)
<1>1. /\ Node' = Node /\ honest' = honest /\ current_slot' = slot_at(second)
      /\ NodesSound /\ OwedSound /\ VotesSound /\ VotesCounted
      /\ current_slot <= slot_at(second)
      /\ current_slot \in Nat /\ slot_at(second) \in Nat
  BY SlotType, SlotMonotone DEF Node, honest, Owner, current_slot, ExecutionSound, NodesSound
<1>2. NodesSound'
  <2>1. ASSUME NEW v \in Node PROVE NodeSound(stores[v])'
    BY SoundForMoreVotes
  <2> QED BY <1>1, <2>1 DEF NodesSound
<1>3. /\ held_blocks(stores) \subseteq held_blocks(next)
      /\ held_payloads(stores) \subseteq held_payloads(next)
      /\ held_blocks(next)' = held_blocks(next)
      /\ held_payloads(next)' = held_payloads(next)
  BY <1>1 DEF held_blocks, held_payloads, Learns
<1>4. owed.blocks \subseteq owed'.blocks /\ owed.payloads \subseteq owed'.payloads
  BY DEF observed
<1>5. OwedSound'
  <2>1. owed'.blocks \subseteq held_blocks(next) /\ owed'.payloads \subseteq held_payloads(next)
    BY <1>1, <1>3 DEF OwedSound, observed
  <2>2. time' <= attestation_deadline(current_slot)' =>
          /\ held_blocks(next) \subseteq owed'.blocks
          /\ held_payloads(next) \subseteq owed'.payloads
    <3>1. attestation_deadline(current_slot)' = attestation_deadline(slot_at(second))
      BY <1>1 DEF attestation_deadline, slot_start
    <3> QED BY <3>1 DEF observed
  <2>3. held_blocks(stores)' = held_blocks(next) /\ held_payloads(stores)' = held_payloads(next)
    BY <1>1 DEF held_blocks, held_payloads
  <2> QED BY <2>1, <2>2, <2>3 DEF OwedSound
<1>6. ASSUME NEW vote \in votes PROVE VoteSound(vote)'
  <2>1. VoteSound(vote) /\ vote.data \in AttestationData /\ vote.data.slot \in Nat
    BY <1>1 DEF VotesSound, VoteSound, VoteShape, AttestationData
  <2>2. PICK w \in Node : VoteRooted(stores[w], vote)
    BY <2>1 DEF VoteSound
  <2>3. VoteRooted(next[w], vote)
    <3>1. Rooted(stores[w]) /\ Rooted(next[w])
      BY <1>1, <2>2 DEF NodesSound, NodeSound
    <3>2. vote.data.beacon_block_root \in DOMAIN next[w].blocks
      BY <2>2 DEF VoteRooted, Learns
    <3> QED BY <2>1, <2>2, <3>1, <3>2, VoteTargetAgrees DEF AdversaryScope
  <2>4. VoteShape(vote)'
    BY <1>1, <2>1 DEF VoteSound, VoteShape
  <2>5. vote.data.slot <= current_slot'
    BY <1>1, <2>1 DEF VoteSound
  <2>6. \E x \in Node' : VoteRooted(stores'[x], vote)
    BY <1>1, <2>2, <2>3
  <2> QED BY <1>4, <2>1, <2>4, <2>5, <2>6 DEF VoteSound
<1>7. VotesSound'
  BY <1>1, <1>6 DEF VotesSound
<1>8. ASSUME NEW vote \in votes, NEW v \in Node, vote.data.slot < current_slot, broken = {}
      PROVE  Counts(next[v], vote)
  <2>1. Counts(stores[v], vote)
    BY <1>1, <1>8 DEF VotesCounted
  <2>2. IsStore(stores[v]) /\ IsStore(next[v])
    BY <1>1 DEF NodesSound, NodeSound, Rooted
  <2>3. vote.data.slot \in Nat
    BY <1>1 DEF VotesSound, VoteSound, VoteShape, AttestationData
  <2> QED BY <2>1, <2>2, <2>3, CountsStays
<1> QED BY <1>2, <1>5, <1>7, <1>8

(* Where the clock is within a slot.                                       *)
LEMMA SlotStartHere ==
  ASSUME NEW slot \in Nat
  PROVE  slot_start(slot) \in Nat /\ slot_at(slot_start(slot)) = slot
BY SlotStart DEF slot_start, start_second

LEMMA WithinTheSlot ==
  ASSUME NEW now \in Nat, NEW second \in Nat, now <= second,
         second < slot_start(slot_at(now) + 1)
  PROVE  slot_at(second) = slot_at(now)
<1> DEFINE slot == slot_at(now)
<1>1. slot \in Nat /\ slot_at(second) \in Nat /\ slot <= slot_at(second)
  BY SlotType, SlotMonotone
<1>2. ~ slot_at(second) >= slot + 1
  <2>1. SUFFICES ASSUME slot_at(second) >= slot + 1 PROVE FALSE
    OBVIOUS
  <2>2. PICK seconds \in 1..SLOT_DURATION_MS : SLOT_DURATION_MS = 1000 * seconds
    BY WholeSecondsAssumption
  <2>3. seconds \in Nat \ {0}
    BY <2>2, ConfigAssumption
  <2>4. slot_at(second) * SLOT_DURATION_MS <= second * 1000
    <3>1. second * 1000 \in Nat /\ SLOT_DURATION_MS \in Nat \ {0}
      BY ConfigAssumption
    <3>2. \A a \in Nat, n \in Nat \ {0} : (a \div n) * n <= a
      OBVIOUS
    <3>3. slot_at(second) = (second * 1000) \div SLOT_DURATION_MS
      BY <3>1 DEF slot_at, GENESIS_SLOT
    <3> QED BY <3>1, <3>2, <3>3
  <2>5. slot_start(slot + 1) = (slot + 1) * seconds
    <3>1. (slot + 1) * SLOT_DURATION_MS = ((slot + 1) * seconds) * 1000 /\ (slot + 1) * seconds \in Nat
      BY <1>1, <2>2, <2>3
    <3> QED BY <3>1, DivOfMultiple DEF slot_start
  <2>6. (slot + 1) * SLOT_DURATION_MS <= slot_at(second) * SLOT_DURATION_MS
    BY <1>1, <2>1, ConfigAssumption
  <2>7. (slot + 1) * SLOT_DURATION_MS = ((slot + 1) * seconds) * 1000
    BY <1>1, <2>2, <2>3
  <2>8. /\ (slot + 1) * seconds \in Nat
        /\ (slot + 1) * SLOT_DURATION_MS \in Nat
        /\ slot_at(second) * SLOT_DURATION_MS \in Nat
    BY <1>1, <2>3, ConfigAssumption
  <2> DEFINE a == (slot + 1) * seconds
             b == slot_at(second) * SLOT_DURATION_MS
  <2>9. a * 1000 <= b /\ b <= second * 1000 /\ second < a /\ a \in Nat /\ b \in Nat
    BY <2>4, <2>5, <2>6, <2>7, <2>8
  <2> HIDE DEF a, b
  <2> QED BY <2>9
<1> HIDE DEF slot
<1> QED BY <1>1, <1>2 DEF slot

LEMMA EmptyList == DeliverableList(<<>>)
<1>1. <<>> \in Seq({}) /\ DOMAIN <<>> = {}
  OBVIOUS
<1> QED BY <1>1 DEF DeliverableList

(* Nothing that the adversary releases names an honest validator.          *)
LEMMA ReleasedIsDeliverable ==
  ASSUME MessagesScope, script \in DOMAIN SETTINGS, NEW event \in released
  PROVE  Deliverable(event)
<1>1. event.kind \in {"block", "execution_payload_envelope", "attester_slashing"}
  BY AdversaryAssumption
<1>2. CASE event.kind = "attester_slashing"
  <2>1. \A i \in slashed_by(event) : i \notin honest
    BY <1>2, AdversaryAssumption DEF honest, Owner
  <2> QED BY <1>2, <2>1 DEF MessagesScope, Deliverable
<1> QED BY <1>1, <1>2 DEF MessagesScope, Deliverable

(* What a later second of the slot does.                                   *)
SecondPasses(second, events, next) ==
  /\ second \in Nat /\ slot_at(second) = current_slot /\ time <= second
  /\ time' = second /\ script' = script /\ votes' = votes /\ broken' = broken
  /\ stores' = next
  /\ owed' = IF second <= attestation_deadline(current_slot) THEN observed(next) ELSE owed
  /\ \A v \in Node :
       /\ DeliverableList(events[v])
       /\ next[v] = apply_events(on_tick(stores[v], second), events[v])
       /\ NodeSound(next[v]) /\ next[v].time = second /\ Learns(stores[v], next[v])

LEMMA ReleaseUnfolds ==
  ASSUME AdversaryScope, ExecutionSound, Release
  PROVE  \E second, events, next : SecondPasses(second, events, next)
<1>1. PICK release \in RELEASES, receivers \in SUBSET Node :
        LaterSecond(time + 1, [v \in Node |-> IF v \in receivers THEN release ELSE <<>>])
  BY DEF Release
<1> DEFINE second == time + 1
           events == [v \in Node |-> IF v \in receivers THEN release ELSE <<>>]
           ticked(v) == on_tick(stores[v], second)
           handled == [v \in Node |-> apply_events(on_tick(stores[v], second), events[v])]
<1>2. /\ second < slot_start(current_slot + 1) /\ time' = second
      /\ stores' = handled
      /\ owed' = IF second <= attestation_deadline(current_slot)
                 THEN observed(handled) ELSE owed
      /\ script' = script /\ votes' = votes /\ broken' = broken
  BY <1>1 DEF LaterSecond
<1>3. \A v \in Node : handled[v] = apply_events(ticked(v), events[v])
  OBVIOUS
<1> HIDE DEF handled
<1>4. /\ NodesSound /\ script \in DOMAIN SETTINGS
      /\ time \in Nat /\ second \in Nat /\ time <= second
      /\ current_slot <= FREE_SLOTS + 1
  BY DEF ExecutionSound, NodesSound
<1> HIDE DEF second
<1>5. slot_at(second) = current_slot
  BY <1>2, <1>4, WithinTheSlot DEF current_slot
<1>6. ASSUME NEW v \in Node PROVE DeliverableList(events[v])
  <2>1. release \in Seq(released)
    BY AdversaryAssumption
  <2>2. \A k \in DOMAIN release : release[k] \in released
    BY <2>1
  <2>3. DeliverableList(release)
    BY <1>4, <2>1, <2>2, ReleasedIsDeliverable DEF DeliverableList, AdversaryScope
  <2> QED BY <2>3, EmptyList
<1>7. ASSUME NEW v \in Node
      PROVE  NodeSound(handled[v]) /\ handled[v].time = second /\ Learns(stores[v], handled[v])
  <2>1. NodeSound(stores[v]) /\ stores[v].time = time
    BY <1>4 DEF NodesSound
  <2>2. /\ NodeSound(ticked(v)) /\ ticked(v).time = second
        /\ ticked(v).blocks = stores[v].blocks /\ ticked(v).payloads = stores[v].payloads
        /\ ticked(v).latest_messages = stores[v].latest_messages
        /\ ticked(v).equivocating_indices = stores[v].equivocating_indices
    BY <1>4, <2>1, TickKeepsSound
  <2> HIDE DEF ticked, events
  <2>3. get_current_slot(ticked(v)) <= FREE_SLOTS + 1
    BY <1>4, <1>5, <2>2 DEF get_current_slot
  <2>4. /\ NodeSound(apply_events(ticked(v), events[v]))
        /\ Grows(ticked(v), apply_events(ticked(v), events[v]))
    BY <1>6, <2>2, <2>3, ListKeepsSound DEF AdversaryScope
  <2> QED BY <1>3, <2>2, <2>4 DEF Grows, Learns
<1> HIDE DEF events
<1>8. SecondPasses(second, events, handled)
  BY <1>2, <1>3, <1>4, <1>5, <1>6, <1>7 DEF SecondPasses
<1> QED BY <1>8

LEMMA ReleaseKeepsSound ==
  ASSUME AdversaryScope, ExecutionSound, Release
  PROVE  ExecutionSound'
<1>1. PICK second, events, next : SecondPasses(second, events, next)
  BY ReleaseUnfolds
<1>2. NodesSound /\ VotesCounted /\ current_slot <= FREE_SLOTS + 1
  BY DEF ExecutionSound, NodesSound
<1>3. /\ NodesSound' /\ OwedSound' /\ VotesSound'
      /\ \A vote \in votes, v \in Node :
           vote.data.slot < current_slot /\ broken = {} => Counts(next[v], vote)
  <2>1. /\ second \in Nat /\ time <= second /\ time' = second /\ stores' = next
        /\ script' = script /\ votes' = votes
        /\ \A v \in Node : /\ NodeSound(next[v]) /\ next[v].time = second
                           /\ Learns(stores[v], next[v])
    BY <1>1 DEF SecondPasses
  <2>2. \/ owed' = observed(next)
        \/ owed' = owed /\ ~ second <= attestation_deadline(slot_at(second))
    BY <1>1 DEF SecondPasses
  <2>3. slot_at(second) <= FREE_SLOTS + 1
    BY <1>1, <1>2 DEF SecondPasses
  <2> QED BY <2>1, <2>2, <2>3, SecondKeepsVotes
<1>4. VotesCounted'
  <2>1. Node' = Node /\ current_slot' = current_slot
    BY <1>1 DEF Node, current_slot, SecondPasses
  <2> QED BY <1>1, <1>3, <2>1 DEF VotesCounted, SecondPasses
<1> QED BY <1>3, <1>4 DEF ExecutionSound

-----------------------------------------------------------------------------
(* A slot begins: the relay, the honest votes, the adversary's own.        *)

LEMMA OwedIsFinite ==
  ASSUME NodesSound, OwedSound
  PROVE  IsFiniteSet(owed.blocks) /\ IsFiniteSet(owed.payloads)
<1>1. IsFiniteSet(Node)
  BY ExecutionAssumption DEF NodesSound, Node
<1>2. ASSUME NEW v \in Node
      PROVE  IsFiniteSet(DOMAIN stores[v].blocks) /\ IsFiniteSet(stores[v].payloads)
  <2>1. IsStore(stores[v]) /\ IsFiniteSet(DOMAIN stores[v].blocks)
    BY DEF NodesSound, NodeSound, Rooted, AnchorSound
  <2>2. stores[v].payloads \subseteq DOMAIN stores[v].blocks
    BY <2>1 DEF IsStore, KeysAgree
  <2> QED BY <2>1, <2>2, FS_Subset
<1> DEFINE blocks == [v \in Node |-> DOMAIN stores[v].blocks]
           payloads == [v \in Node |-> stores[v].payloads]
<1>3. IsFiniteSet(UNION {blocks[v] : v \in Node})
  <2>1. \A T \in {blocks[v] : v \in Node} : IsFiniteSet(T)
    BY <1>2
  <2> HIDE DEF blocks
  <2>2. IsFiniteSet({blocks[v] : v \in Node})
    BY <1>1, FiniteImage
  <2> QED BY <2>1, <2>2, FS_UNION
<1>4. IsFiniteSet(UNION {payloads[v] : v \in Node})
  <2>1. \A T \in {payloads[v] : v \in Node} : IsFiniteSet(T)
    BY <1>2
  <2> HIDE DEF payloads
  <2>2. IsFiniteSet({payloads[v] : v \in Node})
    BY <1>1, FiniteImage
  <2> QED BY <2>1, <2>2, FS_UNION
<1>5. /\ owed.blocks \subseteq UNION {blocks[v] : v \in Node}
      /\ owed.payloads \subseteq UNION {payloads[v] : v \in Node}
  BY DEF OwedSound, held_blocks, held_payloads
<1> HIDE DEF blocks, payloads
<1> QED BY <1>3, <1>4, <1>5, FS_Subset

(* The network relays blocks that it delivered to some node.               *)
LEMMA RelayedBlock ==
  ASSUME NodesSound, OwedSound, NEW v \in Node, NEW root \in owed.blocks \ DOMAIN stores[v].blocks
  PROVE  /\ holder(root) \in Node /\ root \in DOMAIN stores[holder(root)].blocks
         /\ root # ANCHOR_BLOCK.root
         /\ [root |-> root, message |-> held_block(root)] \in SIGNED_BLOCKS
<1>1. holder(root) \in Node /\ root \in DOMAIN stores[holder(root)].blocks
  BY DEF OwedSound, held_blocks, holder
<1>2. Rooted(stores[holder(root)]) /\ Rooted(stores[v])
  BY <1>1 DEF NodesSound, NodeSound
<1>3. root # ANCHOR_BLOCK.root
  BY <1>2 DEF Rooted, AnchorSound
<1>4. PICK sb \in SIGNED_BLOCKS : sb.root = root /\ held_block(root) = sb.message
  BY <1>1, <1>2, <1>3 DEF Rooted, ChainSound, BlocksDelivered, held_block
<1>5. sb \in SignedBeaconBlock
  BY MessagesAssumption
<1>6. sb = [root |-> sb.root, message |-> sb.message]
  BY <1>5 DEF SignedBeaconBlock
<1> QED BY <1>1, <1>3, <1>4, <1>6

LEMMA MissingIsFinite ==
  ASSUME NodesSound, OwedSound, NEW v \in Node
  PROVE  IsFiniteSet(missing_blocks(v) \cup missing_payloads(v)) /\ IsFiniteSet(missing_evidence(v))
<1> DEFINE B == owed.blocks \ DOMAIN stores[v].blocks
           P == owed.payloads \ stores[v].payloads
           blocks == [root \in B |-> block_event([root |-> root, message |-> held_block(root)])]
           envelopes == [root \in P |-> envelope_event(root)]
<1>1. IsFiniteSet(B) /\ IsFiniteSet(P)
  BY OwedIsFinite, FS_Subset
<1>2. /\ missing_blocks(v) = {blocks[root] : root \in B}
      /\ missing_payloads(v) = {envelopes[root] : root \in P}
  BY DEF missing_blocks, missing_payloads
<1> HIDE DEF B, P, blocks, envelopes
<1>3. IsFiniteSet(missing_blocks(v)) /\ IsFiniteSet(missing_payloads(v))
  BY <1>1, <1>2, FiniteImage
<1>4. missing_evidence(v) \subseteq released
  BY DEF missing_evidence
<1> QED BY <1>3, <1>4, AdversaryAssumption, FS_Subset, FS_Union

LEMMA RelayOrder ==
  ASSUME NodesSound, OwedSound, NEW v \in Node, NEW order \in relay_orders(v)
  PROVE  LET S == missing_blocks(v) \cup missing_payloads(v)
         IN  /\ order \in Seq(S)
             /\ \A event \in S : \E k \in DOMAIN order : order[k] = event
             /\ \A j, k \in DOMAIN order : j < k => ~ is_needed(order[k], order[j])
<1> DEFINE S == missing_blocks(v) \cup missing_payloads(v)
           n == Cardinality(S)
<1>1. /\ order \in [1..n -> S]
      /\ \A j, k \in 1..n : j # k => order[j] # order[k]
      /\ \A j, k \in DOMAIN order : j < k => ~ is_needed(order[k], order[j])
  BY DEF relay_orders, SetToSeqs
<1>2. IsFiniteSet(S)
  BY MissingIsFinite
<1> HIDE DEF S
<1>3. n \in Nat
  BY <1>2, FS_CardinalityType
<1>4. \A x \in S : \E k \in 1..n : order[k] = x
  BY <1>1, <1>2, AllAreListed DEF n
<1> HIDE DEF n
<1>5. order \in Seq(S) /\ DOMAIN order = 1..n
  BY <1>1, <1>3
<1> QED BY <1>1, <1>4, <1>5 DEF S

LEMMA RelayIsDeliverable ==
  ASSUME MessagesScope, NodesSound, OwedSound, NEW v \in Node, NEW order \in relay_orders(v)
  PROVE  DeliverableList(relay_of(v, order))
<1> DEFINE S == missing_blocks(v) \cup missing_payloads(v)
           evidence == SetToSeq(missing_evidence(v))
<1>1. relay_of(v, order) = order \o evidence
  BY DEF relay_of
<1>2. script \in DOMAIN SETTINGS
  BY DEF NodesSound
<1>3. DeliverableList(order)
  <2>1. order \in Seq(S)
    BY RelayOrder
  <2>2. ASSUME NEW event \in S PROVE Deliverable(event)
    <3>1. CASE event \in missing_blocks(v)
      BY <3>1, RelayedBlock DEF missing_blocks, block_event, Deliverable
    <3>2. CASE event \in missing_payloads(v)
      BY <3>2 DEF missing_payloads, envelope_event, Deliverable
    <3> QED BY <3>1, <3>2
  <2> HIDE DEF S
  <2>3. \A k \in DOMAIN order : order[k] \in S
    BY <2>1
  <2> QED BY <2>1, <2>2, <2>3 DEF DeliverableList
<1>4. DeliverableList(evidence)
  <2>1. evidence \in Seq(missing_evidence(v))
    BY MissingIsFinite, SetListed
  <2>2. missing_evidence(v) \subseteq released
    BY DEF missing_evidence
  <2> HIDE DEF evidence
  <2>3. \A k \in DOMAIN evidence : evidence[k] \in released
    BY <2>1, <2>2
  <2> QED BY <1>2, <2>1, <2>3, ReleasedIsDeliverable DEF DeliverableList
<1> HIDE DEF evidence
<1> QED BY <1>1, <1>3, <1>4, ConcatenatedEvents

LEMMA VotesAreDeliverable ==
  ASSUME VotesSound
  PROVE  DeliverableList(votes_of_last_slot)
<1> DEFINE sequence == SetToSeq(VotesOf(current_slot))
<1>1. sequence \in Seq(VotesOf(current_slot))
  <2>1. IsFiniteSet(VotesOf(current_slot))
    BY FS_Subset DEF VotesSound, VotesOf
  <2> QED BY <2>1, SetListed
<1>2. /\ Len(sequence) \in Nat /\ DOMAIN sequence = 1..Len(sequence)
      /\ \A k \in 1..Len(sequence) : sequence[k] \in votes
  <2>1. VotesOf(current_slot) \subseteq votes
    BY DEF VotesOf
  <2> HIDE DEF sequence
  <2> QED BY <1>1, <2>1
<1>3. votes_of_last_slot = [k \in DOMAIN sequence |-> vote_event(sequence[k])]
  BY DEF votes_of_last_slot
<1> HIDE DEF sequence
<1>4. ASSUME NEW vote \in votes PROVE Deliverable(vote_event(vote))
  <2> DEFINE a == [attesting_indices |-> {vote.validator}, data |-> vote.data]
  <2>1. vote.validator \in ValidatorIndex /\ vote.data \in AttestationData
    BY DEF VotesSound, VoteSound, VoteShape, honest
  <2>2. a \in Attestation
    BY <2>1 DEF Attestation
  <2>3. Genuine(a)
    BY DEF Genuine
  <2> QED BY <2>2, <2>3 DEF Deliverable, vote_event, attestation_event
<1>5. /\ votes_of_last_slot = [k \in 1..Len(sequence) |-> votes_of_last_slot[k]]
      /\ \A k \in 1..Len(sequence) : Deliverable(votes_of_last_slot[k])
  BY <1>2, <1>3, <1>4
<1> QED BY <1>2, <1>5, ListedEvents

LEMMA AttackIsDeliverable ==
  ASSUME NEW plan \in Seq(AttestationData),
         get_beacon_committee(current_slot) \subseteq ValidatorIndex
  PROVE  DeliverableList(attack_events(plan))
<1>1. Len(plan) \in Nat /\ DOMAIN plan = 1..Len(plan)
      /\ \A k \in 1..Len(plan) : plan[k] \in AttestationData
  OBVIOUS
<1>2. ASSUME NEW data \in AttestationData
      PROVE  Deliverable(attestation_event(dishonest_members, data))
  <2> DEFINE a == [attesting_indices |-> dishonest_members, data |-> data]
  <2>1. a \in Attestation
    BY DEF Attestation, dishonest_members
  <2>2. Genuine(a)
    BY DEF Genuine, dishonest_members
  <2> QED BY <2>1, <2>2 DEF Deliverable, attestation_event
<1>3. attack_events(plan) = [k \in DOMAIN plan |-> attestation_event(dishonest_members, plan[k])]
  BY DEF attack_events
<1>4. /\ attack_events(plan) = [k \in 1..Len(plan) |-> attack_events(plan)[k]]
      /\ \A k \in 1..Len(plan) : Deliverable(attack_events(plan)[k])
  BY <1>1, <1>2, <1>3
<1> QED BY <1>1, <1>4, ListedEvents

(* A vote of the last slot reaches a node after the block and the payload  *)
(* it is for, which were owed since the deadline of its slot.              *)
LEMMA LastVoteCounts ==
  ASSUME AdversaryScope, ExecutionSound,
         NEW vote \in votes, vote.data.slot = current_slot,
         NEW v \in Node, NEW s, NodeSound(s), get_current_slot(s) = current_slot + 1,
         owed.blocks \subseteq DOMAIN s.blocks, owed.payloads \subseteq s.payloads,
         NEW events, DeliverableList(events),
         NEW k \in DOMAIN events, events[k] = vote_event(vote)
  PROVE  Counts(apply_events(s, events), vote)
<1>1. /\ NodesSound /\ VotesSound
      /\ script \in DOMAIN SETTINGS
  BY DEF ExecutionSound, NodesSound
<1>2. /\ VoteSound(vote) /\ VoteShape(vote) /\ vote.data \in AttestationData
      /\ \A other \in votes : other.validator = vote.validator
                                /\ other.data.slot = vote.data.slot => other = vote
  BY <1>1 DEF VotesSound, VoteSound, VoteShape
<1>3. PICK w \in Node : VoteRooted(stores[w], vote)
  BY <1>2 DEF VoteSound
<1>4. Rooted(stores[w]) /\ Rooted(s)
  BY <1>1 DEF NodesSound, NodeSound
<1>5. vote.data.beacon_block_root \in DOMAIN s.blocks
  BY <1>2, <1>4 DEF VoteSound, Rooted, AnchorSound
<1>6. VoteRooted(s, vote) /\ vote.data.target.root \in DOMAIN s.blocks
  BY <1>2, <1>3, <1>4, <1>5, VoteTargetAgrees DEF AdversaryScope
<1>7. vote.data.index = 1 => vote.data.beacon_block_root \in s.payloads
  BY <1>2 DEF VoteSound
<1>8. PICK S : events \in Seq(S)
  BY DEF DeliverableList
<1> QED BY <1>1, <1>2, <1>6, <1>7, <1>8, VoteEventCounts DEF DeliverableList

(* What the first second of a slot does, and that it hands sound stores    *)
(* nothing but messages that may be delivered.                             *)
SlotBegins(order, schedule, prefixes, next) ==
  LET second == slot_start(current_slot + 1)
  IN  /\ second \in Nat /\ slot_at(second) = current_slot + 1 /\ time <= second
      /\ time' = second /\ script' = script /\ votes' = votes
      /\ stores' = next /\ owed' = observed(next)
      /\ broken' = broken \cup relay_failures(prefixes, next, schedule)
      /\ \A v \in Node :
           /\ order[v] \in relay_orders(v)
           /\ \E plan \in Seq(AttestationData) :
                /\ DeliverableList(attack_events(plan))
                /\ schedule[v] = relay_of(v, order[v]) \o votes_of_last_slot \o attack_events(plan)
           /\ DeliverableList(schedule[v])
           /\ prefixes[v] = apply_events(on_tick(stores[v], second), before_votes(schedule[v]))
           /\ next[v] = apply_events(prefixes[v], from_votes(schedule[v]))
           /\ NodeSound(prefixes[v]) /\ get_current_slot(prefixes[v]) = current_slot + 1
           /\ DeliverableList(before_votes(schedule[v])) /\ DeliverableList(from_votes(schedule[v]))
           /\ NodeSound(next[v]) /\ next[v].time = second
           /\ Learns(prefixes[v], next[v]) /\ Learns(stores[v], next[v])

LEMMA SlotUnfolds ==
  ASSUME AdversaryScope, ExecutionSound, FreeSlot
  PROVE  \E order, schedule, prefixes, next : SlotBegins(order, schedule, prefixes, next)
<1>1. /\ NodesSound /\ OwedSound /\ VotesSound /\ VotesCounted
      /\ time \in Nat /\ script \in DOMAIN SETTINGS
      /\ current_slot \in Nat /\ current_slot <= FREE_SLOTS
  BY SlotType DEF ExecutionSound, NodesSound, FreeSlot, current_slot
<1>2. PICK attack \in [Node -> UNION {Attack(stores[v], v, current_slot) : v \in Node}],
           order \in [Node -> UNION {relay_orders(v) : v \in Node}] :
        /\ \A v \in Node : /\ attack[v] \in Attack(stores[v], v, current_slot)
                           /\ order[v] \in relay_orders(v)
        /\ BeginSlot([v \in Node |->
             relay_of(v, order[v]) \o votes_of_last_slot \o attack_events(attack[v])])
  BY DEF FreeSlot
<1> DEFINE schedule == [v \in Node |->
             relay_of(v, order[v]) \o votes_of_last_slot \o attack_events(attack[v])]
           second == slot_start(current_slot + 1)
<1>3. ASSUME NEW v \in Node
      PROVE  /\ DeliverableList(schedule[v])
             /\ \E plan \in Seq(AttestationData) :
                  /\ DeliverableList(attack_events(plan))
                  /\ schedule[v] = relay_of(v, order[v]) \o votes_of_last_slot \o attack_events(plan)
  <2>1. attack[v] \in Seq(AttestationData) /\ current_slot \in 0..FREE_SLOTS
    <3>1. current_slot \in 0..FREE_SLOTS
      BY <1>1, AdversaryAssumption
    <3>2. Rooted(stores[v])
      BY <1>1 DEF NodesSound, NodeSound
    <3>3. Attack(stores[v], v, current_slot) \subseteq Seq(AttestationData)
      BY <3>1, <3>2 DEF AdversaryScope, MessagesScope
    <3> QED BY <1>2, <3>1, <3>3
  <2>2. get_beacon_committee(current_slot) \subseteq ValidatorIndex
    BY <1>1, <2>1, AdversaryAssumption
  <2>3. /\ DeliverableList(relay_of(v, order[v]))
        /\ DeliverableList(votes_of_last_slot)
        /\ DeliverableList(attack_events(attack[v]))
    BY <1>1, <1>2, <2>1, <2>2, RelayIsDeliverable, VotesAreDeliverable, AttackIsDeliverable
       DEF AdversaryScope
  <2>4. schedule[v] = relay_of(v, order[v]) \o votes_of_last_slot \o attack_events(attack[v])
    OBVIOUS
  <2> HIDE DEF schedule
  <2> QED BY <2>1, <2>3, <2>4, ConcatenatedEvents
<1>4. BeginSlot(schedule)
  BY <1>2
<1> HIDE DEF schedule
<1>5. PICK ticked \in {[v \in Node |-> on_tick(stores[v], time')]} :
        \E prefixes \in {[v \in Node |-> apply_events(ticked[v], before_votes(schedule[v]))]} :
        \E next \in {[v \in Node |-> apply_events(prefixes[v], from_votes(schedule[v]))]} :
          /\ stores' = next
          /\ owed' = observed(next)
          /\ broken' = broken \cup relay_failures(prefixes, next, schedule)
  BY <1>4 DEF BeginSlot
<1>6. PICK prefixes \in {[v \in Node |-> apply_events(ticked[v], before_votes(schedule[v]))]} :
        \E next \in {[v \in Node |-> apply_events(prefixes[v], from_votes(schedule[v]))]} :
          /\ stores' = next
          /\ owed' = observed(next)
          /\ broken' = broken \cup relay_failures(prefixes, next, schedule)
  BY <1>5
<1>7. PICK next \in {[v \in Node |-> apply_events(prefixes[v], from_votes(schedule[v]))]} :
          /\ stores' = next
          /\ owed' = observed(next)
          /\ broken' = broken \cup relay_failures(prefixes, next, schedule)
  BY <1>6
<1>8. time' = second /\ script' = script /\ votes' = votes
  BY <1>4 DEF BeginSlot
<1>9. /\ second \in Nat /\ slot_at(second) = current_slot + 1 /\ current_slot' = slot_at(second)
  BY <1>1, <1>8, SlotStartHere DEF current_slot
<1> HIDE DEF second
<1>10. time <= second
  <2>1. ~ second <= time
    BY <1>1, <1>9, SlotMonotone DEF current_slot
  <2> QED BY <1>1, <1>9, <2>1
<1>11. ASSUME NEW v \in Node
       PROVE  /\ NodeSound(prefixes[v]) /\ get_current_slot(prefixes[v]) = current_slot + 1
              /\ DeliverableList(before_votes(schedule[v]))
              /\ DeliverableList(from_votes(schedule[v]))
              /\ prefixes[v] = apply_events(on_tick(stores[v], second), before_votes(schedule[v]))
              /\ next[v] = apply_events(prefixes[v], from_votes(schedule[v]))
              /\ NodeSound(next[v]) /\ next[v].time = second
              /\ Learns(prefixes[v], next[v]) /\ Learns(stores[v], next[v])
  <2> DEFINE s == stores[v]
             t == on_tick(stores[v], second)
             p == prefixes[v]
             u == next[v]
  <2>1. /\ t = ticked[v]
        /\ p = apply_events(t, before_votes(schedule[v]))
        /\ u = apply_events(p, from_votes(schedule[v]))
    BY <1>5, <1>6, <1>7, <1>8
  <2>2. NodeSound(s) /\ s.time = time
    BY <1>1 DEF NodesSound
  <2>3. /\ NodeSound(t) /\ t.time = second
        /\ t.blocks = s.blocks /\ t.payloads = s.payloads
        /\ t.latest_messages = s.latest_messages
        /\ t.equivocating_indices = s.equivocating_indices
    BY <1>9, <1>10, <2>2, TickKeepsSound
  <2>4. DeliverableList(before_votes(schedule[v])) /\ DeliverableList(from_votes(schedule[v]))
    BY <1>3, DividedEvents
  <2>5. current_slot + 1 \in Nat /\ current_slot + 1 <= FREE_SLOTS + 1
    BY <1>1, AdversaryAssumption
  <2> HIDE DEF t, p, u, s
  <2>6. NodeSound(p) /\ Grows(t, p)
    BY <1>9, <2>1, <2>3, <2>4, <2>5, ListKeepsSound DEF AdversaryScope, get_current_slot
  <2>7. p.time = second /\ get_current_slot(p) = current_slot + 1
    BY <1>9, <2>3, <2>6 DEF Grows, get_current_slot
  <2>8. NodeSound(u) /\ Grows(p, u)
    BY <2>1, <2>4, <2>5, <2>6, <2>7, ListKeepsSound DEF AdversaryScope
  <2>9. IsStore(t) /\ IsStore(p) /\ IsStore(u)
    BY <2>3, <2>6, <2>8 DEF NodeSound, Rooted
  <2>10. Grows(t, u)
    BY <2>6, <2>8, <2>9, GrowsFurther
  <2>11. u.time = second /\ Learns(s, u) /\ Learns(p, u)
    BY <2>3, <2>8, <2>10 DEF Grows, Learns
  <2> QED BY <2>1, <2>4, <2>6, <2>7, <2>8, <2>11 DEF p, u, s, t
<1>12. SlotBegins(order, schedule, prefixes, next)
  BY <1>2, <1>3, <1>7, <1>8, <1>9, <1>10, <1>11 DEF SlotBegins, second
<1> QED BY <1>12

LEMMA SlotKeepsSound ==
  ASSUME AdversaryScope, ExecutionSound, FreeSlot
  PROVE  ExecutionSound'
<1> DEFINE second == slot_start(current_slot + 1)
<1>1. /\ NodesSound /\ OwedSound /\ VotesSound /\ VotesCounted
      /\ time \in Nat /\ script \in DOMAIN SETTINGS
      /\ current_slot \in Nat /\ current_slot <= FREE_SLOTS
  BY SlotType DEF ExecutionSound, NodesSound, FreeSlot, current_slot
<1>2. PICK order, schedule, prefixes, next : SlotBegins(order, schedule, prefixes, next)
  BY SlotUnfolds
<1>3. /\ time' = second /\ script' = script /\ votes' = votes
      /\ stores' = next /\ owed' = observed(next)
      /\ broken' = broken \cup relay_failures(prefixes, next, schedule)
      /\ second \in Nat /\ slot_at(second) = current_slot + 1 /\ time <= second
  BY <1>2 DEF SlotBegins
<1>4. ASSUME NEW v \in Node
      PROVE  /\ DeliverableList(schedule[v])
             /\ NodeSound(prefixes[v]) /\ get_current_slot(prefixes[v]) = current_slot + 1
             /\ DeliverableList(from_votes(schedule[v]))
             /\ next[v] = apply_events(prefixes[v], from_votes(schedule[v]))
             /\ NodeSound(next[v]) /\ next[v].time = second /\ Learns(stores[v], next[v])
  BY <1>2 DEF SlotBegins
<1> HIDE DEF second
<1>5. current_slot' = slot_at(second)
  BY <1>3 DEF current_slot
<1>6. /\ NodesSound' /\ OwedSound' /\ VotesSound'
       /\ \A vote \in votes, v \in Node :
            vote.data.slot < current_slot /\ broken = {} => Counts(next[v], vote)
  <2>1. slot_at(second) <= FREE_SLOTS + 1
    BY <1>1, <1>3, AdversaryAssumption
  <2> QED BY <1>3, <1>4, <2>1, SecondKeepsVotes
<1>7. VotesCounted'
  <2>1. Node' = Node
    BY <1>3 DEF Node
  <2>2. SUFFICES ASSUME broken' = {}, NEW vote \in votes, NEW v \in Node,
                        vote.data.slot < current_slot + 1
                 PROVE  Counts(next[v], vote)
    BY <1>3, <1>5, <2>1 DEF VotesCounted
  <2>3. broken = {} /\ relay_failures(prefixes, next, schedule) = {}
    BY <1>3, <2>2
  <2>4. /\ owed.blocks \subseteq DOMAIN prefixes[v].blocks
        /\ owed.payloads \subseteq prefixes[v].payloads
        /\ \A other \in VotesOf(current_slot) :
             \E k \in DOMAIN schedule[v] : schedule[v][k] = vote_event(other)
    BY <2>3 DEF relay_failures
  <2>5. CASE vote.data.slot = current_slot
    <3>1. PICK j \in DOMAIN schedule[v] : schedule[v][j] = vote_event(vote)
      BY <2>4, <2>5 DEF VotesOf
    <3>2. PICK S : schedule[v] \in Seq(S)
      BY <1>4 DEF DeliverableList
    <3>3. PICK k \in DOMAIN from_votes(schedule[v]) :
            from_votes(schedule[v])[k] = vote_event(vote)
      <4> DEFINE given == schedule[v]
      <4>1. /\ given \in Seq(S) /\ j \in DOMAIN given /\ given[j] = vote_event(vote)
            /\ given[j].kind = "attestation"
        BY <3>1, <3>2 DEF vote_event, attestation_event
      <4> HIDE DEF given
      <4>2. \A l \in DOMAIN given : given[l].kind = "attestation" =>
              \E k \in DOMAIN from_votes(given) : from_votes(given)[k] = given[l]
        BY <4>1, ScheduleParts
      <4>3. \E k \in DOMAIN from_votes(given) : from_votes(given)[k] = vote_event(vote)
        BY <4>1, <4>2
      <4> QED BY <4>3 DEF given
    <3> DEFINE p == prefixes[v]
               events == from_votes(schedule[v])
    <3>4. /\ NodeSound(p) /\ get_current_slot(p) = current_slot + 1
          /\ DeliverableList(events) /\ next[v] = apply_events(p, events)
          /\ owed.blocks \subseteq DOMAIN p.blocks /\ owed.payloads \subseteq p.payloads
      BY <1>4, <2>4
    <3> HIDE DEF p, events
    <3>5. Counts(apply_events(p, events), vote)
      BY <2>5, <3>3, <3>4, LastVoteCounts DEF events
    <3> QED BY <3>4, <3>5
  <2>6. CASE vote.data.slot # current_slot
    <3>1. vote.data.slot \in Nat /\ vote.data.slot <= current_slot
      BY <1>1 DEF VotesSound, VoteSound, VoteShape, AttestationData
    <3> DEFINE cast_in == vote.data.slot
               now == current_slot
    <3>2. cast_in \in Nat /\ now \in Nat /\ cast_in <= now /\ cast_in # now
      BY <1>1, <2>6, <3>1
    <3> HIDE DEF cast_in, now
    <3>3. cast_in < now
      BY <3>2
    <3>4. vote.data.slot < current_slot
      BY <3>3 DEF cast_in, now
    <3> QED BY <1>6, <2>3, <3>4
  <2> QED BY <2>5, <2>6
<1> QED BY <1>6, <1>7 DEF ExecutionSound

-----------------------------------------------------------------------------
LEMMA ExecutionStaysSound ==
  ASSUME AdversaryScope, ExecutionSound, [AdversaryNext]_execution_vars
  PROVE  ExecutionSound'
<1>1. CASE FreeSlot
  BY <1>1, SlotKeepsSound
<1>2. CASE Release
  BY <1>2, ReleaseKeepsSound
<1>3. CASE FreeVotes
  BY <1>3, VotesKeepSound
<1>4. CASE UNCHANGED execution_vars
  <2>1. NodesSound'
    BY <1>4 DEF ExecutionSound, NodesSound, execution_vars, Node, NodeSound, MessagesCast,
                honest, Owner, current_slot
  <2>2. OwedSound'
    BY <1>4 DEF ExecutionSound, OwedSound, execution_vars, held_blocks, held_payloads, Node,
                current_slot
  <2>3. VotesSound'
    BY <1>4 DEF ExecutionSound, VotesSound, VoteSound, VoteShape, execution_vars, Node,
                honest, Owner, current_slot
  <2>4. VotesCounted'
    BY <1>4 DEF ExecutionSound, VotesCounted, execution_vars, Node, current_slot
  <2> QED BY <2>1, <2>2, <2>3, <2>4 DEF ExecutionSound
<1> QED BY <1>1, <1>2, <1>3, <1>4 DEF AdversaryNext

(* The invariant of an execution: every node's store stays sound, and each *)
(* honest vote is for a block and a payload that the network owes to every *)
(* node by the next slot (Store.onBlock, Store.onAttestation, broadcast).  *)
THEOREM ExecutionInvariant ==
  ASSUME AdversaryScope
  PROVE  AdversarySpec => []ExecutionSound
<1>1. ExecutionInit => ExecutionSound
  BY ExecutionStartsSound
<1>2. ExecutionSound /\ [AdversaryNext]_execution_vars => ExecutionSound'
  BY ExecutionStaysSound
<1> QED BY <1>1, <1>2, PTL DEF AdversarySpec

(* As long as the premises on the network hold, every node weighs every    *)
(* honest vote from the next slot on as it was cast, whatever blocks,      *)
(* payloads, evidence and votes the adversary shows to whom.               *)
THEOREM HonestVotesArrive ==
  ASSUME AdversaryScope
  PROVE  AdversarySpec => []HonestVotesCount
<1>1. AdversarySpec => []ExecutionSound
  BY ExecutionInvariant
<1>2. ExecutionSound => HonestVotesCount
  BY CountedVotes DEF ExecutionSound
<1> QED BY <1>1, <1>2, PTL

-----------------------------------------------------------------------------
(* The relay keeps the premises.  What one node accepted every other node  *)
(* accepts too, once it knows the parent and, for a child that builds on   *)
(* it, the parent's payload.  Three things could stop it, and the scope    *)
(* excludes them: a node that finalized another branch, on which the       *)
(* source makes an exception (PermanentBlockExclusion) and which an        *)
(* execution before the first finalization does not reach; a payload       *)
(* attestation in an accepted body that is not for the parent; and         *)
(* evidence that is valid in one state and not in another, excluded by the *)
(* static registry and the one fork (DeadlineAttesterSlashingRelay).       *)

RelayScope ==
  /\ \A state \in BeaconStates : state.finalized_checkpoint.epoch = 0
  /\ \A sb \in SIGNED_BLOCKS, state \in BeaconStates :
       state_transition(state, sb) # InvalidTransition =>
         \A k \in DOMAIN sb.message.payload_attestations :
           sb.message.payload_attestations[k].beacon_block_root = sb.message.parent_root
  /\ \A slashing \in SLASHINGS, state \in BeaconStates, other \in BeaconStates :
       \A attestation \in {slashing.attestation_1, slashing.attestation_2} :
         is_valid_indexed_attestation(state, attestation)
           => is_valid_indexed_attestation(other, attestation)

IsPtcMember(message) ==
  LET indices == ptc_indices(message.slot, message.validator_index)
  IN  indices # {} /\ indices \subseteq 0..PTC_SIZE-1

(* What on_block checked of a block, as far as it depends on the store.    *)
Imported(s, root) ==
  LET block == s.blocks[root]
      base == s.block_states[block.parent_root]
  IN  /\ is_parent_node_full(s, block) => block.parent_root \in s.payloads
      /\ s.block_states[root] # InvalidTransition
      /\ s.block_states[root] = state_transition(base, [root |-> root, message |-> block])
      /\ \A k \in DOMAIN block.payload_attestations :
           \/ block.payload_attestations[k].slot # base.slot
           \/ IsPtcMember(block.payload_attestations[k])

(* Evidence that some state, and so every state, finds valid.              *)
Convicts(event) ==
  /\ event \in released /\ event.kind = "attester_slashing"
  /\ is_slashable_attestation_data(event.slashing.attestation_1.data,
                                   event.slashing.attestation_2.data)
  /\ \E state \in BeaconStates :
       /\ is_valid_indexed_attestation(state, event.slashing.attestation_1)
       /\ is_valid_indexed_attestation(state, event.slashing.attestation_2)

Convicted(S) ==
  \A i \in S : \E event \in released :
    Convicts(event) /\ i \in slashed_by(event) /\ slashed_by(event) \subseteq S

Steady(s) ==
  /\ s.finalized_checkpoint.epoch = 0 /\ s.unrealized_finalized_checkpoint.epoch = 0
  /\ s.block_states[ANCHOR_BLOCK.root] = ANCHOR_STATE
  /\ \A root \in DOMAIN s.blocks \ {ANCHOR_BLOCK.root} : Imported(s, root)
  /\ Convicted(s.equivocating_indices)

(* A handler that imports no block.                                        *)
LEMMA SteadyWithoutImport ==
  ASSUME NEW s, Steady(s), NEW t, t.blocks = s.blocks, t.block_states = s.block_states,
         s.payloads \subseteq t.payloads,
         t.finalized_checkpoint.epoch = 0, t.unrealized_finalized_checkpoint.epoch = 0,
         Convicted(t.equivocating_indices)
  PROVE  Steady(t)
<1>1. ASSUME NEW root \in DOMAIN s.blocks \ {ANCHOR_BLOCK.root} PROVE Imported(t, root)
  <2>1. Imported(s, root)
    BY DEF Steady
  <2>2. is_parent_node_full(t, s.blocks[root]) <=> is_parent_node_full(s, s.blocks[root])
    BY DEF is_parent_node_full, get_parent_payload_status, block_at
  <2> QED BY <2>1, <2>2 DEF Imported
<1> QED BY <1>1 DEF Steady

LEMMA BlockKeepsSteady ==
  ASSUME RelayScope, NEW s, NodeSound(s), Steady(s),
         NEW sb \in SIGNED_BLOCKS, on_block_accepts(s, sb)
  PROVE  Steady(on_block(s, sb))
<1> DEFINE t == on_block(s, sb)
           state == post_state(s, sb)
           pulled == process_justification_and_finalization(state)
           parent == sb.message.parent_root
<1>1. Rooted(s) /\ IsStore(s) /\ TreeSound(s)
  BY DEF NodeSound, Rooted
<1>2. /\ sb.root \notin DOMAIN s.blocks /\ parent \in DOMAIN s.blocks
      /\ is_parent_node_full(s, sb.message) => parent \in s.payloads
      /\ t.blocks = put(s.blocks, sb.root, sb.message)
      /\ t.block_states = put(s.block_states, sb.root, state)
  BY <1>1, ImportedBlock
<1>3. t.payloads = s.payloads /\ t.equivocating_indices = s.equivocating_indices
  BY <1>1, OnBlockLeaves DEF SameVotes
<1>4. /\ state \in BeaconStates /\ pulled \in BeaconStates
      /\ state.finalized_checkpoint.epoch = 0 /\ pulled.finalized_checkpoint.epoch = 0
  BY <1>1, PostStateType DEF RelayScope
<1>5. t.finalized_checkpoint.epoch = 0 /\ t.unrealized_finalized_checkpoint.epoch = 0
  <2>1. /\ t.unrealized_finalized_checkpoint
             = Tracker!newer(s.unrealized_finalized_checkpoint, pulled.finalized_checkpoint)
        /\ \/ t.finalized_checkpoint
                = Tracker!newer(Tracker!newer(s.finalized_checkpoint, state.finalized_checkpoint),
                                pulled.finalized_checkpoint)
           \/ t.finalized_checkpoint
                = Tracker!newer(s.finalized_checkpoint, state.finalized_checkpoint)
    BY <1>1, OnBlockEffect
  <2> HIDE DEF t, state, pulled
  <2> QED BY <1>4, <2>1 DEF Tracker!newer, Steady
<1>6. /\ DOMAIN s.block_states = DOMAIN s.blocks
      /\ DOMAIN t.blocks = DOMAIN s.blocks \cup {sb.root}
      /\ \A root \in DOMAIN s.blocks :
           t.blocks[root] = s.blocks[root] /\ t.block_states[root] = s.block_states[root]
      /\ t.blocks[sb.root] = sb.message /\ t.block_states[sb.root] = state
  BY <1>1, <1>2 DEF put, IsStore, KeysAgree
<1>7. /\ state # InvalidTransition
      /\ state = state_transition(s.block_states[parent], [root |-> sb.root, message |-> sb.message])
  <2>1. sb = [root |-> sb.root, message |-> sb.message]
    BY MessagesAssumption DEF SignedBeaconBlock
  <2>2. state = state_transition(s.block_states[parent], sb)
    BY <1>2, <1>6 DEF post_state, block_state
  <2> QED BY <2>1, <2>2 DEF on_block_accepts, on_block_asserts
<1>8. \A k \in DOMAIN sb.message.payload_attestations :
        \/ sb.message.payload_attestations[k].slot # s.block_states[parent].slot
        \/ IsPtcMember(sb.message.payload_attestations[k])
  <2> DEFINE messages == sb.message.payload_attestations
             inserted == insert_block(s, sb)
  <2>1. /\ notify_ptc_messages_accepts(inserted, state, messages)
        /\ state.slot # 0
    <3>1. state.slot = sb.message.slot /\ s.block_states[parent].slot < sb.message.slot
      BY <1>1, ImportedBlock
    <3>2. s.block_states[parent].slot \in Nat
      BY <1>1, <1>2, BlockReads DEF BeaconState
    <3>3. sb.message.slot \in Nat
      BY MessagesAssumption DEF SignedBeaconBlock, BeaconBlock
    <3>4. notify_ptc_messages_accepts(inserted, state, messages)
      BY DEF on_block_accepts, on_block_asserts
    <3> HIDE DEF state, inserted, parent
    <3> QED BY <3>1, <3>2, <3>3, <3>4
  <2>2. block_state(inserted, parent) = s.block_states[parent]
    <3>1. inserted.block_states = put(s.block_states, sb.root, state)
      BY <1>1 DEF insert_block, IsStore, StoreOver
    <3> QED BY <1>2, <1>6, <3>1 DEF block_state, put
  <2> HIDE DEF inserted, state
  <2>3. \A k \in DOMAIN messages : messages[k].beacon_block_root = parent
    <3>1. s.block_states[parent] \in BeaconStates
      BY <1>1, <1>2, BlockReads
    <3>2. sb = [root |-> sb.root, message |-> sb.message]
      BY MessagesAssumption DEF SignedBeaconBlock
    <3>3. state_transition(s.block_states[parent], sb) # InvalidTransition
      BY <1>7, <3>2 DEF state
    <3> QED BY <3>1, <3>3 DEF RelayScope
  <2> QED BY <2>1, <2>2, <2>3
          DEF notify_ptc_messages_accepts, on_payload_attestation_message_accepts, IsPtcMember
<1> HIDE DEF t, state, pulled
<1>9. ASSUME NEW root \in DOMAIN s.blocks \ {ANCHOR_BLOCK.root} PROVE Imported(t, root)
  <2>1. Imported(s, root)
    BY DEF Steady
  <2>2. s.blocks[root].parent_root \in DOMAIN s.blocks
    BY <1>1 DEF TreeSound
  <2>3. is_parent_node_full(t, s.blocks[root]) <=> is_parent_node_full(s, s.blocks[root])
    BY <1>6, <2>2 DEF is_parent_node_full, get_parent_payload_status, block_at
  <2> QED BY <1>3, <1>6, <2>1, <2>2, <2>3 DEF Imported
<1>10. Imported(t, sb.root)
  <2>1. is_parent_node_full(t, sb.message) <=> is_parent_node_full(s, sb.message)
    BY <1>2, <1>6 DEF is_parent_node_full, get_parent_payload_status, block_at
  <2> QED BY <1>2, <1>3, <1>6, <1>7, <1>8, <2>1 DEF Imported
<1>11. t.block_states[ANCHOR_BLOCK.root] = ANCHOR_STATE
  BY <1>1, <1>6 DEF Steady, TreeSound
<1> QED BY <1>3, <1>5, <1>6, <1>9, <1>10, <1>11 DEF Steady, t

LEMMA SlashingKeepsSteady ==
  ASSUME NEW s, NodeSound(s), Steady(s),
         NEW event \in released, event.kind = "attester_slashing",
         on_attester_slashing_accepts(s, event.slashing)
  PROVE  Steady(on_attester_slashing(s, event.slashing))
<1> DEFINE t == on_attester_slashing(s, event.slashing)
           state == block_state(s, s.justified_checkpoint.root)
<1>1. Rooted(s) /\ IsStore(s) /\ Shaped(s)
  BY DEF NodeSound, Rooted, IsStore, Shaped
<1>2. SameTracked(s, t) /\ t.payloads = s.payloads
  BY <1>1, UntrackedFields, OnAttesterSlashingLeaves
<1>3. t.equivocating_indices = s.equivocating_indices \cup slashed_by(event)
  BY <1>1 DEF on_attester_slashing, slashed_by, Shaped, StoreOver
<1>4. state \in BeaconStates
  BY <1>1, CheckpointsAreIn, BlockReads
<1>5. Convicts(event)
  BY <1>4 DEF on_attester_slashing_accepts, Convicts
<1> HIDE DEF t
<1>6. Convicted(t.equivocating_indices)
  <2>1. SUFFICES ASSUME NEW i \in s.equivocating_indices \cup slashed_by(event)
                 PROVE  \E e \in released :
                          /\ Convicts(e) /\ i \in slashed_by(e)
                          /\ slashed_by(e) \subseteq s.equivocating_indices \cup slashed_by(event)
    BY <1>3 DEF Convicted
  <2>2. CASE i \in slashed_by(event)
    BY <1>5, <2>2
  <2>3. CASE i \in s.equivocating_indices
    BY <2>3 DEF Steady, Convicted
  <2> QED BY <2>1, <2>2, <2>3
<1> QED BY <1>2, <1>6, SteadyWithoutImport DEF SameTracked, Steady, t

LEMMA AttestationLeavesTracked ==
  ASSUME NEW s, IsStore(s), NEW a
  PROVE  SameTracked(s, on_attestation(s, a))
<1> DEFINE r == store_target_checkpoint_state(s, a.data.target)
<1>1. \/ r = s
      \/ \E states : r = [s EXCEPT !.checkpoint_states = states]
  BY DEF store_target_checkpoint_state, IsStore, StoreOver
<1>2. on_attestation(s, a) = update_latest_messages(r, a)
  BY DEF on_attestation
<1> HIDE DEF r
<1>3. SameTracked(s, r)
  BY <1>1 DEF IsStore, StoreOver, SameTracked
<1>4. SameTracked(r, update_latest_messages(r, a))
  <2>1. \E messages : update_latest_messages(r, a) = [r EXCEPT !.latest_messages = messages]
    BY DEF update_latest_messages
  <2> QED BY <1>1, <2>1 DEF IsStore, StoreOver, SameTracked
<1> QED BY <1>2, <1>3, <1>4 DEF SameTracked

LEMMA EventKeepsSteady ==
  ASSUME RelayScope, NEW s, NodeSound(s), Steady(s), NEW event, Deliverable(event)
  PROVE  Steady(apply_event(s, event))
<1>1. CASE ~ accepts(s, event)
  BY <1>1 DEF apply_event
<1> SUFFICES ASSUME accepts(s, event) PROVE Steady(apply_event(s, event))
  BY <1>1
<1> USE DEF NodeSound, Rooted
<1>a. Shaped(s) /\ IsStore(s)
  BY DEF IsStore, Shaped
<1>2. CASE event.kind = "block" /\ event.signed_block \in SIGNED_BLOCKS
  <2>1. on_block_accepts(s, event.signed_block)
    BY <1>2 DEF accepts
  <2>2. apply_event(s, event)
          = [head \in ForkChoiceNode |-> import_block(s, event.signed_block, head)][get_head(s)]
    BY <1>2 DEF apply_event
  <2>3. get_head(s) \in ForkChoiceNode
    BY HeadIsIn
  <2>4. apply_event(s, event) = on_block(s, event.signed_block)
    BY <2>2, <2>3 DEF on_block
  <2> QED BY <1>2, <2>1, <2>4, BlockKeepsSteady
<1>3. CASE event.kind = "execution_payload_envelope"
  <2>1. apply_event(s, event) = on_execution_payload_envelope(s, event.root)
    BY <1>3 DEF apply_event
  <2> DEFINE t == on_execution_payload_envelope(s, event.root)
  <2>2. SameTracked(s, t) /\ SameVotes(s, t) /\ s.payloads \subseteq t.payloads
    BY <1>a, UntrackedFields, OnEnvelopeLeaves
  <2> HIDE DEF t
  <2>3. Steady(t)
    BY <2>2, SteadyWithoutImport DEF SameTracked, SameVotes, Steady
  <2> QED BY <2>1, <2>3 DEF t
<1>4. CASE event.kind = "attester_slashing" /\ event \in released
  <2>1. apply_event(s, event) = on_attester_slashing(s, event.slashing)
    BY <1>4 DEF apply_event
  <2>2. on_attester_slashing_accepts(s, event.slashing)
    BY <1>4 DEF accepts
  <2> QED BY <1>4, <2>1, <2>2, SlashingKeepsSteady
<1>5. CASE event.kind = "attestation"
  <2>1. apply_event(s, event) = on_attestation(s, event.attestation)
    BY <1>5 DEF apply_event
  <2> DEFINE t == on_attestation(s, event.attestation)
  <2>2. SameTracked(s, t)
    BY <1>a, AttestationLeavesTracked
  <2>3. t.payloads = s.payloads /\ t.equivocating_indices = s.equivocating_indices
    BY <1>a, OnAttestationLeaves
  <2> HIDE DEF t
  <2>4. Steady(t)
    BY <2>2, <2>3, SteadyWithoutImport DEF SameTracked, Steady
  <2> QED BY <2>1, <2>4 DEF t
<1> QED BY <1>2, <1>3, <1>4, <1>5 DEF Deliverable

LEMMA TickKeepsSteady ==
  ASSUME NEW s, NodeSound(s), Steady(s), NEW second \in Nat, s.time <= second
  PROVE  Steady(on_tick(s, second))
<1> DEFINE t == on_tick(s, second)
<1>1. Rooted(s) /\ IsStore(s) /\ Shaped(s) /\ s.time \in Nat
  BY DEF NodeSound, Rooted, IsStore, Shaped, StoreOver
<1>2. get_current_slot(s) <= slot_at(second) /\ get_current_slot(s) \in Nat /\ slot_at(second) \in Nat
  BY <1>1, SlotMonotone, SlotType DEF get_current_slot
<1>3. t = Ticked(s, second)
  BY <1>1, <1>2, OnTickIsTicked
<1>4. /\ SameBlocks(s, t) /\ SameVotes(s, t) /\ t.payloads = s.payloads
      /\ t.unrealized_finalized_checkpoint = s.unrealized_finalized_checkpoint
      /\ \/ t.finalized_checkpoint = s.finalized_checkpoint
         \/ t.finalized_checkpoint = Tracker!newer(s.finalized_checkpoint,
                                                   s.unrealized_finalized_checkpoint)
  BY <1>1, <1>3, TickedFields
<1> HIDE DEF t
<1>5. t.finalized_checkpoint.epoch = 0
  BY <1>4 DEF Tracker!newer, Steady
<1> QED BY <1>4, <1>5, SteadyWithoutImport DEF SameBlocks, SameVotes, Steady, t

LEMMA StagesStaySteady ==
  ASSUME MessagesScope, RelayScope, NEW s, NodeSound(s), Steady(s),
         get_current_slot(s) <= FREE_SLOTS + 1,
         NEW S, NEW events \in Seq(S), \A k \in DOMAIN events : Deliverable(events[k]),
         NEW after, Stages(s, events, after)
  PROVE  \A k \in 0..Len(events) : Steady(after[k])
<1> DEFINE n == Len(events)
           bad == {k \in 0..n : ~ Steady(after[k])}
<1> SUFFICES ASSUME bad # {} PROVE FALSE
  OBVIOUS
<1>1. n \in Nat /\ DOMAIN events = 1..n
  OBVIOUS
<1>2. bad \subseteq Nat
  BY <1>1
<1>3. PICK m \in bad : \A k \in bad : m <= k
  BY <1>2, LeastNatural
<1>4. m \in 0..n /\ ~ Steady(after[m])
  OBVIOUS
<1>5. m # 0
  BY <1>4 DEF Stages
<1>6. m - 1 \in 0..n /\ m \in 1..n /\ m - 1 < m
  BY <1>1, <1>4, <1>5
<1>7. m - 1 \notin bad
  <2> HIDE DEF bad
  <2> QED BY <1>3, <1>6
<1>8. Steady(after[m - 1])
  BY <1>6, <1>7
<1>9. after[m] = apply_event(after[m - 1], events[m]) /\ Deliverable(events[m])
  BY <1>1, <1>6 DEF Stages
<1>10. NodeSound(after[m - 1])
  BY <1>6, StagesStaySound
<1> QED BY <1>4, <1>8, <1>9, <1>10, EventKeepsSteady

LEMMA ListKeepsSteady ==
  ASSUME MessagesScope, RelayScope, NEW s, NodeSound(s), Steady(s),
         get_current_slot(s) <= FREE_SLOTS + 1,
         NEW events, DeliverableList(events)
  PROVE  Steady(apply_events(s, events))
<1>1. PICK S : events \in Seq(S)
  BY DEF DeliverableList
<1>2. PICK after : Stages(s, events, after)
  BY <1>1, EventStages
<1> DEFINE n == Len(events)
<1>3. n \in Nat /\ n \in 0..n
  BY <1>1
<1>4. after[n] = apply_events(s, events)
  BY <1>2 DEF Stages
<1>5. \A k \in 0..n : Steady(after[k])
  BY <1>1, <1>2, StagesStaySteady DEF DeliverableList
<1> HIDE DEF n
<1> QED BY <1>3, <1>4, <1>5

-----------------------------------------------------------------------------
(* What one node accepted another accepts.                                 *)

LEMMA ParentsAgree ==
  ASSUME AnchoredScope, NEW s, Rooted(s), NEW t, Rooted(t),
         NEW root \in DOMAIN s.blocks, root \in DOMAIN t.blocks, root # ANCHOR_BLOCK.root
  PROVE  LET parent == s.blocks[root].parent_root
         IN  /\ t.blocks[root] = s.blocks[root]
             /\ parent \in DOMAIN s.blocks /\ parent \in DOMAIN t.blocks
             /\ t.blocks[parent] = s.blocks[parent]
             /\ s.blocks[parent].slot < s.blocks[root].slot
             /\ is_parent_node_full(t, s.blocks[root]) <=> is_parent_node_full(s, s.blocks[root])
<1> DEFINE parent == s.blocks[root].parent_root
<1>1. t.blocks[root] = s.blocks[root]
  BY BlocksAgree
<1>2. /\ parent \in DOMAIN s.blocks /\ parent \in DOMAIN t.blocks
      /\ s.blocks[parent].slot < s.blocks[root].slot
  BY <1>1 DEF Rooted, TreeSound
<1>3. t.blocks[parent] = s.blocks[parent]
  BY <1>2, BlocksAgree
<1> QED BY <1>1, <1>2, <1>3 DEF is_parent_node_full, get_parent_payload_status, block_at

LEMMA StatesAgree ==
  ASSUME AnchoredScope, NEW s, Rooted(s), Steady(s), NEW t, Rooted(t), Steady(t),
         NEW root \in DOMAIN s.blocks, root \in DOMAIN t.blocks
  PROVE  t.block_states[root] = s.block_states[root]
<1> DEFINE bad == {r \in DOMAIN s.blocks : /\ r \in DOMAIN t.blocks
                                           /\ t.block_states[r] # s.block_states[r]}
           ranks == {s.blocks[r].slot : r \in bad}
<1> SUFFICES ASSUME bad # {} PROVE FALSE
  OBVIOUS
<1>1. \A r \in DOMAIN s.blocks : s.blocks[r].slot \in Nat
  BY DEF Rooted, IsStore, StoreOver, BeaconBlock
<1>2. ranks \subseteq Nat /\ ranks # {}
  BY <1>1
<1>3. PICK m \in ranks : \A other \in ranks : m <= other
  BY <1>2, LeastNatural
<1>4. PICK r \in bad : m = s.blocks[r].slot
  OBVIOUS
<1>5. r \in DOMAIN s.blocks /\ r \in DOMAIN t.blocks /\ t.block_states[r] # s.block_states[r]
  OBVIOUS
<1>6. r # ANCHOR_BLOCK.root
  BY <1>5 DEF Steady
<1> DEFINE parent == s.blocks[r].parent_root
<1>7. /\ t.blocks[r] = s.blocks[r]
      /\ parent \in DOMAIN s.blocks /\ parent \in DOMAIN t.blocks
      /\ s.blocks[parent].slot < s.blocks[r].slot
  BY <1>5, <1>6, ParentsAgree
<1>8. t.block_states[parent] # s.block_states[parent]
  <2>1. Imported(s, r) /\ Imported(t, r)
    BY <1>5, <1>6 DEF Steady
  <2>2. /\ s.block_states[r] = state_transition(s.block_states[parent],
                                                [root |-> r, message |-> s.blocks[r]])
        /\ t.block_states[r] = state_transition(t.block_states[parent],
                                                [root |-> r, message |-> s.blocks[r]])
    BY <1>7, <2>1 DEF Imported
  <2> QED BY <1>5, <2>2
<1>9. s.blocks[parent].slot \in ranks
  BY <1>7, <1>8
<1>10. m <= s.blocks[parent].slot
  BY <1>3, <1>9
<1>11. s.blocks[parent].slot \in Nat /\ m \in Nat
  BY <1>1, <1>2, <1>7
<1> HIDE DEF bad, ranks, parent
<1> QED BY <1>4, <1>7, <1>10, <1>11

(* Before the first finalization every branch starts at the anchor.        *)
LEMMA EveryBranchIsFinal ==
  ASSUME AnchoredScope, NEW s, Rooted(s), Steady(s), NEW root \in DOMAIN s.blocks
  PROVE  s.finalized_checkpoint.root
           = get_checkpoint_block(s, root, s.finalized_checkpoint.epoch)
<1> DEFINE node == NewNode(root, PENDING)
           found == get_ancestor(s, node, 0)
<1>1. Tree(s) /\ IsStore(s) /\ Descending(s, 0)
  BY SoundIsTree, TreeDescends DEF Rooted
<1>2. root \in Root
  BY <1>1 DEF IsStore
<1>3. node \in ForkChoiceNode /\ node.root = root
  BY <1>2, PendingNode
<1> HIDE DEF node
<1>4. /\ get_ancestor(s, node, 0) \in ForkChoiceNode
      /\ block_slot(s, get_ancestor(s, node, 0).root) <= 0
  BY <1>1, <1>3, AncestorType
<1>5. found.root \in DOMAIN s.blocks
  BY <1>3, AnchorAtGenesis, AncestorsAgree
<1> HIDE DEF found
<1>6. found.root = ANCHOR_BLOCK.root
  <2>1. SUFFICES ASSUME found.root # ANCHOR_BLOCK.root PROVE FALSE
    OBVIOUS
  <2> DEFINE parent == s.blocks[found.root].parent_root
  <2>2. /\ parent \in DOMAIN s.blocks
        /\ s.blocks[parent].slot < s.blocks[found.root].slot
    BY <1>5, <2>1 DEF Rooted, TreeSound
  <2>3. s.blocks[parent].slot \in Nat /\ s.blocks[found.root].slot \in Nat
    BY <1>1, <1>5, <2>2 DEF IsStore, StoreOver, BeaconBlock
  <2>4. s.blocks[found.root].slot <= 0
    BY <1>4, <1>5 DEF block_slot, block_at, found
  <2> QED BY <2>2, <2>3, <2>4
<1>7. s.finalized_checkpoint.root = ANCHOR_BLOCK.root
  <2>1. OnKnownChain(s, s.finalized_checkpoint) /\ s.finalized_checkpoint.epoch = 0
    BY DEF Rooted, ChainSound, CheckpointsOnChains, Steady
  <2>2. get_current_epoch(ANCHOR_STATE) \in Nat
    BY AnchorEpochType
  <2> QED BY <2>1, <2>2 DEF OnKnownChain, anchor_checkpoint
<1>8. compute_start_slot_at_epoch(0) = 0
  BY ConfigAssumption DEF compute_start_slot_at_epoch
<1> QED BY <1>6, <1>7, <1>8 DEF Steady, get_checkpoint_block, found, node

LEMMA BlockIsAccepted ==
  ASSUME AnchoredScope, RelayScope,
         NEW w, NodeSound(w), Steady(w), NEW s, NodeSound(s), Steady(s),
         NEW root \in DOMAIN w.blocks \ {ANCHOR_BLOCK.root},
         root \notin DOMAIN s.blocks,
         NEW sb \in SIGNED_BLOCKS, sb.root = root, sb.message = w.blocks[root],
         w.blocks[root].slot <= get_current_slot(s),
         w.blocks[root].parent_root \in DOMAIN s.blocks,
         is_parent_node_full(w, w.blocks[root]) => w.blocks[root].parent_root \in s.payloads
  PROVE  on_block_accepts(s, sb)
<1> DEFINE block == w.blocks[root]
           parent == block.parent_root
           post == post_state(s, sb)
           finalized == s.finalized_checkpoint
           inserted == insert_block(s, sb)
<1>1. Rooted(s) /\ IsStore(s) /\ Rooted(w) /\ IsStore(w)
  BY DEF NodeSound, Rooted
<1>2. /\ parent \in DOMAIN w.blocks /\ w.blocks[parent].slot < block.slot
      /\ block.slot \in Nat /\ w.blocks[parent].slot \in Nat
      /\ w.block_states[root].slot = block.slot
      /\ Imported(w, root)
  <2>1. parent \in DOMAIN w.blocks /\ w.blocks[parent].slot < block.slot
    BY <1>1 DEF Rooted, TreeSound
  <2>2. w.block_states[root].slot = block.slot
    BY <1>1 DEF Rooted, TreeSound
  <2>3. block.slot \in Nat /\ w.blocks[parent].slot \in Nat
    BY <1>1, <2>1 DEF IsStore, StoreOver, BeaconBlock
  <2> QED BY <2>1, <2>2, <2>3 DEF Steady
<1>3. s.blocks[parent] = w.blocks[parent] /\ s.block_states[parent] = w.block_states[parent]
  BY <1>1, <1>2, BlocksAgree, StatesAgree
<1>4. sb = [root |-> root, message |-> block]
  BY MessagesAssumption DEF SignedBeaconBlock
<1>5. block_state(s, parent) = w.block_states[parent]
  BY <1>1, <1>3 DEF block_state, IsStore, KeysAgree
<1>6. post = w.block_states[root] /\ post # InvalidTransition
  BY <1>2, <1>4, <1>5 DEF post_state, Imported
<1>7. is_parent_node_full(s, block) => parent \in s.payloads
  BY <1>2, <1>3 DEF is_parent_node_full, get_parent_payload_status, block_at
<1>8. finalized.root = get_checkpoint_block(s, parent, finalized.epoch)
  BY <1>1, EveryBranchIsFinal
<1>9. block.slot > compute_start_slot_at_epoch(finalized.epoch)
  <2>1. compute_start_slot_at_epoch(finalized.epoch) = 0
    BY ConfigAssumption DEF Steady, compute_start_slot_at_epoch
  <2> HIDE DEF block, parent, finalized
  <2> QED BY <1>2, <2>1
<1>10. get_current_slot(s) >= block.slot
  <2>1. get_current_slot(s) \in Nat
    BY <1>1, SlotType DEF get_current_slot, IsStore, StoreOver
  <2> QED BY <1>2, <2>1
<1> HIDE DEF post
<1>11. notify_ptc_messages_accepts(inserted, post, block.payload_attestations)
  <2>1. /\ inserted.blocks = put(s.blocks, root, block)
        /\ inserted.block_states = put(s.block_states, root, post)
        /\ inserted.payload_timeliness_vote = put(s.payload_timeliness_vote, root, EmptyDict)
        /\ inserted.payload_data_availability_vote
             = put(s.payload_data_availability_vote, root, EmptyDict)
    BY <1>1 DEF insert_block, post, IsStore, StoreOver
  <2>2. /\ DOMAIN s.block_states = DOMAIN s.blocks
        /\ DOMAIN s.payload_timeliness_vote = DOMAIN s.blocks
        /\ DOMAIN s.payload_data_availability_vote = DOMAIN s.blocks
    BY <1>1 DEF IsStore, KeysAgree
  <2> HIDE DEF inserted
  <2>3. /\ parent \in DOMAIN inserted.blocks
        /\ parent \in DOMAIN inserted.payload_timeliness_vote
        /\ parent \in DOMAIN inserted.payload_data_availability_vote
        /\ block_state(inserted, parent) = w.block_states[parent]
    BY <1>3, <2>1, <2>2 DEF put, block_state
  <2>4. ASSUME NEW k \in DOMAIN block.payload_attestations
        PROVE  on_payload_attestation_message_accepts(inserted, block.payload_attestations[k], TRUE)
    <3> DEFINE message == block.payload_attestations[k]
    <3>1. message.beacon_block_root = parent
      <4>1. w.block_states[parent] \in BeaconStates
        BY <1>1, <1>2, BlockReads
      <4>2. state_transition(w.block_states[parent], sb) # InvalidTransition
        BY <1>2, <1>4 DEF Imported
      <4> QED BY <4>1, <4>2 DEF RelayScope
    <3>2. message.slot # w.block_states[parent].slot \/ IsPtcMember(message)
      BY <1>2 DEF Imported
    <3> HIDE DEF message
    <3> QED BY <2>3, <3>1, <3>2
            DEF on_payload_attestation_message_accepts, IsPtcMember, message
  <2> QED BY <2>4 DEF notify_ptc_messages_accepts
<1> QED BY <1>6, <1>7, <1>8, <1>9, <1>10, <1>11
        DEF on_block_accepts, on_block_asserts, is_payload_verified, post

LEMMA EvidenceIsAccepted ==
  ASSUME MessagesScope, RelayScope, NEW s, NodeSound(s),
         NEW event \in released, Convicts(event)
  PROVE  /\ on_attester_slashing_accepts(s, event.slashing)
         /\ slashed_by(event) \subseteq apply_event(s, event).equivocating_indices
<1> DEFINE state == block_state(s, s.justified_checkpoint.root)
           t == on_attester_slashing(s, event.slashing)
<1>1. Rooted(s) /\ IsStore(s) /\ Shaped(s)
  BY DEF NodeSound, Rooted, IsStore, Shaped
<1>2. state \in BeaconStates
  BY <1>1, CheckpointsAreIn, BlockReads
<1>3. event.slashing \in SLASHINGS
  BY DEF Convicts, MessagesScope
<1>4. on_attester_slashing_accepts(s, event.slashing)
  BY <1>2, <1>3 DEF Convicts, RelayScope, on_attester_slashing_accepts
<1>5. apply_event(s, event) = t
  BY <1>4 DEF apply_event, accepts, Convicts
<1>6. t.equivocating_indices = s.equivocating_indices \cup slashed_by(event)
  BY <1>1 DEF on_attester_slashing, slashed_by, Shaped, StoreOver
<1> HIDE DEF t
<1> QED BY <1>4, <1>5, <1>6

-----------------------------------------------------------------------------
(* What is owed is closed: the parents of owed blocks are owed, with their *)
(* payloads where the child builds on them, and owed evidence is that of   *)
(* messages with nothing in them that is not owed.                         *)

OwedClosed ==
  /\ owed.payloads \subseteq owed.blocks \cup {ANCHOR_BLOCK.root}
  /\ Convicted(owed.evidence)
  /\ \A root \in owed.blocks \ {ANCHOR_BLOCK.root} : \E v \in Node :
       LET block == stores[v].blocks[root]
       IN  /\ root \in DOMAIN stores[v].blocks
           /\ block.parent_root \in owed.blocks \cup {ANCHOR_BLOCK.root}
           /\ is_parent_node_full(stores[v], block) => block.parent_root \in owed.payloads

RelaySound == (\A v \in Node : Steady(stores[v])) /\ OwedClosed /\ broken = {}

LEMMA OwedParent ==
  ASSUME AnchoredScope, NodesSound, OwedClosed,
         NEW root \in owed.blocks \ {ANCHOR_BLOCK.root},
         NEW w \in Node, root \in DOMAIN stores[w].blocks
  PROVE  LET block == stores[w].blocks[root]
         IN  /\ block.parent_root \in owed.blocks \cup {ANCHOR_BLOCK.root}
             /\ is_parent_node_full(stores[w], block) => block.parent_root \in owed.payloads
<1>1. PICK v \in Node :
        /\ root \in DOMAIN stores[v].blocks
        /\ stores[v].blocks[root].parent_root \in owed.blocks \cup {ANCHOR_BLOCK.root}
        /\ is_parent_node_full(stores[v], stores[v].blocks[root])
             => stores[v].blocks[root].parent_root \in owed.payloads
  BY DEF OwedClosed
<1>2. Rooted(stores[v]) /\ Rooted(stores[w])
  BY DEF NodesSound, NodeSound
<1>3. /\ stores[w].blocks[root] = stores[v].blocks[root]
      /\ is_parent_node_full(stores[w], stores[v].blocks[root])
           <=> is_parent_node_full(stores[v], stores[v].blocks[root])
  BY <1>1, <1>2, ParentsAgree
<1> QED BY <1>1, <1>3

(* The relay brought the block or the payload.                             *)
Brought(event, s) ==
  IF event.kind = "block" THEN event.signed_block.root \in DOMAIN s.blocks
  ELSE event.root \in s.payloads

LEMMA BroughtStays ==
  ASSUME NEW event, NEW s, NEW t, Learns(s, t), Brought(event, s)
  PROVE  Brought(event, t)
BY DEF Brought, Learns

(* What an event of the relay needs comes before it.                       *)
LEMMA NeededBefore ==
  ASSUME AnchoredScope, NodesSound, OwedSound, NEW v \in Node, NEW order \in relay_orders(v),
         NEW k \in DOMAIN order,
         NEW event \in missing_blocks(v) \cup missing_payloads(v), is_needed(event, order[k])
  PROVE  \E j \in DOMAIN order : j < k /\ order[j] = event
<1> DEFINE S == missing_blocks(v) \cup missing_payloads(v)
<1>1. /\ order \in Seq(S)
      /\ \A e \in S : \E j \in DOMAIN order : order[j] = e
      /\ \A j, l \in DOMAIN order : j < l => ~ is_needed(order[l], order[j])
  BY RelayOrder
<1>2. order[k] \in S /\ event \in S
  BY <1>1
<1>3. PICK j \in DOMAIN order : order[j] = event
  BY <1>1
<1>4. ASSUME NEW e \in S PROVE ~ is_needed(e, e)
  <2>1. CASE e \in missing_blocks(v)
    <3>1. PICK root \in owed.blocks \ DOMAIN stores[v].blocks :
            e = block_event([root |-> root, message |-> held_block(root)])
      BY <2>1 DEF missing_blocks
    <3>2. /\ holder(root) \in Node /\ root \in DOMAIN stores[holder(root)].blocks
          /\ root # ANCHOR_BLOCK.root
      BY RelayedBlock
    <3> DEFINE w == stores[holder(root)]
               parent == w.blocks[root].parent_root
    <3>3. Rooted(w)
      BY <3>2 DEF NodesSound, NodeSound
    <3> HIDE DEF w
    <3>4. /\ parent \in DOMAIN w.blocks /\ w.blocks[parent].slot < w.blocks[root].slot
          /\ w.blocks[root].slot \in Nat /\ w.blocks[parent].slot \in Nat
      BY <3>2, <3>3 DEF Rooted, TreeSound, IsStore, StoreOver, BeaconBlock, w
    <3>5. parent # root
      BY <3>4
    <3> QED BY <3>1, <3>5 DEF is_needed, block_event, held_block, w
  <2>2. CASE e \in missing_payloads(v)
    BY <2>2 DEF missing_payloads, envelope_event, is_needed
  <2> QED BY <2>1, <2>2
<1> HIDE DEF S
<1>5. j # k
  BY <1>2, <1>3, <1>4
<1>6. ~ k < j
  BY <1>1, <1>3
<1>7. j \in Nat /\ k \in Nat
  BY <1>1
<1> QED BY <1>3, <1>5, <1>6, <1>7

LEMMA OwedBlockBrought ==
  ASSUME AnchoredScope, NodesSound, OwedSound, NEW v \in Node, NEW order \in relay_orders(v),
         NEW k \in DOMAIN order, NEW u, Rooted(u), Learns(stores[v], u),
         \A j \in DOMAIN order : j < k => Brought(order[j], u),
         NEW root \in owed.blocks \cup {ANCHOR_BLOCK.root},
         is_needed(block_event([root |-> root, message |-> held_block(root)]), order[k])
  PROVE  root \in DOMAIN u.blocks
<1>1. CASE root = ANCHOR_BLOCK.root
  BY <1>1 DEF Rooted, AnchorSound
<1>2. CASE root \in DOMAIN stores[v].blocks
  BY <1>2 DEF Learns
<1>3. CASE root \in owed.blocks \ DOMAIN stores[v].blocks
  <2> DEFINE event == block_event([root |-> root, message |-> held_block(root)])
  <2>1. event \in missing_blocks(v)
    BY <1>3 DEF missing_blocks
  <2>2. event.kind = "block" /\ event.signed_block.root = root
    BY DEF block_event
  <2> HIDE DEF event
  <2>3. PICK j \in DOMAIN order : j < k /\ order[j] = event
    BY <2>1, NeededBefore DEF event
  <2> QED BY <2>2, <2>3 DEF Brought
<1> QED BY <1>1, <1>2, <1>3

LEMMA OwedPayloadBrought ==
  ASSUME AnchoredScope, NodesSound, OwedSound, NEW v \in Node, NEW order \in relay_orders(v),
         NEW k \in DOMAIN order, NEW u, Learns(stores[v], u),
         \A j \in DOMAIN order : j < k => Brought(order[j], u),
         NEW root \in owed.payloads, is_needed(envelope_event(root), order[k])
  PROVE  root \in u.payloads
<1>1. CASE root \in stores[v].payloads
  BY <1>1 DEF Learns
<1>2. CASE root \notin stores[v].payloads
  <2>1. envelope_event(root) \in missing_payloads(v)
    BY <1>2 DEF missing_payloads
  <2>2. PICK j \in DOMAIN order : j < k /\ order[j] = envelope_event(root)
    BY <2>1, NeededBefore
  <2> QED BY <2>2 DEF Brought, envelope_event
<1> QED BY <1>1, <1>2

LEMMA RelayNext ==
  ASSUME AnchoredScope, MessagesScope, RelayScope, NodesSound, OwedSound, OwedClosed,
         \A w \in Node : Steady(stores[w]),
         NEW v \in Node, NEW order \in relay_orders(v), NEW k \in DOMAIN order,
         NEW u, NodeSound(u), Steady(u), Learns(stores[v], u),
         current_slot \in Nat, get_current_slot(u) = current_slot + 1,
         \A j \in DOMAIN order : j < k => Brought(order[j], u)
  PROVE  Brought(order[k], apply_event(u, order[k]))
<1> DEFINE S == missing_blocks(v) \cup missing_payloads(v)
<1>1. order \in Seq(S)
  BY RelayOrder
<1>2. order[k] \in S
  BY <1>1
<1>3. Rooted(u) /\ IsStore(u) /\ Shaped(u)
  BY DEF NodeSound, Rooted, IsStore, Shaped
<1>4. CASE order[k] \in missing_blocks(v)
  <2>1. PICK root \in owed.blocks \ DOMAIN stores[v].blocks :
          order[k] = block_event([root |-> root, message |-> held_block(root)])
    BY <1>4 DEF missing_blocks
  <2> DEFINE w == stores[holder(root)]
             sb == [root |-> root, message |-> held_block(root)]
             block == w.blocks[root]
             parent == block.parent_root
  <2>2. /\ holder(root) \in Node /\ root \in DOMAIN w.blocks
        /\ root # ANCHOR_BLOCK.root
        /\ sb \in SIGNED_BLOCKS
    BY RelayedBlock
  <2>3. NodeSound(w) /\ Rooted(w) /\ Steady(w) /\ w.time = time
    BY <2>2 DEF NodesSound, NodeSound
  <2>4. block = held_block(root)
    BY DEF held_block
  <2>5. /\ parent \in owed.blocks \cup {ANCHOR_BLOCK.root}
        /\ is_parent_node_full(w, block) => parent \in owed.payloads
    BY <2>2, OwedParent
  <2>6. parent \in DOMAIN u.blocks
    <3>1. is_needed(block_event([root |-> parent, message |-> held_block(parent)]), order[k])
      BY <2>1, <2>4 DEF is_needed, block_event
    <3> HIDE DEF parent
    <3> QED BY <1>3, <2>5, <3>1, OwedBlockBrought
  <2>7. is_parent_node_full(w, block) => parent \in u.payloads
    <3>1. SUFFICES ASSUME is_parent_node_full(w, block) PROVE parent \in u.payloads
      OBVIOUS
    <3>2. is_needed(envelope_event(parent), order[k])
      BY <2>1, <2>4, <3>1 DEF is_needed, block_event, envelope_event
    <3> HIDE DEF parent
    <3> QED BY <2>5, <3>1, <3>2, OwedPayloadBrought
  <2>8. block.slot <= get_current_slot(u)
    <3>1. block.slot <= get_current_slot(w) /\ get_current_slot(w) = current_slot
      BY <2>2, <2>3 DEF NodeSound, get_current_slot, current_slot
    <3>2. block.slot \in Nat
      BY <2>2, <2>3 DEF Rooted, IsStore, StoreOver, BeaconBlock
    <3> HIDE DEF block
    <3> QED BY <3>1, <3>2
  <2>9. CASE root \in DOMAIN u.blocks
    <3>1. ~ on_block_accepts(u, sb)
      BY <2>9 DEF on_block_accepts
    <3>2. ~ accepts(u, order[k])
      BY <2>1, <3>1 DEF accepts, block_event
    <3> QED BY <2>1, <2>9, <3>2 DEF apply_event, Brought, block_event
  <2>10. CASE root \notin DOMAIN u.blocks
    <3>1. on_block_accepts(u, sb)
      <4>1. sb.root = root /\ sb.message = w.blocks[root]
        BY <2>4
      <4>2. root \in DOMAIN w.blocks \ {ANCHOR_BLOCK.root}
        BY <2>2
      <4> HIDE DEF w, sb
      <4> QED BY <2>2, <2>3, <2>6, <2>7, <2>8, <2>10, <4>1, <4>2, BlockIsAccepted
    <3>2. order[k].kind = "block" /\ order[k].signed_block = sb
      BY <2>1 DEF block_event
    <3> HIDE DEF sb
    <3>3. apply_event(u, order[k])
            = [head \in ForkChoiceNode |-> import_block(u, sb, head)][get_head(u)]
      BY <3>1, <3>2 DEF apply_event, accepts
    <3>4. get_head(u) \in ForkChoiceNode
      BY <1>3, HeadIsIn
    <3>5. apply_event(u, order[k]) = on_block(u, sb)
      BY <3>3, <3>4 DEF on_block
    <3>6. on_block(u, sb).blocks = put(u.blocks, sb.root, sb.message)
      BY <1>3, <2>2, <3>1, ImportedBlock
    <3> QED BY <3>2, <3>5, <3>6 DEF Brought, put
  <2> QED BY <2>9, <2>10
<1>5. CASE order[k] \in missing_payloads(v)
  <2>1. PICK root \in owed.payloads \ stores[v].payloads : order[k] = envelope_event(root)
    BY <1>5 DEF missing_payloads
  <2>2. is_needed(block_event([root |-> root, message |-> held_block(root)]), order[k])
    BY <2>1 DEF is_needed, block_event, envelope_event
  <2>3. root \in DOMAIN u.blocks
    BY <1>3, <2>1, <2>2, OwedBlockBrought DEF OwedClosed
  <2>4. apply_event(u, order[k]) = on_execution_payload_envelope(u, root)
    BY <2>1, <2>3 DEF apply_event, accepts, envelope_event, on_execution_payload_envelope_accepts
  <2>5. on_execution_payload_envelope(u, root).payloads = u.payloads \cup {root}
    BY <1>3, OnEnvelopeLeaves
  <2> QED BY <2>1, <2>4, <2>5 DEF Brought, envelope_event
<1> QED BY <1>2, <1>4, <1>5

(* A second that begins with the relay.                                    *)
LEMMA RelayHandled ==
  ASSUME AnchoredScope, MessagesScope, RelayScope, NodesSound, OwedSound, OwedClosed,
         \A w \in Node : Steady(stores[w]),
         NEW v \in Node, NEW order \in relay_orders(v),
         NEW s, NodeSound(s), Steady(s), Learns(stores[v], s),
         current_slot \in Nat, current_slot <= FREE_SLOTS, get_current_slot(s) = current_slot + 1,
         NEW events, DeliverableList(events),
         Len(relay_of(v, order)) <= Len(events),
         \A k \in 1..Len(relay_of(v, order)) : events[k] = relay_of(v, order)[k]
  PROVE  LET t == apply_events(s, events)
         IN  /\ owed.blocks \subseteq DOMAIN t.blocks
             /\ owed.payloads \subseteq t.payloads
             /\ owed.evidence \subseteq t.equivocating_indices
<1> DEFINE S == missing_blocks(v) \cup missing_payloads(v)
           evidence == SetToSeq(missing_evidence(v))
           n == Len(events)
           m == Len(order)
           p == Len(evidence)
           t == apply_events(s, events)
<1>1. /\ order \in Seq(S)
      /\ \A event \in S : \E k \in DOMAIN order : order[k] = event
  BY RelayOrder
<1>2. /\ evidence \in Seq(missing_evidence(v))
      /\ \A x \in missing_evidence(v) : \E k \in DOMAIN evidence : evidence[k] = x
  BY MissingIsFinite, SetListed
<1> HIDE DEF S, evidence
<1>3. m \in Nat /\ p \in Nat /\ DOMAIN order = 1..m /\ DOMAIN evidence = 1..p
  BY <1>1, <1>2
<1>4. /\ Len(order \o evidence) = m + p
      /\ \A k \in 1..(m + p) : (order \o evidence)[k] = IF k <= m THEN order[k] ELSE evidence[k - m]
  <2>1. order \in Seq(S \cup missing_evidence(v)) /\ evidence \in Seq(S \cup missing_evidence(v))
    BY <1>1, <1>2
  <2> QED BY <2>1, ConcatProperties
<1>5. relay_of(v, order) = order \o evidence
  BY DEF relay_of, evidence
<1>6. PICK T : events \in Seq(T)
  BY DEF DeliverableList
<1>7. n \in Nat /\ m + p <= n /\ DOMAIN events = 1..n
  BY <1>4, <1>5, <1>6
<1>8. \A k \in 1..(m + p) : events[k] = IF k <= m THEN order[k] ELSE evidence[k - m]
  BY <1>4, <1>5
<1>9. PICK after : Stages(s, events, after)
  BY <1>6, EventStages
<1>10. /\ after[0] = s /\ after[n] = t
       /\ \A k \in 1..n : after[k] = apply_event(after[k - 1], events[k])
  BY <1>9 DEF Stages
<1>11. get_current_slot(s) <= FREE_SLOTS + 1
  BY AdversaryAssumption
<1>12. \A k \in 0..n :
         /\ NodeSound(after[k]) /\ Steady(after[k])
         /\ \A j \in 0..k : Grows(after[j], after[k])
  BY <1>6, <1>9, <1>11, StagesStaySound, StagesStaySteady DEF DeliverableList
<1> HIDE DEF n, m, p, t
<1>13. \A k \in 0..n : Learns(stores[v], after[k]) /\ get_current_slot(after[k]) = current_slot + 1
  <2>1. SUFFICES ASSUME NEW k \in 0..n
                 PROVE  /\ Learns(stores[v], after[k])
                        /\ get_current_slot(after[k]) = current_slot + 1
    OBVIOUS
  <2>2. Grows(s, after[k]) /\ after[k].time = s.time
    <3>1. 0 \in 0..k
      BY <1>7
    <3> QED BY <1>10, <1>12, <3>1 DEF Grows
  <2> DEFINE r == stores[v]
  <2>4. Learns(r, after[k])
    <3>1. IsStore(r) /\ IsStore(s) /\ IsStore(after[k])
      BY <1>12 DEF NodesSound, NodeSound, Rooted
    <3> QED BY <2>2, <3>1, LearnsFurther DEF Grows
  <2> QED BY <2>2, <2>4 DEF get_current_slot
<1>14. \A k \in 1..m : Brought(order[k], after[k])
  <2> DEFINE bad == {k \in 1..m : ~ Brought(order[k], after[k])}
  <2> SUFFICES ASSUME bad # {} PROVE FALSE
    OBVIOUS
  <2>1. PICK k \in bad : \A j \in bad : k <= j
    <3>1. bad \subseteq Nat
      BY <1>3
    <3> QED BY <3>1, LeastNatural
  <2>2. k \in 1..m /\ ~ Brought(order[k], after[k])
    OBVIOUS
  <2>3. k \in 1..n /\ k - 1 \in 0..n /\ k \in 1..(m + p) /\ k <= m
    BY <1>3, <1>7, <2>2
  <2> DEFINE u == after[k - 1]
  <2>4. \A j \in DOMAIN order : j < k => Brought(order[j], u)
    <3>1. SUFFICES ASSUME NEW j \in 1..m, j < k PROVE Brought(order[j], u)
      BY <1>3
    <3>2. j \notin bad
      <4> HIDE DEF bad
      <4> QED BY <1>3, <2>1, <2>2, <3>1
    <3>3. Brought(order[j], after[j])
      BY <3>2
    <3>4. j \in 0..(k - 1)
      BY <1>3, <2>2, <3>1
    <3>5. Learns(after[j], u)
      BY <1>12, <2>3, <3>4 DEF Grows
    <3> QED BY <3>3, <3>5, BroughtStays
  <2>5. after[k] = apply_event(u, order[k])
    BY <1>8, <1>10, <2>3
  <2>6. NodeSound(u) /\ Steady(u) /\ Learns(stores[v], u) /\ get_current_slot(u) = current_slot + 1
    BY <1>12, <1>13, <2>3
  <2> HIDE DEF u
  <2>7. Brought(order[k], apply_event(u, order[k]))
    BY <1>3, <2>2, <2>4, <2>6, RelayNext
  <2> QED BY <2>2, <2>5, <2>7
<1>15. Learns(stores[v], t)
  BY <1>7, <1>10, <1>13
<1>16. ASSUME NEW event \in S PROVE Brought(event, t)
  <2>1. PICK k \in 1..m : order[k] = event
    BY <1>1, <1>3
  <2>2. k \in 0..n /\ n \in 0..n
    BY <1>3, <1>7
  <2>3. Learns(after[k], t)
    BY <1>10, <1>12, <2>2 DEF Grows
  <2> QED BY <1>14, <2>1, <2>3, BroughtStays
<1>17. ASSUME NEW root \in owed.blocks PROVE root \in DOMAIN t.blocks
  <2>1. CASE root \in DOMAIN stores[v].blocks
    BY <1>15, <2>1 DEF Learns
  <2>2. CASE root \notin DOMAIN stores[v].blocks
    <3>1. block_event([root |-> root, message |-> held_block(root)]) \in S
      BY <2>2 DEF S, missing_blocks
    <3> QED BY <1>16, <3>1 DEF Brought, block_event
  <2> QED BY <2>1, <2>2
<1>18. ASSUME NEW root \in owed.payloads PROVE root \in t.payloads
  <2>1. CASE root \in stores[v].payloads
    BY <1>15, <2>1 DEF Learns
  <2>2. CASE root \notin stores[v].payloads
    <3>1. envelope_event(root) \in S
      BY <2>2 DEF S, missing_payloads
    <3> QED BY <1>16, <3>1 DEF Brought, envelope_event
  <2> QED BY <2>1, <2>2
<1>19. ASSUME NEW i \in owed.evidence PROVE i \in t.equivocating_indices
  <2>1. PICK event \in released :
          Convicts(event) /\ i \in slashed_by(event) /\ slashed_by(event) \subseteq owed.evidence
    BY DEF OwedClosed, Convicted
  <2>2. CASE slashed_by(event) \subseteq stores[v].equivocating_indices
    BY <1>15, <2>1, <2>2 DEF Learns
  <2>3. CASE ~ slashed_by(event) \subseteq stores[v].equivocating_indices
    <3>1. event \in missing_evidence(v)
      BY <2>1, <2>3 DEF missing_evidence, Convicts
    <3>2. PICK k \in 1..p : evidence[k] = event
      BY <1>2, <1>3, <3>1
    <3> DEFINE l == m + k
    <3>3. /\ l \in 1..(m + p) /\ l \in 1..n /\ l - 1 \in 0..n /\ l \in 0..n /\ n \in 0..n
          /\ ~ l <= m /\ l - m = k
      BY <1>3, <1>7
    <3>4. events[l] = event
      BY <1>8, <3>2, <3>3
    <3> HIDE DEF l
    <3>5. after[l] = apply_event(after[l - 1], event)
      BY <1>10, <3>3, <3>4
    <3>6. NodeSound(after[l - 1])
      BY <1>12, <3>3
    <3>7. slashed_by(event) \subseteq after[l].equivocating_indices
      BY <2>1, <3>5, <3>6, EvidenceIsAccepted
    <3>8. Learns(after[l], t)
      BY <1>10, <1>12, <3>3 DEF Grows
    <3> QED BY <2>1, <3>7, <3>8 DEF Learns
  <2> QED BY <2>2, <2>3
<1> QED BY <1>17, <1>18, <1>19 DEF t

-----------------------------------------------------------------------------
(* The relay, and every vote of the last slot, is in the schedule, the     *)
(* relay before the first vote.                                            *)

LEMMA VotesBegin ==
  ASSUME NEW S, NEW events \in Seq(S)
  PROVE  /\ Len(before_votes(events)) = votes_start(events)
         /\ \A k \in 1..votes_start(events) : before_votes(events)[k] = events[k]
<1> DEFINE n == Len(events)
           m == votes_start(events)
<1>1. n \in Nat /\ (\A k \in 1..n : events[k] \in S) /\ m \in 0..n
  BY VotesStart
<1>2. before_votes(events) = SubSeq(events, 1, m)
  BY DEF before_votes
<1> HIDE DEF n, m
<1>3. 1 \in Int /\ m \in Int /\ \A i \in 1..m : events[i] \in S
  BY <1>1
<1>4. /\ Len(SubSeq(events, 1, m)) = m
      /\ \A i \in 1..m : SubSeq(events, 1, m)[i] = events[i]
  BY <1>1, <1>3, SubSeqProperties
<1> QED BY <1>2, <1>4 DEF m

LEMMA RelayKinds ==
  ASSUME NodesSound, OwedSound, NEW v \in Node, NEW order \in relay_orders(v)
  PROVE  /\ relay_of(v, order) \in Seq(missing_blocks(v) \cup missing_payloads(v)
                                         \cup missing_evidence(v))
         /\ \A k \in DOMAIN relay_of(v, order) : relay_of(v, order)[k].kind # "attestation"
<1> DEFINE S == missing_blocks(v) \cup missing_payloads(v) \cup missing_evidence(v)
           evidence == SetToSeq(missing_evidence(v))
<1>1. order \in Seq(S)
  <2>1. order \in Seq(missing_blocks(v) \cup missing_payloads(v))
    BY RelayOrder
  <2> QED BY <2>1
<1>2. evidence \in Seq(S)
  <2>1. evidence \in Seq(missing_evidence(v))
    BY MissingIsFinite, SetListed
  <2> HIDE DEF evidence
  <2> QED BY <2>1
<1>3. \A event \in S : event.kind # "attestation"
  BY DEF missing_blocks, missing_payloads, missing_evidence, block_event, envelope_event
<1>4. relay_of(v, order) = order \o evidence
  BY DEF relay_of
<1> HIDE DEF S, evidence
<1>5. relay_of(v, order) \in Seq(S)
  BY <1>1, <1>2, <1>4
<1> QED BY <1>3, <1>5 DEF S

LEMMA RelayComesFirst ==
  ASSUME NodesSound, OwedSound, NEW v \in Node, NEW order \in relay_orders(v),
         NEW T, NEW rest \in Seq(T)
  PROVE  LET events == before_votes(relay_of(v, order) \o rest)
         IN  /\ Len(relay_of(v, order)) <= Len(events)
             /\ \A k \in 1..Len(relay_of(v, order)) : events[k] = relay_of(v, order)[k]
<1> DEFINE S == missing_blocks(v) \cup missing_payloads(v) \cup missing_evidence(v) \cup T
           relay == relay_of(v, order)
           events == relay \o rest
           m == Len(relay)
           n == Len(rest)
           start == votes_start(events)
<1>1. relay \in Seq(S) /\ rest \in Seq(S)
  <2>1. relay \in Seq(missing_blocks(v) \cup missing_payloads(v) \cup missing_evidence(v))
    BY RelayKinds
  <2> HIDE DEF relay
  <2> QED BY <2>1
<1>2. \A k \in DOMAIN relay : relay[k].kind # "attestation"
  BY RelayKinds
<1> HIDE DEF S, relay
<1>3. /\ m \in Nat /\ n \in Nat /\ DOMAIN relay = 1..m
      /\ events \in Seq(S) /\ Len(events) = m + n
      /\ \A k \in 1..(m + n) : events[k] = IF k <= m THEN relay[k] ELSE rest[k - m]
  BY <1>1, ConcatProperties
<1> HIDE DEF events
<1>4. /\ start \in 0..(m + n)
      /\ start = m + n \/ events[start + 1].kind = "attestation"
  BY <1>3, VotesStart
<1>5. /\ Len(before_votes(events)) = start
      /\ \A k \in 1..start : before_votes(events)[k] = events[k]
  BY <1>3, VotesBegin
<1> HIDE DEF m, n, start
<1>6. m <= start
  <2>1. SUFFICES ASSUME ~ m <= start PROVE FALSE
    OBVIOUS
  <2>2. start + 1 \in 1..m /\ start + 1 \in 1..(m + n) /\ start + 1 <= m /\ start # m + n
    BY <1>3, <1>4, <2>1
  <2>3. events[start + 1] = relay[start + 1]
    BY <1>3, <2>2
  <2> QED BY <1>2, <1>3, <1>4, <2>2, <2>3
<1>7. \A k \in 1..m : before_votes(events)[k] = relay[k]
  <2>1. \A k \in 1..m : k \in 1..start /\ k \in 1..(m + n) /\ k <= m
    BY <1>3, <1>4, <1>6
  <2> QED BY <1>3, <1>5, <2>1
<1> QED BY <1>5, <1>6, <1>7 DEF m, relay, events

LEMMA VotesDelivered ==
  ASSUME VotesSound, NEW S, NEW relay \in Seq(S), NEW T, NEW rest \in Seq(T),
         NEW vote \in VotesOf(current_slot)
  PROVE  \E k \in DOMAIN (relay \o votes_of_last_slot \o rest) :
           (relay \o votes_of_last_slot \o rest)[k] = vote_event(vote)
<1> DEFINE sequence == SetToSeq(VotesOf(current_slot))
           cast == votes_of_last_slot
<1>1. /\ sequence \in Seq(VotesOf(current_slot))
      /\ \E k \in DOMAIN sequence : sequence[k] = vote
  <2>1. IsFiniteSet(VotesOf(current_slot))
    BY FS_Subset DEF VotesSound, VotesOf
  <2> QED BY <2>1, SetListed
<1>2. cast = [k \in DOMAIN sequence |-> vote_event(sequence[k])]
  BY DEF votes_of_last_slot
<1>3. PICK l \in DOMAIN cast : cast[l] = vote_event(vote)
  <2> HIDE DEF sequence, cast
  <2> QED BY <1>1, <1>2
<1>4. PICK U : cast \in Seq(U)
  BY VotesAreDeliverable DEF DeliverableList
<1> HIDE DEF sequence, cast
<1> DEFINE W == S \cup T \cup U
<1>5. relay \in Seq(W) /\ cast \in Seq(W) /\ rest \in Seq(W)
  BY <1>4
<1> HIDE DEF W
<1> DEFINE m == Len(relay)
           n == Len(cast)
           p == Len(rest)
           front == relay \o cast
<1>6. /\ m \in Nat /\ n \in Nat /\ p \in Nat /\ DOMAIN cast = 1..n
      /\ front \in Seq(W) /\ Len(front) = m + n
      /\ \A k \in 1..(m + n) : front[k] = IF k <= m THEN relay[k] ELSE cast[k - m]
  BY <1>5, ConcatProperties
<1> HIDE DEF front
<1>7. /\ front \o rest \in Seq(W) /\ Len(front \o rest) = m + n + p
      /\ \A k \in 1..(m + n + p) :
           (front \o rest)[k] = IF k <= m + n THEN front[k] ELSE rest[k - (m + n)]
  <2>1. /\ front \o rest \in Seq(W) /\ Len(front \o rest) = Len(front) + Len(rest)
        /\ \A k \in 1..(Len(front) + Len(rest)) :
             (front \o rest)[k] = IF k <= Len(front) THEN front[k] ELSE rest[k - Len(front)]
    <3>1. front \in Seq(W) /\ rest \in Seq(W)
      BY <1>5, <1>6
    <3> QED BY <3>1, ConcatProperties
  <2>2. Len(front) = m + n /\ Len(rest) = p
    BY <1>6
  <2> QED BY <2>1, <2>2
<1> HIDE DEF m, n, p
<1>8. /\ m + l \in 1..(m + n) /\ m + l \in 1..(m + n + p) /\ m + l <= m + n
      /\ ~ m + l <= m /\ (m + l) - m = l
  BY <1>3, <1>6
<1>9. (front \o rest)[m + l] = vote_event(vote)
  BY <1>3, <1>6, <1>7, <1>8
<1>10. m + l \in DOMAIN (front \o rest)
  BY <1>7, <1>8
<1> QED BY <1>9, <1>10 DEF front, cast

-----------------------------------------------------------------------------
(* What is owed stays closed: what a node holds at a deadline it accepted, *)
(* so it holds what that depends on.                                       *)
LEMMA ClosedStays ==
  ASSUME AnchoredScope, NodesSound, OwedClosed, script' = script, NEW next, stores' = next,
         \A v \in Node : NodeSound(next[v]) /\ Steady(next[v]) /\ Learns(stores[v], next[v]),
         owed' = observed(next) \/ owed' = owed
  PROVE  OwedClosed'
<1> DEFINE Kept(root, o) ==
             \E v \in Node :
               /\ root \in DOMAIN next[v].blocks
               /\ next[v].blocks[root].parent_root \in o.blocks \cup {ANCHOR_BLOCK.root}
               /\ is_parent_node_full(next[v], next[v].blocks[root])
                    => next[v].blocks[root].parent_root \in o.payloads
<1>1. Node' = Node
  BY DEF Node
<1>2. \A v \in Node : Rooted(stores[v]) /\ Rooted(next[v]) /\ IsStore(next[v])
  BY DEF NodesSound, NodeSound, Rooted
<1>3. /\ owed.blocks \subseteq owed'.blocks /\ owed.payloads \subseteq owed'.payloads
      /\ \/ owed' = owed
         \/ /\ owed'.blocks = owed.blocks \cup held_blocks(next)
            /\ owed'.payloads = owed.payloads \cup held_payloads(next)
            /\ owed'.evidence = owed.evidence \cup held_evidence(next)
  BY DEF observed
<1>4. ASSUME NEW root \in owed.blocks \ {ANCHOR_BLOCK.root} PROVE Kept(root, owed')
  <2>1. PICK v \in Node :
          /\ root \in DOMAIN stores[v].blocks
          /\ stores[v].blocks[root].parent_root \in owed.blocks \cup {ANCHOR_BLOCK.root}
          /\ is_parent_node_full(stores[v], stores[v].blocks[root])
               => stores[v].blocks[root].parent_root \in owed.payloads
    BY DEF OwedClosed
  <2> DEFINE s == stores[v]
             t == next[v]
  <2>2. root \in DOMAIN s.blocks /\ root \in DOMAIN t.blocks /\ Rooted(s) /\ Rooted(t)
    BY <1>2, <2>1 DEF Learns
  <2> HIDE DEF s, t
  <2>3. /\ t.blocks[root] = s.blocks[root]
        /\ is_parent_node_full(t, s.blocks[root]) <=> is_parent_node_full(s, s.blocks[root])
    BY <2>2, ParentsAgree
  <2> QED BY <1>3, <2>1, <2>2, <2>3 DEF s, t
<1>5. ASSUME owed' # owed, NEW root \in held_blocks(next) \ {ANCHOR_BLOCK.root}
      PROVE  Kept(root, owed')
  <2>1. PICK v \in Node : root \in DOMAIN next[v].blocks
    BY DEF held_blocks
  <2>2. next[v].blocks[root].parent_root \in DOMAIN next[v].blocks
    BY <1>2, <2>1 DEF Rooted, TreeSound
  <2>3. is_parent_node_full(next[v], next[v].blocks[root])
          => next[v].blocks[root].parent_root \in next[v].payloads
    BY <2>1 DEF Steady, Imported
  <2> QED BY <1>3, <1>5, <2>1, <2>2, <2>3 DEF held_blocks, held_payloads
<1>6. \A root \in owed'.blocks \ {ANCHOR_BLOCK.root} : Kept(root, owed')
  BY <1>3, <1>4, <1>5
<1>7. owed'.payloads \subseteq owed'.blocks \cup {ANCHOR_BLOCK.root}
  <2>1. held_payloads(next) \subseteq held_blocks(next)
    BY <1>2 DEF held_payloads, held_blocks, IsStore, KeysAgree
  <2> QED BY <1>3, <2>1 DEF OwedClosed
<1>8. Convicted(owed'.evidence)
  <2>1. CASE owed' = owed
    BY <2>1 DEF OwedClosed
  <2>2. CASE owed' # owed
    <3>1. owed'.evidence = owed.evidence \cup held_evidence(next)
      BY <1>3, <2>2
    <3> DEFINE all == owed'.evidence
    <3>2. ASSUME NEW i \in owed.evidence
          PROVE  \E event \in released :
                   Convicts(event) /\ i \in slashed_by(event) /\ slashed_by(event) \subseteq all
      BY <3>1 DEF OwedClosed, Convicted
    <3>3. ASSUME NEW i \in held_evidence(next)
          PROVE  \E event \in released :
                   Convicts(event) /\ i \in slashed_by(event) /\ slashed_by(event) \subseteq all
      <4>1. PICK v \in Node : i \in next[v].equivocating_indices
        BY DEF held_evidence
      <4>2. next[v].equivocating_indices \subseteq all
        BY <3>1 DEF held_evidence
      <4> QED BY <4>1, <4>2 DEF Steady, Convicted
    <3> QED BY <3>1, <3>2, <3>3 DEF Convicted
  <2> QED BY <2>1, <2>2
<1> QED BY <1>1, <1>6, <1>7, <1>8 DEF OwedClosed

-----------------------------------------------------------------------------
(* The steps of an execution.                                              *)

LEMMA RelayStartsSound ==
  ASSUME AdversaryScope, RelayScope, ExecutionInit
  PROVE  RelaySound
<1> DEFINE s == get_forkchoice_store(ANCHOR_STATE, ANCHOR_BLOCK)
<1>1. /\ \A v \in Node : stores[v] = GENESIS_STORE
      /\ owed.blocks = {} /\ owed.payloads = {} /\ owed.evidence = {} /\ broken = {}
  BY DEF ExecutionInit
<1>2. GENESIS_STORE = s
  BY DEF AdversaryScope, AnchoredScope
<1>3. /\ DOMAIN s.blocks = {ANCHOR_BLOCK.root}
      /\ s.block_states[ANCHOR_BLOCK.root] = ANCHOR_STATE
      /\ s.equivocating_indices = {}
      /\ s.finalized_checkpoint.epoch = get_current_epoch(ANCHOR_STATE)
      /\ s.unrealized_finalized_checkpoint.epoch = get_current_epoch(ANCHOR_STATE)
  BY DEF get_forkchoice_store, put, EmptyDict
<1> HIDE DEF s
<1>4. get_current_epoch(ANCHOR_STATE) = 0
  <2>1. ANCHOR_STATE.slot = 0
    BY AnchorAtGenesis, AnchorAssumption DEF AdversaryScope
  <2> QED BY <2>1, ConfigAssumption DEF get_current_epoch, compute_epoch_at_slot
<1>5. Steady(GENESIS_STORE)
  BY <1>2, <1>3, <1>4 DEF Steady, Convicted
<1>6. OwedClosed
  BY <1>1 DEF OwedClosed, Convicted
<1> QED BY <1>1, <1>5, <1>6 DEF RelaySound

LEMMA SlotKeepsRelay ==
  ASSUME AdversaryScope, RelayScope, ExecutionSound, RelaySound, FreeSlot
  PROVE  RelaySound'
<1>1. PICK order, schedule, prefixes, next : SlotBegins(order, schedule, prefixes, next)
  BY SlotUnfolds
<1> DEFINE second == slot_start(current_slot + 1)
<1>2. /\ NodesSound /\ OwedSound /\ VotesSound /\ OwedClosed /\ broken = {}
      /\ \A v \in Node : Steady(stores[v])
      /\ time \in Nat /\ current_slot \in Nat /\ current_slot <= FREE_SLOTS
  BY SlotType DEF ExecutionSound, NodesSound, RelaySound, FreeSlot, current_slot
<1>3. /\ script' = script /\ stores' = next /\ owed' = observed(next)
      /\ broken' = broken \cup relay_failures(prefixes, next, schedule)
      /\ second \in Nat /\ slot_at(second) = current_slot + 1 /\ time <= second
  BY <1>1 DEF SlotBegins
<1>4. ASSUME NEW v \in Node
      PROVE  /\ order[v] \in relay_orders(v)
             /\ \E plan \in Seq(AttestationData) :
                  /\ DeliverableList(attack_events(plan))
                  /\ schedule[v] = relay_of(v, order[v]) \o votes_of_last_slot \o attack_events(plan)
             /\ DeliverableList(before_votes(schedule[v])) /\ DeliverableList(from_votes(schedule[v]))
             /\ prefixes[v] = apply_events(on_tick(stores[v], second), before_votes(schedule[v]))
             /\ next[v] = apply_events(prefixes[v], from_votes(schedule[v]))
             /\ NodeSound(prefixes[v]) /\ get_current_slot(prefixes[v]) = current_slot + 1
             /\ NodeSound(next[v]) /\ Learns(prefixes[v], next[v]) /\ Learns(stores[v], next[v])
  BY <1>1 DEF SlotBegins
<1> HIDE DEF second
<1>5. ASSUME NEW v \in Node
      PROVE  /\ Steady(next[v])
             /\ owed.blocks \subseteq DOMAIN prefixes[v].blocks
             /\ owed.payloads \subseteq prefixes[v].payloads
             /\ owed.evidence \subseteq next[v].equivocating_indices
             /\ \A vote \in VotesOf(current_slot) :
                  \E k \in DOMAIN schedule[v] : schedule[v][k] = vote_event(vote)
  <2> DEFINE s == stores[v]
             t == on_tick(s, second)
             p == prefixes[v]
             u == next[v]
             relay == relay_of(v, order[v])
             early == before_votes(schedule[v])
             late == from_votes(schedule[v])
  <2>1. NodeSound(s) /\ Steady(s) /\ s.time = time
    BY <1>2 DEF NodesSound
  <2>2. /\ p = apply_events(t, early) /\ u = apply_events(p, late)
        /\ DeliverableList(early) /\ DeliverableList(late)
        /\ NodeSound(p) /\ get_current_slot(p) = current_slot + 1
        /\ NodeSound(u) /\ Learns(p, u)
    BY <1>4
  <2>3. PICK plan \in Seq(AttestationData) :
          /\ DeliverableList(attack_events(plan))
          /\ schedule[v] = relay \o votes_of_last_slot \o attack_events(plan)
    BY <1>4
  <2>4. PICK S : relay \in Seq(S)
    BY <1>2, <1>4, RelayKinds
  <2>5. PICK T : votes_of_last_slot \in Seq(T)
    BY <1>2, VotesAreDeliverable DEF DeliverableList
  <2>6. PICK U : attack_events(plan) \in Seq(U)
    BY <2>3 DEF DeliverableList
  <2> HIDE DEF s, t, p, u, early, late
  <2>7. /\ NodeSound(t) /\ t.time = second
        /\ t.blocks = s.blocks /\ t.payloads = s.payloads
        /\ t.latest_messages = s.latest_messages
        /\ t.equivocating_indices = s.equivocating_indices
    BY <1>3, <2>1, TickKeepsSound DEF t
  <2>8. Steady(t) /\ Learns(s, t) /\ get_current_slot(t) = current_slot + 1
    BY <1>3, <2>1, <2>7, TickKeepsSteady DEF t, Learns, get_current_slot
  <2>9. current_slot + 1 <= FREE_SLOTS + 1
    BY <1>2, AdversaryAssumption
  <2>10. Steady(p)
    BY <2>2, <2>7, <2>8, <2>9, ListKeepsSteady DEF AdversaryScope
  <2>11. Steady(u)
    BY <2>2, <2>9, <2>10, ListKeepsSteady DEF AdversaryScope
  <2>12. Len(relay) <= Len(early) /\ \A k \in 1..Len(relay) : early[k] = relay[k]
    <3> DEFINE cast == votes_of_last_slot
               attack == attack_events(plan)
               rest == cast \o attack
    <3>1. relay \in Seq(S \cup T \cup U) /\ cast \in Seq(S \cup T \cup U) /\ attack \in Seq(S \cup T \cup U)
      BY <2>4, <2>5, <2>6
    <3> HIDE DEF cast, attack, relay
    <3>2. (relay \o cast) \o attack = relay \o rest /\ rest \in Seq(S \cup T \cup U)
      BY <3>1, ConcatAssociative, ConcatProperties
    <3>3. early = before_votes(relay \o rest)
      BY <2>3, <3>2 DEF early, cast, attack
    <3> HIDE DEF rest
    <3> QED BY <1>2, <1>4, <3>2, <3>3, RelayComesFirst DEF relay
  <2>13. /\ owed.blocks \subseteq DOMAIN p.blocks
         /\ owed.payloads \subseteq p.payloads
         /\ owed.evidence \subseteq p.equivocating_indices
    <3>1. order[v] \in relay_orders(v) /\ Learns(stores[v], t)
      BY <1>4, <2>8 DEF s
    <3> QED BY <1>2, <2>2, <2>7, <2>8, <2>12, <3>1, RelayHandled DEF AdversaryScope
  <2>14. owed.evidence \subseteq u.equivocating_indices
    BY <2>2, <2>13 DEF Learns
  <2>15. \A vote \in VotesOf(current_slot) :
           \E k \in DOMAIN schedule[v] : schedule[v][k] = vote_event(vote)
    <3> DEFINE given == schedule[v]
               attack == attack_events(plan)
    <3>1. /\ relay \in Seq(S) /\ attack \in Seq(U)
          /\ given = relay \o votes_of_last_slot \o attack
      BY <2>3, <2>4, <2>6
    <3> HIDE DEF given, relay, attack
    <3>2. \A vote \in VotesOf(current_slot) :
            \E k \in DOMAIN given : given[k] = vote_event(vote)
      BY <1>2, <3>1, VotesDelivered
    <3> QED BY <3>2 DEF given
  <2> QED BY <2>11, <2>13, <2>14, <2>15 DEF p, u
<1>6. OwedClosed'
  BY <1>2, <1>3, <1>4, <1>5, ClosedStays DEF AdversaryScope
<1>7. relay_failures(prefixes, next, schedule) = {}
  BY <1>5 DEF relay_failures
<1> QED BY <1>2, <1>3, <1>5, <1>6, <1>7 DEF RelaySound, Node

LEMMA ReleaseKeepsRelay ==
  ASSUME AdversaryScope, RelayScope, ExecutionSound, RelaySound, Release
  PROVE  RelaySound'
<1>1. PICK second, events, next : SecondPasses(second, events, next)
  BY ReleaseUnfolds
<1>2. /\ NodesSound /\ OwedClosed /\ broken = {}
      /\ \A v \in Node : Steady(stores[v])
      /\ current_slot <= FREE_SLOTS + 1
  BY DEF ExecutionSound, NodesSound, RelaySound
<1>3. /\ second \in Nat /\ slot_at(second) = current_slot /\ time <= second
      /\ script' = script /\ broken' = broken /\ stores' = next
      /\ owed' = observed(next) \/ owed' = owed
      /\ \A v \in Node :
           /\ DeliverableList(events[v])
           /\ next[v] = apply_events(on_tick(stores[v], second), events[v])
           /\ NodeSound(next[v]) /\ Learns(stores[v], next[v])
  BY <1>1 DEF SecondPasses
<1>4. ASSUME NEW v \in Node PROVE Steady(next[v])
  <2> DEFINE s == stores[v]
             t == on_tick(s, second)
  <2>1. NodeSound(s) /\ Steady(s) /\ s.time = time
    BY <1>2 DEF NodesSound
  <2>2. next[v] = apply_events(t, events[v]) /\ DeliverableList(events[v])
    BY <1>3
  <2> HIDE DEF s, t
  <2>3. NodeSound(t) /\ t.time = second /\ Steady(t)
    BY <1>3, <2>1, TickKeepsSound, TickKeepsSteady DEF t
  <2>4. get_current_slot(t) <= FREE_SLOTS + 1
    BY <1>2, <1>3, <2>3 DEF get_current_slot
  <2> QED BY <2>2, <2>3, <2>4, ListKeepsSteady DEF AdversaryScope
<1>5. OwedClosed'
  BY <1>2, <1>3, <1>4, ClosedStays DEF AdversaryScope
<1> QED BY <1>2, <1>3, <1>4, <1>5 DEF RelaySound, Node

LEMMA RelayStaysSound ==
  ASSUME AdversaryScope, RelayScope, ExecutionSound, RelaySound, [AdversaryNext]_execution_vars
  PROVE  RelaySound'
<1>1. CASE FreeSlot
  BY <1>1, SlotKeepsRelay
<1>2. CASE Release
  BY <1>2, ReleaseKeepsRelay
<1>3. CASE FreeVotes \/ UNCHANGED execution_vars
  <2>1. script' = script /\ stores' = stores /\ owed' = owed /\ broken' = broken
    BY <1>3 DEF FreeVotes, CastVotes, execution_vars
  <2>2. OwedClosed'
    BY <2>1 DEF RelaySound, OwedClosed, Node
  <2> QED BY <2>1, <2>2 DEF RelaySound, Node
<1> QED BY <1>1, <1>2, <1>3 DEF AdversaryNext

(* The network's relay keeps the premises, whatever the adversary does:    *)
(* by the first vote of the next slot it has brought to every node the     *)
(* blocks and payloads that some node held at a deadline, and each was     *)
(* accepted, and no vote and no evidence is missed                         *)
(* (DeadlineBoundaryBlockPrefix, DeadlineBoundaryEnvelopePrefix,           *)
(* DeadlineAttesterSlashingRelay, attestation_delivery).                   *)
THEOREM RelayInvariant ==
  ASSUME AdversaryScope, RelayScope
  PROVE  AdversarySpec => []RelaySound
<1>1. AdversarySpec => []ExecutionSound
  BY ExecutionInvariant
<1>2. ExecutionInit => RelaySound
  BY RelayStartsSound
<1>3. ExecutionSound /\ RelaySound /\ [AdversaryNext]_execution_vars => RelaySound'
  BY RelayStaysSound
<1> QED BY <1>1, <1>2, <1>3, PTL DEF AdversarySpec

(* From the next slot on every node weighs every honest vote as it was     *)
(* cast, and no premise on the network is ever broken.                     *)
THEOREM VotesAlwaysArrive ==
  ASSUME AdversaryScope, RelayScope
  PROVE  AdversarySpec => []VotesArrive
<1>1. AdversarySpec => []HonestVotesCount
  BY HonestVotesArrive
<1>2. AdversarySpec => []RelaySound
  BY RelayInvariant
<1>3. HonestVotesCount /\ RelaySound => VotesArrive
  BY DEF RelaySound, VotesArrive, PremisesHold
<1> QED BY <1>1, <1>2, <1>3, PTL
=============================================================================
