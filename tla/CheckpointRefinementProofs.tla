--------------------- MODULE CheckpointRefinementProofs ---------------------
(***************************************************************************)
(* The store keeps its type, ForkChoiceStore implements CheckpointTracker, *)
(* and so has its invariants.                                              *)
(*                                                                         *)
(* For the type, one lemma per function of Handlers says what its result   *)
(* looks like; the keys of the dictionaries are followed separately from   *)
(* their values, because on_block adds a new block to one dictionary after *)
(* the other.                                                              *)
(***************************************************************************)
EXTENDS CheckpointRefinement, TLAPS

(* The tracker's theorems, about the store's checkpoints. *)
Proved ==
  INSTANCE CheckpointTrackerProofs WITH
    epoch <- get_current_store_epoch(store),
    realized <- [justified |-> store.justified_checkpoint,
                 finalized |-> store.finalized_checkpoint],
    unrealized <- [justified |-> store.unrealized_justified_checkpoint,
                   finalized |-> store.unrealized_finalized_checkpoint],
    tips <- TrackedTips

-----------------------------------------------------------------------------
(* The store keeps its type.                                               *)

Shaped(s) == s \in StoreOver(s)

(* The dictionaries of t have the keys of those of s.                      *)
SameKeys(s, t) ==
  /\ DOMAIN t.blocks = DOMAIN s.blocks
  /\ DOMAIN t.block_states = DOMAIN s.block_states
  /\ DOMAIN t.block_timeliness = DOMAIN s.block_timeliness
  /\ DOMAIN t.unrealized_justifications = DOMAIN s.unrealized_justifications
  /\ DOMAIN t.payload_timeliness_vote = DOMAIN s.payload_timeliness_vote
  /\ DOMAIN t.payload_data_availability_vote = DOMAIN s.payload_data_availability_vote
  /\ DOMAIN t.checkpoint_states = DOMAIN s.checkpoint_states
  /\ DOMAIN t.latest_messages = DOMAIN s.latest_messages
  /\ t.payloads = s.payloads

(* Adding an entry to a dictionary keeps the type of its values.           *)
LEMMA PutType ==
  ASSUME NEW T, NEW d, d \in [DOMAIN d -> T], NEW k, NEW v \in T
  PROVE  /\ put(d, k, v) \in [DOMAIN put(d, k, v) -> T]
         /\ DOMAIN put(d, k, v) = DOMAIN d \cup {k}
BY DEF put

(* A store is a store when it has its shape and the keys of a store.       *)
LEMMA SameKeysType ==
  ASSUME NEW s, NEW t, IsStore(s), Shaped(t), SameKeys(s, t)
  PROVE  IsStore(t)
BY DEF IsStore, Shaped, SameKeys, KeysAgree

(* Checkpoints are replaced by checkpoints.                                *)
LEMMA UpdateCheckpointsType ==
  ASSUME NEW s, Shaped(s), NEW j \in Checkpoint, NEW f \in Checkpoint
  PROVE  /\ Shaped(update_checkpoints(s, j, f))
         /\ SameKeys(s, update_checkpoints(s, j, f))
<1>1. Shaped(update_checkpoints(s, j, f))
  BY DEF Shaped, StoreOver, update_checkpoints
<1>2. SameKeys(s, update_checkpoints(s, j, f))
  BY DEF Shaped, StoreOver, SameKeys, update_checkpoints
<1> QED BY <1>1, <1>2

LEMMA UpdateUnrealizedType ==
  ASSUME NEW s, Shaped(s), NEW j \in Checkpoint, NEW f \in Checkpoint
  PROVE  /\ Shaped(update_unrealized_checkpoints(s, j, f))
         /\ SameKeys(s, update_unrealized_checkpoints(s, j, f))
<1>1. Shaped(update_unrealized_checkpoints(s, j, f))
  BY DEF Shaped, StoreOver, update_unrealized_checkpoints
<1>2. SameKeys(s, update_unrealized_checkpoints(s, j, f))
  BY DEF Shaped, StoreOver, SameKeys, update_unrealized_checkpoints
<1> QED BY <1>1, <1>2

(* A tick moves the clock, the boost and the checkpoints.                  *)
LEMMA TickType ==
  ASSUME NEW s, Shaped(s), NEW time \in Nat
  PROVE  /\ Shaped(on_tick_per_slot(s, time))
         /\ SameKeys(s, on_tick_per_slot(s, time))
<1> DEFINE ticked(boost) == [s EXCEPT !.time = time, !.proposer_boost_root = boost]
<1>1. ASSUME NEW boost \in Root \cup {NoRoot}
      PROVE  Shaped(ticked(boost)) /\ SameKeys(s, ticked(boost))
  BY DEF Shaped, StoreOver, SameKeys
<1>2. /\ s.unrealized_justified_checkpoint \in Checkpoint
      /\ s.unrealized_finalized_checkpoint \in Checkpoint
      /\ s.proposer_boost_root \in Root \cup {NoRoot}
      /\ NoRoot \in Root \cup {NoRoot}
  BY DEF Shaped, StoreOver
<1>3. PICK boost \in Root \cup {NoRoot} :
        \/ on_tick_per_slot(s, time) = ticked(boost)
        \/ on_tick_per_slot(s, time)
             = update_checkpoints(ticked(boost), s.unrealized_justified_checkpoint,
                                  s.unrealized_finalized_checkpoint)
  BY <1>2 DEF on_tick_per_slot, Shaped, StoreOver
<1> HIDE DEF ticked
<1> QED BY <1>1, <1>2, <1>3, UpdateCheckpointsType, SMTT(30) DEF SameKeys

(* A missing block reads as a state like any other, or as the default.     *)
LEMMA BlockReads ==
  ASSUME NEW s, IsStore(s), NEW root \in DOMAIN s.blocks
  PROVE  /\ block_state(s, root) = s.block_states[root]
         /\ block_state(s, root) \in BeaconStates
         /\ block_state(s, root) \in BeaconState
         /\ s.blocks[root] \in BeaconBlock
BY ExternalsAssumption DEF IsStore, KeysAgree, StoreOver, block_state

(* The new block comes with its state and two empty vote lists.            *)
LEMMA InsertBlockType ==
  ASSUME NEW s, IsStore(s), NEW sb \in SIGNED_BLOCKS, post_state(s, sb) \in BeaconStates
  PROVE  LET t == insert_block(s, sb)
         IN  /\ Shaped(t)
             /\ DOMAIN t.blocks = DOMAIN s.blocks \cup {sb.root}
             /\ DOMAIN t.block_states = DOMAIN s.blocks \cup {sb.root}
             /\ DOMAIN t.payload_timeliness_vote = DOMAIN s.blocks \cup {sb.root}
             /\ DOMAIN t.payload_data_availability_vote = DOMAIN s.blocks \cup {sb.root}
             /\ DOMAIN t.block_timeliness = DOMAIN s.blocks
             /\ DOMAIN t.unrealized_justifications = DOMAIN s.blocks
             /\ DOMAIN t.checkpoint_states = DOMAIN s.checkpoint_states
             /\ DOMAIN t.latest_messages = DOMAIN s.latest_messages
             /\ t.payloads = s.payloads
<1> DEFINE t == insert_block(s, sb)
<1>1. s \in StoreOver(s) /\ KeysAgree(s)
  BY DEF IsStore
<1>2. sb.message \in BeaconBlock
  BY MessagesAssumption DEF SignedBeaconBlock
<1>3. EmptyDict \in PtcVotes
  <2>1. EmptyDict \in [{} -> BOOLEAN]
    BY DEF EmptyDict
  <2> QED BY <2>1 DEF PtcVotes
<1>4. /\ s.blocks \in [DOMAIN s.blocks -> BeaconBlock]
      /\ s.block_states \in [DOMAIN s.block_states -> BeaconStates]
      /\ s.payload_timeliness_vote \in [DOMAIN s.payload_timeliness_vote -> PtcVotes]
      /\ s.payload_data_availability_vote
           \in [DOMAIN s.payload_data_availability_vote -> PtcVotes]
  BY <1>1 DEF StoreOver
<1>5. t = [s EXCEPT !.blocks = put(s.blocks, sb.root, sb.message),
                    !.block_states = put(s.block_states, sb.root, post_state(s, sb)),
                    !.payload_timeliness_vote =
                      put(s.payload_timeliness_vote, sb.root, EmptyDict),
                    !.payload_data_availability_vote =
                      put(s.payload_data_availability_vote, sb.root, EmptyDict)]
  BY <1>1 DEF insert_block, StoreOver
<1>6. /\ t.blocks = put(s.blocks, sb.root, sb.message)
      /\ t.block_states = put(s.block_states, sb.root, post_state(s, sb))
      /\ t.payload_timeliness_vote = put(s.payload_timeliness_vote, sb.root, EmptyDict)
      /\ t.payload_data_availability_vote
           = put(s.payload_data_availability_vote, sb.root, EmptyDict)
  BY <1>1, <1>5 DEF StoreOver
<1> HIDE DEF t
<1>7. /\ t.blocks \in [DOMAIN t.blocks -> BeaconBlock]
      /\ t.block_states \in [DOMAIN t.block_states -> BeaconStates]
      /\ t.payload_timeliness_vote \in [DOMAIN t.payload_timeliness_vote -> PtcVotes]
      /\ t.payload_data_availability_vote
           \in [DOMAIN t.payload_data_availability_vote -> PtcVotes]
  BY <1>2, <1>3, <1>4, <1>6 DEF put
<1>8. /\ DOMAIN t.blocks = DOMAIN s.blocks \cup {sb.root}
      /\ DOMAIN t.block_states = DOMAIN s.blocks \cup {sb.root}
      /\ DOMAIN t.payload_timeliness_vote = DOMAIN s.blocks \cup {sb.root}
      /\ DOMAIN t.payload_data_availability_vote = DOMAIN s.blocks \cup {sb.root}
  BY <1>1, <1>6 DEF KeysAgree, put
<1>9. Shaped(t)
  BY <1>1, <1>5, <1>7 DEF Shaped, StoreOver
<1>10. /\ DOMAIN t.block_timeliness = DOMAIN s.blocks
       /\ DOMAIN t.unrealized_justifications = DOMAIN s.blocks
       /\ DOMAIN t.checkpoint_states = DOMAIN s.checkpoint_states
       /\ DOMAIN t.latest_messages = DOMAIN s.latest_messages
       /\ t.payloads = s.payloads
  BY <1>1, <1>5 DEF StoreOver, KeysAgree
<1> QED BY <1>8, <1>9, <1>10 DEF t

(* PTC votes are added to the lists that exist, as booleans.               *)
LEMMA RecordVotesType ==
  ASSUME NEW s, Shaped(s), NEW messages
  PROVE  /\ Shaped(record_ptc_votes(s, messages))
         /\ SameKeys(s, record_ptc_votes(s, messages))
<1> DEFINE votes_from(old, new) ==
             /\ DOMAIN new = DOMAIN old
             /\ new \in [DOMAIN old -> PtcVotes]
<1>1. PICK timely, available :
        /\ record_ptc_votes(s, messages)
             = [s EXCEPT !.payload_timeliness_vote = timely,
                         !.payload_data_availability_vote = available]
        /\ votes_from(s.payload_timeliness_vote, timely)
        /\ votes_from(s.payload_data_availability_vote, available)
  <2> DEFINE writers(root, i) ==
               {k \in DOMAIN messages :
                  /\ messages[k].beacon_block_root = root
                  /\ messages[k].slot = block_state(s, root).slot
                  /\ i \in ptc_indices(messages[k].slot, messages[k].validator_index)}
             last_says(field, root, i) ==
               \E k \in writers(root, i) :
                 messages[k][field] /\ \A other \in writers(root, i) : other <= k
             write(field, votes) ==
               [root \in DOMAIN votes |->
                  [i \in DOMAIN votes[root]
                           \cup {j \in 0..PTC_SIZE-1 : writers(root, j) # {}} |->
                     IF writers(root, i) = {} THEN votes[root][i]
                     ELSE last_says(field, root, i)]]
  <2>1. record_ptc_votes(s, messages)
          = [s EXCEPT !.payload_timeliness_vote =
                        write("payload_present", s.payload_timeliness_vote),
                      !.payload_data_availability_vote =
                        write("blob_data_available", s.payload_data_availability_vote)]
    BY DEF record_ptc_votes, Shaped, StoreOver
  <2>2. \A field, root, i : last_says(field, root, i) \in BOOLEAN
    OBVIOUS
  <2>3. ASSUME NEW field, NEW votes, votes \in [DOMAIN votes -> PtcVotes]
        PROVE  votes_from(votes, write(field, votes))
    <3> HIDE DEF writers, last_says
    <3>1. ASSUME NEW root \in DOMAIN votes
          PROVE  write(field, votes)[root] \in PtcVotes
      <4> DEFINE positions ==
                   DOMAIN votes[root] \cup {j \in 0..PTC_SIZE-1 : writers(root, j) # {}}
      <4>1. votes[root] \in PtcVotes
        BY <2>3
      <4>2. PICK P \in SUBSET (0..PTC_SIZE-1) : votes[root] \in [P -> BOOLEAN]
        BY <4>1 DEF PtcVotes
      <4>3. positions \in SUBSET (0..PTC_SIZE-1)
        BY <4>2
      <4>4. ASSUME NEW i \in positions
            PROVE  (IF writers(root, i) = {} THEN votes[root][i]
                    ELSE last_says(field, root, i)) \in BOOLEAN
        BY <2>2, <4>2
      <4>5. write(field, votes)[root]
              = [i \in positions |-> IF writers(root, i) = {} THEN votes[root][i]
                                     ELSE last_says(field, root, i)]
        OBVIOUS
      <4>6. write(field, votes)[root] \in [positions -> BOOLEAN]
        <5> HIDE DEF positions, write
        <5> QED BY <4>4, <4>5
      <4> HIDE DEF positions, write
      <4> QED BY <4>3, <4>6 DEF PtcVotes
    <3>2. DOMAIN write(field, votes) = DOMAIN votes
      OBVIOUS
    <3>3. write(field, votes) = [root \in DOMAIN votes |-> write(field, votes)[root]]
      OBVIOUS
    <3> HIDE DEF write
    <3> QED BY <3>1, <3>2, <3>3
  <2>4. /\ s.payload_timeliness_vote \in [DOMAIN s.payload_timeliness_vote -> PtcVotes]
        /\ s.payload_data_availability_vote
             \in [DOMAIN s.payload_data_availability_vote -> PtcVotes]
    BY DEF Shaped, StoreOver
  <2> HIDE DEF write, votes_from
  <2> QED BY <2>1, <2>3, <2>4
<1> DEFINE t == [s EXCEPT !.payload_timeliness_vote = timely,
                          !.payload_data_availability_vote = available]
<1>2. /\ timely \in [DOMAIN timely -> PtcVotes]
      /\ available \in [DOMAIN available -> PtcVotes]
      /\ DOMAIN timely = DOMAIN s.payload_timeliness_vote
      /\ DOMAIN available = DOMAIN s.payload_data_availability_vote
  BY <1>1
<1>3. Shaped(t)
  BY <1>2 DEF Shaped, StoreOver
<1>4. SameKeys(s, t)
  BY <1>2 DEF Shaped, StoreOver, SameKeys
<1> QED BY <1>1, <1>3, <1>4

LEMMA NotifyType ==
  ASSUME NEW s, Shaped(s), NEW state, NEW messages
  PROVE  /\ Shaped(notify_ptc_messages(s, state, messages))
         /\ SameKeys(s, notify_ptc_messages(s, state, messages))
<1>1. CASE state.slot = 0
  BY <1>1 DEF notify_ptc_messages, SameKeys
<1>2. CASE state.slot # 0
  BY <1>2, RecordVotesType DEF notify_ptc_messages
<1> QED BY <1>1, <1>2

(* What on_block writes after the votes.                                   *)
LEMMA TimelinessType ==
  ASSUME NEW s, Shaped(s), NEW root
  PROVE  LET t == record_block_timeliness(s, root)
         IN  /\ Shaped(t)
             /\ DOMAIN t.block_timeliness = DOMAIN s.block_timeliness \cup {root}
             /\ t = [s EXCEPT !.block_timeliness = t.block_timeliness]
<1> DEFINE t == record_block_timeliness(s, root)
<1>1. PICK entry \in Timeliness :
        t = [s EXCEPT !.block_timeliness = put(s.block_timeliness, root, entry)]
  <2> DEFINE in_time(threshold) ==
               /\ get_current_slot(s) = s.blocks[root].slot
               /\ (s.time * 1000) % SLOT_DURATION_MS < threshold
             entry == [attestation |-> in_time(get_attestation_due_ms),
                       ptc |-> in_time(get_payload_attestation_due_ms)]
  <2>1. t = [s EXCEPT !.block_timeliness = put(s.block_timeliness, root, entry)]
    BY DEF record_block_timeliness, Shaped, StoreOver
  <2>2. \A threshold : in_time(threshold) \in BOOLEAN
    OBVIOUS
  <2>3. entry \in Timeliness
    <3> HIDE DEF in_time
    <3> QED BY <2>2 DEF Timeliness
  <2> HIDE DEF entry
  <2> QED BY <2>1, <2>3
<1>2. s.block_timeliness \in [DOMAIN s.block_timeliness -> Timeliness]
  BY DEF Shaped, StoreOver
<1> HIDE DEF t
<1>3. t.block_timeliness = put(s.block_timeliness, root, entry)
  BY <1>1 DEF Shaped, StoreOver
<1>4. t.block_timeliness \in [DOMAIN t.block_timeliness -> Timeliness]
  BY <1>2, <1>3 DEF put
<1>5. DOMAIN t.block_timeliness = DOMAIN s.block_timeliness \cup {root}
  BY <1>3 DEF put
<1>6. Shaped(t)
  BY <1>1, <1>4 DEF Shaped, StoreOver
<1>7. t = [s EXCEPT !.block_timeliness = t.block_timeliness]
  BY <1>1, <1>3
<1> QED BY <1>5, <1>6, <1>7 DEF t

LEMMA BoostType ==
  ASSUME NEW s, Shaped(s), NEW head, NEW root \in Root
  PROVE  /\ Shaped(update_proposer_boost_root(s, head, root))
         /\ SameKeys(s, update_proposer_boost_root(s, head, root))
<1>1. \/ update_proposer_boost_root(s, head, root) = s
      \/ update_proposer_boost_root(s, head, root)
           = [s EXCEPT !.proposer_boost_root = root]
  BY DEF update_proposer_boost_root
<1>2. Shaped([s EXCEPT !.proposer_boost_root = root])
  BY DEF Shaped, StoreOver
<1>3. SameKeys(s, [s EXCEPT !.proposer_boost_root = root])
  BY DEF Shaped, StoreOver, SameKeys
<1>4. SameKeys(s, s)
  BY DEF SameKeys
<1> QED BY <1>1, <1>2, <1>3, <1>4

(* The pulled-up checkpoint of the new block is recorded.                  *)
LEMMA PulledUpType ==
  ASSUME NEW s, Shaped(s), NEW root \in DOMAIN s.block_states
  PROVE  LET t == compute_pulled_up_tip(s, root)
         IN  /\ Shaped(t)
             /\ DOMAIN t.unrealized_justifications
                  = DOMAIN s.unrealized_justifications \cup {root}
             /\ SameKeys([s EXCEPT !.unrealized_justifications =
                            t.unrealized_justifications], t)
<1> DEFINE t == compute_pulled_up_tip(s, root)
           state == process_justification_and_finalization(s.block_states[root])
           j == state.current_justified_checkpoint
           f == state.finalized_checkpoint
           u == [s EXCEPT !.unrealized_justifications =
                   put(s.unrealized_justifications, root, j)]
           p == update_unrealized_checkpoints(u, j, f)
<1>1. j \in Checkpoint /\ f \in Checkpoint
  BY ExternalsAssumption DEF Shaped, StoreOver, BeaconState
<1>2. t = p \/ t = update_checkpoints(p, j, f)
  BY DEF compute_pulled_up_tip, Shaped, StoreOver
<1>3. s.unrealized_justifications \in [DOMAIN s.unrealized_justifications -> Checkpoint]
  BY DEF Shaped, StoreOver
<1> HIDE DEF t, state, j, f
<1>4. /\ put(s.unrealized_justifications, root, j)
           \in [DOMAIN put(s.unrealized_justifications, root, j) -> Checkpoint]
      /\ DOMAIN put(s.unrealized_justifications, root, j)
           = DOMAIN s.unrealized_justifications \cup {root}
  BY <1>1, <1>3 DEF put
<1>5. u.unrealized_justifications = put(s.unrealized_justifications, root, j)
  BY DEF Shaped, StoreOver
<1>6. Shaped(u)
  BY <1>4, <1>5 DEF Shaped, StoreOver
<1> HIDE DEF u
<1>7. Shaped(p) /\ SameKeys(u, p)
  BY <1>1, <1>6, UpdateUnrealizedType
<1> HIDE DEF p
<1>8. Shaped(t) /\ SameKeys(u, t)
  BY <1>1, <1>2, <1>7, UpdateCheckpointsType, SMTT(30) DEF SameKeys
<1>9. DOMAIN t.unrealized_justifications
        = DOMAIN s.unrealized_justifications \cup {root}
  BY <1>4, <1>5, <1>8 DEF SameKeys
<1>10. /\ u.blocks = s.blocks
       /\ u.block_states = s.block_states
       /\ u.block_timeliness = s.block_timeliness
       /\ u.payload_timeliness_vote = s.payload_timeliness_vote
       /\ u.payload_data_availability_vote = s.payload_data_availability_vote
       /\ u.checkpoint_states = s.checkpoint_states
       /\ u.latest_messages = s.latest_messages
       /\ u.payloads = s.payloads
  BY DEF u, Shaped, StoreOver
<1>11. SameKeys([s EXCEPT !.unrealized_justifications = t.unrealized_justifications], t)
  BY <1>8, <1>10 DEF SameKeys, Shaped, StoreOver
<1> QED BY <1>8, <1>9, <1>11 DEF t

(* An imported block has an entry in every dictionary of blocks.           *)
LEMMA OnBlockType ==
  ASSUME NEW s, IsStore(s), NEW sb \in SIGNED_BLOCKS, on_block_accepts(s, sb)
  PROVE  IsStore(on_block(s, sb))
<1> DEFINE root == sb.root
           state == post_state(s, sb)
           inserted == insert_block(s, sb)
           notified == notify_ptc_messages(inserted, state, sb.message.payload_attestations)
           timed == record_block_timeliness(notified, root)
           boosted == update_proposer_boost_root(timed, get_head(s).root, root)
           updated == update_checkpoints(boosted, state.current_justified_checkpoint,
                                         state.finalized_checkpoint)
           t == compute_pulled_up_tip(updated, root)
<1>1. t = on_block(s, sb)
  BY DEF on_block, import_block
<1>2. root \in Root /\ sb.message.parent_root \in DOMAIN s.blocks
  BY MessagesAssumption DEF SignedBeaconBlock, on_block_accepts, on_block_asserts
<1>3. /\ state \in BeaconStates
      /\ state.current_justified_checkpoint \in Checkpoint
      /\ state.finalized_checkpoint \in Checkpoint
  <2>1. state \in BeaconStates
    BY <1>2, BlockReads, ExternalsAssumption DEF post_state, on_block_accepts, on_block_asserts
  <2> QED BY <2>1, ExternalsAssumption DEF BeaconState
<1> HIDE DEF state, root
<1>4. /\ Shaped(inserted)
      /\ DOMAIN inserted.blocks = DOMAIN s.blocks \cup {root}
      /\ DOMAIN inserted.block_states = DOMAIN s.blocks \cup {root}
      /\ DOMAIN inserted.payload_timeliness_vote = DOMAIN s.blocks \cup {root}
      /\ DOMAIN inserted.payload_data_availability_vote = DOMAIN s.blocks \cup {root}
      /\ DOMAIN inserted.block_timeliness = DOMAIN s.blocks
      /\ DOMAIN inserted.unrealized_justifications = DOMAIN s.blocks
      /\ DOMAIN inserted.checkpoint_states = DOMAIN s.checkpoint_states
      /\ DOMAIN inserted.latest_messages = DOMAIN s.latest_messages
      /\ inserted.payloads = s.payloads
  BY <1>3, InsertBlockType DEF state, root
<1> HIDE DEF inserted
<1>5. Shaped(notified) /\ SameKeys(inserted, notified)
  BY <1>4, NotifyType
<1> HIDE DEF notified
<1>6. /\ Shaped(timed)
      /\ timed = [notified EXCEPT !.block_timeliness = timed.block_timeliness]
      /\ DOMAIN timed.block_timeliness = DOMAIN notified.block_timeliness \cup {root}
  BY <1>5, TimelinessType
<1> HIDE DEF timed
<1>7. Shaped(boosted) /\ SameKeys(timed, boosted)
  BY <1>2, <1>6, BoostType
<1> HIDE DEF boosted
<1>8. Shaped(updated) /\ SameKeys(boosted, updated)
  BY <1>3, <1>7, UpdateCheckpointsType
<1> HIDE DEF updated
<1>9. /\ DOMAIN updated.blocks = DOMAIN s.blocks \cup {root}
      /\ DOMAIN updated.block_states = DOMAIN s.blocks \cup {root}
      /\ DOMAIN updated.block_timeliness = DOMAIN s.blocks \cup {root}
      /\ DOMAIN updated.unrealized_justifications = DOMAIN s.blocks
      /\ DOMAIN updated.payload_timeliness_vote = DOMAIN s.blocks \cup {root}
      /\ DOMAIN updated.payload_data_availability_vote = DOMAIN s.blocks \cup {root}
      /\ DOMAIN updated.checkpoint_states = DOMAIN s.checkpoint_states
      /\ DOMAIN updated.latest_messages = DOMAIN s.latest_messages
      /\ updated.payloads = s.payloads
  <2>1. /\ DOMAIN timed.blocks = DOMAIN notified.blocks
        /\ DOMAIN timed.block_states = DOMAIN notified.block_states
        /\ DOMAIN timed.unrealized_justifications
             = DOMAIN notified.unrealized_justifications
        /\ DOMAIN timed.payload_timeliness_vote = DOMAIN notified.payload_timeliness_vote
        /\ DOMAIN timed.payload_data_availability_vote
             = DOMAIN notified.payload_data_availability_vote
        /\ DOMAIN timed.checkpoint_states = DOMAIN notified.checkpoint_states
        /\ DOMAIN timed.latest_messages = DOMAIN notified.latest_messages
        /\ timed.payloads = notified.payloads
    BY <1>5, <1>6 DEF Shaped, StoreOver
  <2> QED BY <2>1, <1>4, <1>5, <1>6, <1>7, <1>8 DEF SameKeys
<1>10. /\ Shaped(t)
       /\ DOMAIN t.unrealized_justifications
            = DOMAIN updated.unrealized_justifications \cup {root}
       /\ SameKeys([updated EXCEPT !.unrealized_justifications =
                      t.unrealized_justifications], t)
  BY <1>8, <1>9, PulledUpType
<1> HIDE DEF t
<1>11. /\ DOMAIN t.blocks = DOMAIN s.blocks \cup {root}
       /\ DOMAIN t.block_states = DOMAIN s.blocks \cup {root}
       /\ DOMAIN t.block_timeliness = DOMAIN s.blocks \cup {root}
       /\ DOMAIN t.unrealized_justifications = DOMAIN s.blocks \cup {root}
       /\ DOMAIN t.payload_timeliness_vote = DOMAIN s.blocks \cup {root}
       /\ DOMAIN t.payload_data_availability_vote = DOMAIN s.blocks \cup {root}
       /\ DOMAIN t.checkpoint_states = DOMAIN s.checkpoint_states
       /\ DOMAIN t.latest_messages = DOMAIN s.latest_messages
       /\ t.payloads = s.payloads
  BY <1>8, <1>9, <1>10 DEF SameKeys, Shaped, StoreOver
<1>12. IsStore(t)
  BY <1>2, <1>10, <1>11 DEF IsStore, KeysAgree, Shaped
<1> QED BY <1>1, <1>12

(* A target's state is its block's, advanced to the epoch's start.         *)
LEMMA TargetStateType ==
  ASSUME NEW s, IsStore(s), NEW a \in ATTESTATIONS,
         a.data.target.root \in DOMAIN s.blocks
  PROVE  IsStore(store_target_checkpoint_state(s, a.data.target))
<1> DEFINE target == a.data.target
           base == block_state(s, target.root)
           start == compute_start_slot_at_epoch(target.epoch)
           state == IF base.slot < start THEN process_slots(base, start) ELSE base
           t == [s EXCEPT !.checkpoint_states = put(s.checkpoint_states, target, state)]
<1>1. \/ store_target_checkpoint_state(s, target) = s
      \/ store_target_checkpoint_state(s, target) = t
  BY DEF store_target_checkpoint_state, IsStore, StoreOver
<1>2. state \in BeaconStates
  BY BlockReads, ExternalsAssumption
<1>3. target \in Checkpoint
  BY MessagesAssumption DEF Attestation, AttestationData
<1> HIDE DEF state, target
<1>4. /\ t.checkpoint_states = put(s.checkpoint_states, target, state)
      /\ s.checkpoint_states \in [DOMAIN s.checkpoint_states -> BeaconStates]
  BY DEF IsStore, StoreOver
<1>5. /\ t.checkpoint_states \in [DOMAIN t.checkpoint_states -> BeaconStates]
      /\ DOMAIN t.checkpoint_states = DOMAIN s.checkpoint_states \cup {target}
  BY <1>2, <1>4 DEF put
<1>6. IsStore(t)
  <2>1. t \in StoreOver(t)
    BY <1>5 DEF IsStore, StoreOver
  <2>2. DOMAIN t.checkpoint_states \subseteq Checkpoint
    BY <1>3, <1>5 DEF IsStore
  <2>3. /\ DOMAIN t.blocks \subseteq Root
        /\ DOMAIN t.latest_messages \subseteq ValidatorIndex
        /\ KeysAgree(t)
    BY DEF IsStore, KeysAgree, StoreOver
  <2> QED BY <2>1, <2>2, <2>3 DEF IsStore
<1> QED BY <1>1, <1>6 DEF target

LEMMA OnAttestationType ==
  ASSUME NEW s, IsStore(s), NEW a \in ATTESTATIONS, NEW from_block \in BOOLEAN,
         on_attestation_accepts(s, a, from_block)
  PROVE  IsStore(on_attestation(s, a))
<1> DEFINE r == store_target_checkpoint_state(s, a.data.target)
           t == update_latest_messages(r, a)
<1>1. IsStore(r)
  BY TargetStateType DEF on_attestation_accepts, validate_on_attestation
<1>2. /\ a.attesting_indices \subseteq ValidatorIndex
      /\ a.data.slot \in Nat
      /\ a.data.beacon_block_root \in Root
  BY MessagesAssumption DEF Attestation, AttestationData
<1>3. PICK newer \in SUBSET ValidatorIndex, message \in LatestMessage :
        t = [r EXCEPT !.latest_messages =
               [i \in DOMAIN r.latest_messages \cup newer |->
                  IF i \in newer THEN message ELSE r.latest_messages[i]]]
  <2> DEFINE message == [slot |-> a.data.slot, root |-> a.data.beacon_block_root,
                         payload_present |-> a.data.index = 1]
             newer == {i \in a.attesting_indices \ r.equivocating_indices :
                         is_newer_vote(r, i, a.data.slot)}
  <2>1. message \in LatestMessage
    BY <1>2 DEF LatestMessage
  <2>2. newer \in SUBSET ValidatorIndex
    BY <1>2
  <2>3. t = [r EXCEPT !.latest_messages =
               [i \in DOMAIN r.latest_messages \cup newer |->
                  IF i \in newer THEN message ELSE r.latest_messages[i]]]
    BY <1>1 DEF update_latest_messages, IsStore, StoreOver
  <2> HIDE DEF message, newer, t
  <2> QED BY <2>1, <2>2, <2>3
<1>4. t = on_attestation(s, a)
  BY DEF on_attestation
<1> HIDE DEF r, t
<1>5. t.latest_messages = [i \in DOMAIN r.latest_messages \cup newer |->
                             IF i \in newer THEN message ELSE r.latest_messages[i]]
  BY <1>1, <1>3 DEF IsStore, StoreOver
<1>6. r.latest_messages \in [DOMAIN r.latest_messages -> LatestMessage]
  BY <1>1 DEF IsStore, StoreOver
<1>7. /\ t.latest_messages \in [DOMAIN t.latest_messages -> LatestMessage]
      /\ DOMAIN t.latest_messages \subseteq ValidatorIndex
  BY <1>1, <1>5, <1>6 DEF IsStore
<1>8. t \in StoreOver(t)
  BY <1>1, <1>3, <1>7 DEF IsStore, StoreOver
<1>9. /\ DOMAIN t.blocks \subseteq Root
      /\ DOMAIN t.checkpoint_states \subseteq Checkpoint
      /\ KeysAgree(t)
  BY <1>1, <1>3 DEF IsStore, KeysAgree, StoreOver
<1> QED BY <1>4, <1>7, <1>8, <1>9 DEF IsStore

LEMMA OnAttesterSlashingType ==
  ASSUME NEW s, IsStore(s), NEW slashing \in SLASHINGS
  PROVE  IsStore(on_attester_slashing(s, slashing))
<1> DEFINE t == on_attester_slashing(s, slashing)
<1>1. slashing.attestation_1.attesting_indices \subseteq ValidatorIndex
  BY MessagesAssumption DEF AttesterSlashing, Attestation
<1>2. Shaped(t)
  BY <1>1 DEF IsStore, Shaped, StoreOver, on_attester_slashing
<1>3. SameKeys(s, t)
  BY DEF IsStore, StoreOver, SameKeys, on_attester_slashing
<1> QED BY <1>2, <1>3, SameKeysType

LEMMA OnEnvelopeType ==
  ASSUME NEW s, IsStore(s), NEW root, on_execution_payload_envelope_accepts(s, root)
  PROVE  IsStore(on_execution_payload_envelope(s, root))
<1> DEFINE t == on_execution_payload_envelope(s, root)
<1>1. t = [s EXCEPT !.payloads = s.payloads \cup {root}]
  BY DEF on_execution_payload_envelope, IsStore, StoreOver
<1>2. root \in DOMAIN s.blocks /\ root \in Root
  BY DEF on_execution_payload_envelope_accepts, IsStore
<1> HIDE DEF t
<1>3. t \in StoreOver(t)
  BY <1>1, <1>2 DEF IsStore, StoreOver
<1>4. /\ DOMAIN t.blocks \subseteq Root
      /\ DOMAIN t.checkpoint_states \subseteq Checkpoint
      /\ DOMAIN t.latest_messages \subseteq ValidatorIndex
      /\ KeysAgree(t)
  BY <1>1, <1>2 DEF IsStore, KeysAgree, StoreOver
<1> QED BY <1>3, <1>4 DEF IsStore, t

LEMMA OnPayloadMessageType ==
  ASSUME NEW s, IsStore(s), NEW message
  PROVE  IsStore(on_payload_attestation_message(s, message))
BY RecordVotesType, SameKeysType DEF IsStore, Shaped, on_payload_attestation_message

-----------------------------------------------------------------------------
(* The clock.                                                              *)

LEMMA NextSlotStartType ==
  ASSUME NEW s, s.time \in Nat
  PROVE  next_slot_start(s) \in Nat
<1>1. SLOT_DURATION_MS \in Nat \ {0} /\ s.time * 1000 \in Nat
  BY ConfigAssumption
<1>2. (s.time * 1000) \div SLOT_DURATION_MS \in Nat
  BY <1>1
<1>3. (get_current_slot(s) + 1) * SLOT_DURATION_MS \in Nat
  BY <1>1, <1>2 DEF get_current_slot, slot_at, GENESIS_SLOT
<1> QED BY <1>3 DEF next_slot_start

(* The store of an anchor is a store.                                      *)
LEMMA AnchorStoreType ==
  IsStore(get_forkchoice_store(ANCHOR_STATE, ANCHOR_BLOCK))
<1> DEFINE root == ANCHOR_BLOCK.root
           checkpoint == [epoch |-> get_current_epoch(ANCHOR_STATE), root |-> root]
           s == get_forkchoice_store(ANCHOR_STATE, ANCHOR_BLOCK)
<1>1. /\ ANCHOR_STATE \in BeaconStates
      /\ ANCHOR_STATE.slot \in Nat
      /\ root \in Root
      /\ ANCHOR_BLOCK.message \in BeaconBlock
  BY AnchorAssumption, ExternalsAssumption DEF BeaconState, SignedBeaconBlock
<1>2. checkpoint \in Checkpoint
  <2>1. get_current_epoch(ANCHOR_STATE) \in Nat
    BY <1>1, ConfigAssumption DEF get_current_epoch, compute_epoch_at_slot
  <2> QED BY <1>1, <2>1 DEF Checkpoint
<1>3. (SLOT_DURATION_MS * ANCHOR_STATE.slot) \div 1000 \in Nat
  <2>1. SLOT_DURATION_MS * ANCHOR_STATE.slot \in Nat
    BY <1>1, ConfigAssumption
  <2> QED BY <2>1
<1>4. EmptyDict \in PtcVotes /\ DOMAIN EmptyDict = {}
  <2>1. EmptyDict \in [{} -> BOOLEAN]
    BY DEF EmptyDict
  <2> QED BY <2>1 DEF PtcVotes, EmptyDict
<1>5. /\ s.blocks = put(EmptyDict, root, ANCHOR_BLOCK.message)
      /\ s.block_states = put(EmptyDict, root, ANCHOR_STATE)
      /\ s.block_timeliness = put(EmptyDict, root, [attestation |-> TRUE, ptc |-> TRUE])
      /\ s.checkpoint_states = put(EmptyDict, checkpoint, ANCHOR_STATE)
      /\ s.latest_messages = EmptyDict
      /\ s.unrealized_justifications = put(EmptyDict, root, checkpoint)
      /\ s.payloads = {}
      /\ s.payload_timeliness_vote = put(EmptyDict, root, EmptyDict)
      /\ s.payload_data_availability_vote = put(EmptyDict, root, EmptyDict)
  BY DEF get_forkchoice_store
<1>6. \A key, value : put(EmptyDict, key, value) = [k \in {key} |-> value]
  BY <1>4 DEF put
<1>7. /\ s.blocks \in [DOMAIN s.blocks -> BeaconBlock]
      /\ s.block_states \in [DOMAIN s.block_states -> BeaconStates]
      /\ s.block_timeliness \in [DOMAIN s.block_timeliness -> Timeliness]
      /\ s.checkpoint_states \in [DOMAIN s.checkpoint_states -> BeaconStates]
      /\ s.latest_messages \in [DOMAIN s.latest_messages -> LatestMessage]
      /\ s.unrealized_justifications \in [DOMAIN s.unrealized_justifications -> Checkpoint]
      /\ s.payload_timeliness_vote \in [DOMAIN s.payload_timeliness_vote -> PtcVotes]
      /\ s.payload_data_availability_vote
           \in [DOMAIN s.payload_data_availability_vote -> PtcVotes]
  <2> HIDE DEF s, root, checkpoint
  <2>1. [attestation |-> TRUE, ptc |-> TRUE] \in Timeliness
    BY DEF Timeliness
  <2>2. EmptyDict \in [DOMAIN EmptyDict -> LatestMessage]
    BY DEF EmptyDict
  <2> QED BY <1>1, <1>2, <1>4, <1>5, <2>1, <2>2 DEF put
<1>8. /\ DOMAIN s.blocks = {root}
      /\ DOMAIN s.block_states = {root}
      /\ DOMAIN s.block_timeliness = {root}
      /\ DOMAIN s.unrealized_justifications = {root}
      /\ DOMAIN s.payload_timeliness_vote = {root}
      /\ DOMAIN s.payload_data_availability_vote = {root}
      /\ DOMAIN s.checkpoint_states = {checkpoint}
      /\ DOMAIN s.latest_messages = {}
  <2> HIDE DEF s, root, checkpoint
  <2> QED BY <1>4, <1>5 DEF put
<1>9. s \in StoreOver(s)
  <2>1. /\ s.time = (SLOT_DURATION_MS * ANCHOR_STATE.slot) \div 1000
        /\ s.justified_checkpoint = checkpoint
        /\ s.finalized_checkpoint = checkpoint
        /\ s.unrealized_justified_checkpoint = checkpoint
        /\ s.unrealized_finalized_checkpoint = checkpoint
        /\ s.proposer_boost_root = NoRoot
        /\ s.equivocating_indices = {}
    BY DEF get_forkchoice_store
  <2>2. s = [time |-> s.time,
             justified_checkpoint |-> s.justified_checkpoint,
             finalized_checkpoint |-> s.finalized_checkpoint,
             unrealized_justified_checkpoint |-> s.unrealized_justified_checkpoint,
             unrealized_finalized_checkpoint |-> s.unrealized_finalized_checkpoint,
             proposer_boost_root |-> s.proposer_boost_root,
             equivocating_indices |-> s.equivocating_indices,
             blocks |-> s.blocks,
             block_states |-> s.block_states,
             block_timeliness |-> s.block_timeliness,
             checkpoint_states |-> s.checkpoint_states,
             latest_messages |-> s.latest_messages,
             unrealized_justifications |-> s.unrealized_justifications,
             payloads |-> s.payloads,
             payload_timeliness_vote |-> s.payload_timeliness_vote,
             payload_data_availability_vote |-> s.payload_data_availability_vote]
    BY DEF get_forkchoice_store
  <2> HIDE DEF s, checkpoint
  <2> QED BY <1>2, <1>3, <1>5, <1>7, <2>1, <2>2 DEF StoreOver
<1>10. KeysAgree(s) /\ s.payloads = {}
  BY <1>5, <1>8 DEF KeysAgree
<1> QED BY <1>1, <1>2, <1>8, <1>9, <1>10 DEF IsStore

-----------------------------------------------------------------------------
(* TypeOK is inductive.                                                    *)

LEMMA InitType == Init => TypeOK
<1> SUFFICES ASSUME Init PROVE TypeOK
  OBVIOUS
<1>1. IsStore(store)
  BY AnchorStoreType DEF Init
<1> QED BY <1>1 DEF Init, TypeOK, IsStore, StoreOver

LEMMA NextType == TypeOK /\ [Next]_vars => TypeOK'
<1> SUFFICES ASSUME TypeOK, [Next]_vars PROVE TypeOK'
  OBVIOUS
<1> USE DEF TypeOK
<1>1. Shaped(store) /\ store.time \in Nat
  BY DEF IsStore, Shaped, StoreOver
<1>2. ASSUME NEW time \in TickTimes, BeginTick(time) PROVE TypeOK'
  BY <1>2, MessagesAssumption DEF BeginTick
<1>3. CASE CatchUp
  BY <1>1, <1>3, NextSlotStartType, TickType, SameKeysType DEF CatchUp
<1>4. CASE EndTick
  BY <1>1, <1>4, TickType, SameKeysType DEF EndTick
<1>5. ASSUME NEW signed_block \in SIGNED_BLOCKS, OnBlock(signed_block) PROVE TypeOK'
  BY <1>5, OnBlockType DEF OnBlock
<1>6. ASSUME NEW attestation \in ATTESTATIONS, NEW is_from_block \in BOOLEAN,
             OnAttestation(attestation, is_from_block)
      PROVE  TypeOK'
  BY <1>6, OnAttestationType DEF OnAttestation
<1>7. ASSUME NEW slashing \in SLASHINGS, OnAttesterSlashing(slashing) PROVE TypeOK'
  BY <1>7, OnAttesterSlashingType DEF OnAttesterSlashing
<1>8. ASSUME NEW root \in ENVELOPES, OnExecutionPayloadEnvelope(root) PROVE TypeOK'
  BY <1>8, OnEnvelopeType DEF OnExecutionPayloadEnvelope
<1>9. ASSUME NEW message \in PTC_MESSAGES, NEW is_from_block \in BOOLEAN,
             OnPayloadAttestationMessage(message, is_from_block)
      PROVE  TypeOK'
  BY <1>9, OnPayloadMessageType DEF OnPayloadAttestationMessage
<1>10. CASE UNCHANGED vars
  BY <1>10 DEF vars, IsStore, StoreOver, KeysAgree
<1> QED BY <1>2, <1>3, <1>4, <1>5, <1>6, <1>7, <1>8, <1>9, <1>10 DEF Next

(* Every store the handlers can produce is a store.                        *)
THEOREM StoreTypeCorrect == Spec => []TypeOK
BY InitType, NextType, PTL DEF Spec

-----------------------------------------------------------------------------
(* Slots and epochs.                                                       *)

LEMMA DivMonotone ==
  ASSUME NEW a \in Nat, NEW b \in Nat, NEW n \in Nat \ {0}, a <= b
  PROVE  a \div n <= b \div n
OBVIOUS

LEMMA DivOfMultiple ==
  ASSUME NEW a \in Nat, NEW n \in Nat \ {0}
  PROVE  (a * n) \div n = a
OBVIOUS

LEMMA DivSuccessor ==
  ASSUME NEW a \in Nat, NEW n \in Nat \ {0}
  PROVE  IF ((a + 1) \div n) * n = a + 1
         THEN (a + 1) \div n = a \div n + 1
         ELSE (a + 1) \div n = a \div n
OBVIOUS

LEMMA SlotType == ASSUME NEW time \in Nat PROVE slot_at(time) \in Nat
<1>1. time * 1000 \in Nat /\ SLOT_DURATION_MS \in Nat \ {0}
  BY ConfigAssumption
<1> QED BY <1>1 DEF slot_at, GENESIS_SLOT

LEMMA SlotMonotone ==
  ASSUME NEW a \in Nat, NEW b \in Nat, a <= b
  PROVE  slot_at(a) <= slot_at(b)
<1>1. /\ a * 1000 \in Nat /\ b * 1000 \in Nat
      /\ a * 1000 <= b * 1000
      /\ SLOT_DURATION_MS \in Nat \ {0}
  BY ConfigAssumption
<1>2. (a * 1000) \div SLOT_DURATION_MS <= (b * 1000) \div SLOT_DURATION_MS
  BY <1>1, DivMonotone
<1> QED BY <1>1, <1>2 DEF slot_at, GENESIS_SLOT

(* The catch-up loop moves exactly one slot on: slots start on seconds.    *)
LEMMA NextSlotStart ==
  ASSUME NEW s, s.time \in Nat
  PROVE  slot_at(next_slot_start(s)) = get_current_slot(s) + 1
<1> DEFINE next == get_current_slot(s) + 1
<1>1. next \in Nat
  BY SlotType DEF get_current_slot
<1>2. PICK seconds \in 1..SLOT_DURATION_MS : SLOT_DURATION_MS = 1000 * seconds
  BY WholeSecondsAssumption
<1>3. seconds \in Nat \ {0} /\ SLOT_DURATION_MS \in Nat \ {0}
  BY <1>2, ConfigAssumption
<1> HIDE DEF next
<1>4. next * SLOT_DURATION_MS = (next * seconds) * 1000 /\ next * seconds \in Nat
  BY <1>1, <1>2, <1>3
<1>5. next_slot_start(s) = next * seconds
  BY <1>4, DivOfMultiple DEF next_slot_start, next
<1>6. next_slot_start(s) * 1000 = next * SLOT_DURATION_MS
  BY <1>4, <1>5
<1>7. slot_at(next_slot_start(s)) = next
  BY <1>1, <1>3, <1>6, DivOfMultiple DEF slot_at, GENESIS_SLOT
<1> QED BY <1>7 DEF next

(* The next slot is in the same epoch unless it starts the next one.       *)
LEMMA NextSlotEpoch ==
  ASSUME NEW slot \in Nat
  PROVE  compute_epoch_at_slot(slot + 1)
           = IF compute_slots_since_epoch_start(slot + 1) = 0
             THEN compute_epoch_at_slot(slot) + 1 ELSE compute_epoch_at_slot(slot)
<1>1. SLOTS_PER_EPOCH \in Nat \ {0}
  BY ConfigAssumption
<1>2. /\ (slot + 1) \div SLOTS_PER_EPOCH \in Nat
      /\ slot \div SLOTS_PER_EPOCH \in Nat
      /\ ((slot + 1) \div SLOTS_PER_EPOCH) * SLOTS_PER_EPOCH \in Nat
  BY <1>1
<1>3. IF ((slot + 1) \div SLOTS_PER_EPOCH) * SLOTS_PER_EPOCH = slot + 1
      THEN (slot + 1) \div SLOTS_PER_EPOCH = slot \div SLOTS_PER_EPOCH + 1
      ELSE (slot + 1) \div SLOTS_PER_EPOCH = slot \div SLOTS_PER_EPOCH
  BY <1>1, DivSuccessor
<1>4. compute_slots_since_epoch_start(slot + 1) = 0
        <=> ((slot + 1) \div SLOTS_PER_EPOCH) * SLOTS_PER_EPOCH = slot + 1
  BY <1>2 DEF compute_epoch_at_slot, compute_slots_since_epoch_start,
              compute_start_slot_at_epoch
<1> QED BY <1>3, <1>4 DEF compute_epoch_at_slot

-----------------------------------------------------------------------------
(* What the handlers do to the fields the tracker sees.                    *)

SameTracked(s, t) ==
  /\ t.time = s.time
  /\ t.justified_checkpoint = s.justified_checkpoint
  /\ t.finalized_checkpoint = s.finalized_checkpoint
  /\ t.unrealized_justified_checkpoint = s.unrealized_justified_checkpoint
  /\ t.unrealized_finalized_checkpoint = s.unrealized_finalized_checkpoint
  /\ t.blocks = s.blocks
  /\ t.block_states = s.block_states
  /\ t.unrealized_justifications = s.unrealized_justifications

(* Votes, timeliness, boost, payloads and equivocations are out of sight.  *)
LEMMA UntrackedFields ==
  ASSUME NEW s, Shaped(s)
  PROVE  /\ \A messages : SameTracked(s, record_ptc_votes(s, messages))
         /\ \A state, messages : SameTracked(s, notify_ptc_messages(s, state, messages))
         /\ \A root : SameTracked(s, record_block_timeliness(s, root))
         /\ \A head, root : SameTracked(s, update_proposer_boost_root(s, head, root))
         /\ \A slashing : SameTracked(s, on_attester_slashing(s, slashing))
         /\ \A root : SameTracked(s, on_execution_payload_envelope(s, root))
         /\ \A a : SameTracked(s, update_latest_messages(s, a))
         /\ \A target : SameTracked(s, store_target_checkpoint_state(s, target))
<1> USE DEF Shaped, StoreOver, SameTracked
<1>1. \A messages : SameTracked(s, record_ptc_votes(s, messages))
  BY DEF record_ptc_votes
<1>2. \A state, messages : SameTracked(s, notify_ptc_messages(s, state, messages))
  BY <1>1 DEF notify_ptc_messages
<1>3. \A root : SameTracked(s, record_block_timeliness(s, root))
  BY DEF record_block_timeliness
<1>4. \A head, root : SameTracked(s, update_proposer_boost_root(s, head, root))
  BY DEF update_proposer_boost_root
<1>5. \A slashing : SameTracked(s, on_attester_slashing(s, slashing))
  BY DEF on_attester_slashing
<1>6. \A root : SameTracked(s, on_execution_payload_envelope(s, root))
  BY DEF on_execution_payload_envelope
<1>7. \A a : SameTracked(s, update_latest_messages(s, a))
  BY DEF update_latest_messages
<1>8. \A target : SameTracked(s, store_target_checkpoint_state(s, target))
  BY DEF store_target_checkpoint_state
<1> QED BY <1>1, <1>2, <1>3, <1>4, <1>5, <1>6, <1>7, <1>8

LEMMA UpdateCheckpointsEffect ==
  ASSUME NEW s, Shaped(s), NEW j, NEW f
  PROVE  LET t == update_checkpoints(s, j, f)
         IN  /\ t.justified_checkpoint = Tracker!newer(s.justified_checkpoint, j)
             /\ t.finalized_checkpoint = Tracker!newer(s.finalized_checkpoint, f)
             /\ t.time = s.time
             /\ t.unrealized_justified_checkpoint = s.unrealized_justified_checkpoint
             /\ t.unrealized_finalized_checkpoint = s.unrealized_finalized_checkpoint
             /\ t.blocks = s.blocks
             /\ t.block_states = s.block_states
             /\ t.unrealized_justifications = s.unrealized_justifications
BY DEF update_checkpoints, Shaped, StoreOver, Tracker!newer

(* A tick into a new epoch realizes what was unrealized; any other tick    *)
(* only moves the clock.                                                   *)
LEMMA TickEffect ==
  ASSUME NEW s, Shaped(s), NEW time \in Nat
  PROVE  LET t == on_tick_per_slot(s, time)
         IN  /\ t.time = time
             /\ t.unrealized_justified_checkpoint = s.unrealized_justified_checkpoint
             /\ t.unrealized_finalized_checkpoint = s.unrealized_finalized_checkpoint
             /\ t.blocks = s.blocks
             /\ t.block_states = s.block_states
             /\ t.unrealized_justifications = s.unrealized_justifications
             /\ IF /\ slot_at(time) > get_current_slot(s)
                   /\ compute_slots_since_epoch_start(slot_at(time)) = 0
                THEN /\ t.justified_checkpoint
                          = Tracker!newer(s.justified_checkpoint,
                                          s.unrealized_justified_checkpoint)
                     /\ t.finalized_checkpoint
                          = Tracker!newer(s.finalized_checkpoint,
                                          s.unrealized_finalized_checkpoint)
                ELSE /\ t.justified_checkpoint = s.justified_checkpoint
                     /\ t.finalized_checkpoint = s.finalized_checkpoint
<1> DEFINE t == on_tick_per_slot(s, time)
           enters == /\ slot_at(time) > get_current_slot(s)
                     /\ compute_slots_since_epoch_start(slot_at(time)) = 0
           boost == IF slot_at(time) > get_current_slot(s)
                    THEN NoRoot ELSE s.proposer_boost_root
           ticked == [s EXCEPT !.time = time, !.proposer_boost_root = boost]
<1>1. t = IF enters
          THEN update_checkpoints(ticked, s.unrealized_justified_checkpoint,
                                  s.unrealized_finalized_checkpoint)
          ELSE ticked
  BY DEF on_tick_per_slot, Shaped, StoreOver
<1>2. boost \in Root \cup {NoRoot}
  BY DEF Shaped, StoreOver
<1> HIDE DEF boost, enters
<1>3. /\ Shaped(ticked)
      /\ ticked.time = time
      /\ ticked.justified_checkpoint = s.justified_checkpoint
      /\ ticked.finalized_checkpoint = s.finalized_checkpoint
      /\ ticked.unrealized_justified_checkpoint = s.unrealized_justified_checkpoint
      /\ ticked.unrealized_finalized_checkpoint = s.unrealized_finalized_checkpoint
      /\ ticked.blocks = s.blocks
      /\ ticked.block_states = s.block_states
      /\ ticked.unrealized_justifications = s.unrealized_justifications
  BY <1>2 DEF Shaped, StoreOver
<1> HIDE DEF t, ticked
<1>4. CASE enters
  BY <1>1, <1>3, <1>4, UpdateCheckpointsEffect DEF enters, t
<1>5. CASE ~enters
  BY <1>1, <1>3, <1>5 DEF enters, t
<1> QED BY <1>4, <1>5

(* The tip pulls up to the checkpoints of its state at the epoch's end.    *)
LEMMA PulledUpEffect ==
  ASSUME NEW s, Shaped(s), NEW root \in DOMAIN s.block_states
  PROVE  LET t == compute_pulled_up_tip(s, root)
             state == process_justification_and_finalization(s.block_states[root])
             j == state.current_justified_checkpoint
             f == state.finalized_checkpoint
         IN  /\ t.time = s.time
             /\ t.blocks = s.blocks
             /\ t.block_states = s.block_states
             /\ t.unrealized_justifications = put(s.unrealized_justifications, root, j)
             /\ t.unrealized_justified_checkpoint
                  = Tracker!newer(s.unrealized_justified_checkpoint, j)
             /\ t.unrealized_finalized_checkpoint
                  = Tracker!newer(s.unrealized_finalized_checkpoint, f)
             /\ IF compute_epoch_at_slot(s.blocks[root].slot) < get_current_store_epoch(s)
                THEN /\ t.justified_checkpoint = Tracker!newer(s.justified_checkpoint, j)
                     /\ t.finalized_checkpoint = Tracker!newer(s.finalized_checkpoint, f)
                ELSE /\ t.justified_checkpoint = s.justified_checkpoint
                     /\ t.finalized_checkpoint = s.finalized_checkpoint
<1> DEFINE t == compute_pulled_up_tip(s, root)
           state == process_justification_and_finalization(s.block_states[root])
           j == state.current_justified_checkpoint
           f == state.finalized_checkpoint
           late == compute_epoch_at_slot(s.blocks[root].slot) < get_current_store_epoch(s)
           u == [s EXCEPT !.unrealized_justifications =
                   put(s.unrealized_justifications, root, j)]
           p == update_unrealized_checkpoints(u, j, f)
<1>1. j \in Checkpoint /\ f \in Checkpoint
  BY ExternalsAssumption DEF Shaped, StoreOver, BeaconState
<1>2. t = IF late THEN update_checkpoints(p, j, f) ELSE p
  BY DEF compute_pulled_up_tip, Shaped, StoreOver
<1>3. s.unrealized_justifications \in [DOMAIN s.unrealized_justifications -> Checkpoint]
  BY DEF Shaped, StoreOver
<1> HIDE DEF t, state, j, f, late
<1>4. put(s.unrealized_justifications, root, j)
        \in [DOMAIN put(s.unrealized_justifications, root, j) -> Checkpoint]
  BY <1>1, <1>3 DEF put
<1>5. u.unrealized_justifications = put(s.unrealized_justifications, root, j)
  BY DEF Shaped, StoreOver
<1>6. Shaped(u)
  BY <1>4, <1>5 DEF Shaped, StoreOver
<1>7. /\ u.time = s.time
      /\ u.justified_checkpoint = s.justified_checkpoint
      /\ u.finalized_checkpoint = s.finalized_checkpoint
      /\ u.unrealized_justified_checkpoint = s.unrealized_justified_checkpoint
      /\ u.unrealized_finalized_checkpoint = s.unrealized_finalized_checkpoint
      /\ u.blocks = s.blocks
      /\ u.block_states = s.block_states
  BY DEF Shaped, StoreOver
<1> HIDE DEF u
<1>8. /\ p.time = u.time
      /\ p.justified_checkpoint = u.justified_checkpoint
      /\ p.finalized_checkpoint = u.finalized_checkpoint
      /\ p.unrealized_justified_checkpoint
           = Tracker!newer(u.unrealized_justified_checkpoint, j)
      /\ p.unrealized_finalized_checkpoint
           = Tracker!newer(u.unrealized_finalized_checkpoint, f)
      /\ p.blocks = u.blocks
      /\ p.block_states = u.block_states
      /\ p.unrealized_justifications = u.unrealized_justifications
  BY <1>6 DEF update_unrealized_checkpoints, Shaped, StoreOver, Tracker!newer
<1>9. Shaped(p)
  BY <1>1, <1>6, UpdateUnrealizedType
<1> HIDE DEF p
<1>10. CASE late
  BY <1>2, <1>5, <1>7, <1>8, <1>9, <1>10, UpdateCheckpointsEffect DEF late, t, j, f, state
<1>11. CASE ~late
  BY <1>2, <1>5, <1>7, <1>8, <1>11 DEF late, t, j, f, state
<1> QED BY <1>10, <1>11

(* The new block's state is in scope, like its pulled-up form.             *)
LEMMA PostStateType ==
  ASSUME NEW s, IsStore(s), NEW sb \in SIGNED_BLOCKS, on_block_accepts(s, sb)
  PROVE  LET state == post_state(s, sb)
             pulled == process_justification_and_finalization(state)
         IN  /\ state \in BeaconStates /\ state \in BeaconState
             /\ pulled \in BeaconStates /\ pulled \in BeaconState
             /\ state.current_justified_checkpoint.epoch
                  <= pulled.current_justified_checkpoint.epoch
             /\ state.finalized_checkpoint.epoch <= pulled.finalized_checkpoint.epoch
<1> DEFINE state == post_state(s, sb)
<1>1. sb.message.parent_root \in DOMAIN s.blocks
  BY DEF on_block_accepts, on_block_asserts
<1>2. state \in BeaconStates
  BY <1>1, BlockReads, ExternalsAssumption DEF post_state, on_block_accepts, on_block_asserts
<1> HIDE DEF state
<1>3. /\ state \in BeaconState
      /\ process_justification_and_finalization(state) \in BeaconStates
      /\ process_justification_and_finalization(state).current_justified_checkpoint.epoch
           >= state.current_justified_checkpoint.epoch
      /\ process_justification_and_finalization(state).finalized_checkpoint.epoch
           >= state.finalized_checkpoint.epoch
  BY <1>2, ExternalsAssumption
<1>4. process_justification_and_finalization(state) \in BeaconState
  BY <1>3, ExternalsAssumption
<1>5. /\ state.current_justified_checkpoint.epoch \in Nat
      /\ state.finalized_checkpoint.epoch \in Nat
      /\ process_justification_and_finalization(state).current_justified_checkpoint.epoch
           \in Nat
      /\ process_justification_and_finalization(state).finalized_checkpoint.epoch \in Nat
  BY <1>3, <1>4 DEF BeaconState, Checkpoint
<1> QED BY <1>2, <1>3, <1>4, <1>5 DEF state

(* The import realizes what the block's state claims, remembers what it    *)
(* pulls up, and realizes that too when the block's epoch is over.         *)
LEMMA OnBlockEffect ==
  ASSUME NEW s, IsStore(s), NEW sb \in SIGNED_BLOCKS, on_block_accepts(s, sb)
  PROVE  LET t == on_block(s, sb)
             state == post_state(s, sb)
             pulled == process_justification_and_finalization(state)
             cj == Tracker!newer(s.justified_checkpoint, state.current_justified_checkpoint)
             cf == Tracker!newer(s.finalized_checkpoint, state.finalized_checkpoint)
         IN  /\ t.time = s.time
             /\ t.blocks = put(s.blocks, sb.root, sb.message)
             /\ t.block_states = put(s.block_states, sb.root, state)
             /\ t.unrealized_justifications
                  = put(s.unrealized_justifications, sb.root,
                        pulled.current_justified_checkpoint)
             /\ t.unrealized_justified_checkpoint
                  = Tracker!newer(s.unrealized_justified_checkpoint,
                                  pulled.current_justified_checkpoint)
             /\ t.unrealized_finalized_checkpoint
                  = Tracker!newer(s.unrealized_finalized_checkpoint,
                                  pulled.finalized_checkpoint)
             /\ IF compute_epoch_at_slot(sb.message.slot) < get_current_store_epoch(s)
                THEN /\ t.justified_checkpoint
                          = Tracker!newer(cj, pulled.current_justified_checkpoint)
                     /\ t.finalized_checkpoint
                          = Tracker!newer(cf, pulled.finalized_checkpoint)
                ELSE /\ t.justified_checkpoint = cj
                     /\ t.finalized_checkpoint = cf
<1> DEFINE root == sb.root
           state == post_state(s, sb)
           inserted == insert_block(s, sb)
           notified == notify_ptc_messages(inserted, state, sb.message.payload_attestations)
           timed == record_block_timeliness(notified, root)
           boosted == update_proposer_boost_root(timed, get_head(s).root, root)
           updated == update_checkpoints(boosted, state.current_justified_checkpoint,
                                         state.finalized_checkpoint)
           t == compute_pulled_up_tip(updated, root)
<1>1. t = on_block(s, sb)
  BY DEF on_block, import_block
<1>2. root \in Root
  BY MessagesAssumption DEF SignedBeaconBlock
<1>3. /\ state \in BeaconStates
      /\ state.current_justified_checkpoint \in Checkpoint
      /\ state.finalized_checkpoint \in Checkpoint
  BY PostStateType DEF BeaconState
<1>4. /\ Shaped(inserted)
      /\ inserted.time = s.time
      /\ inserted.blocks = put(s.blocks, root, sb.message)
      /\ inserted.block_states = put(s.block_states, root, state)
      /\ inserted.unrealized_justifications = s.unrealized_justifications
      /\ inserted.justified_checkpoint = s.justified_checkpoint
      /\ inserted.finalized_checkpoint = s.finalized_checkpoint
      /\ inserted.unrealized_justified_checkpoint = s.unrealized_justified_checkpoint
      /\ inserted.unrealized_finalized_checkpoint = s.unrealized_finalized_checkpoint
  <2>1. Shaped(inserted)
    BY <1>3, InsertBlockType
  <2> QED BY <2>1 DEF insert_block, IsStore, StoreOver
<1> HIDE DEF state, root, inserted
<1>5. Shaped(notified) /\ SameTracked(inserted, notified)
  BY <1>4, NotifyType, UntrackedFields
<1> HIDE DEF notified
<1>6. Shaped(timed) /\ SameTracked(notified, timed)
  BY <1>5, TimelinessType, UntrackedFields
<1> HIDE DEF timed
<1>7. Shaped(boosted) /\ SameTracked(timed, boosted)
  BY <1>2, <1>6, BoostType, UntrackedFields
<1> HIDE DEF boosted
<1>8. SameTracked(inserted, boosted)
  BY <1>5, <1>6, <1>7 DEF SameTracked
<1>9. /\ Shaped(updated)
      /\ updated.time = s.time
      /\ updated.blocks = put(s.blocks, root, sb.message)
      /\ updated.block_states = put(s.block_states, root, state)
      /\ updated.unrealized_justifications = s.unrealized_justifications
      /\ updated.unrealized_justified_checkpoint = s.unrealized_justified_checkpoint
      /\ updated.unrealized_finalized_checkpoint = s.unrealized_finalized_checkpoint
      /\ updated.justified_checkpoint
           = Tracker!newer(s.justified_checkpoint, state.current_justified_checkpoint)
      /\ updated.finalized_checkpoint
           = Tracker!newer(s.finalized_checkpoint, state.finalized_checkpoint)
  BY <1>3, <1>4, <1>7, <1>8, UpdateCheckpointsType, UpdateCheckpointsEffect DEF SameTracked
<1> HIDE DEF updated
<1>10. /\ root \in DOMAIN updated.block_states
       /\ updated.block_states[root] = state
       /\ updated.blocks[root] = sb.message
       /\ get_current_store_epoch(updated) = get_current_store_epoch(s)
  BY <1>9 DEF put, get_current_store_epoch, get_current_slot
<1> HIDE DEF t
<1> QED BY <1>1, <1>9, <1>10, PulledUpEffect DEF t, state, root

-----------------------------------------------------------------------------
(* The refinement.                                                         *)

LEMMA EpochType == TypeOK => get_current_store_epoch(store) \in Nat
<1> SUFFICES ASSUME TypeOK PROVE get_current_store_epoch(store) \in Nat
  OBVIOUS
<1>1. store.time \in Nat
  BY DEF TypeOK, IsStore, StoreOver
<1>2. get_current_slot(store) \in Nat /\ SLOTS_PER_EPOCH \in Nat \ {0}
  BY <1>1, SlotType, ConfigAssumption DEF get_current_slot
<1> QED BY <1>2 DEF get_current_store_epoch, compute_epoch_at_slot

LEMMA TrackedTypeOK == TypeOK => Tracker!TypeOK
<1> SUFFICES ASSUME TypeOK PROVE Tracker!TypeOK
  OBVIOUS
<1>1. Shaped(store) /\ KeysAgree(store) /\ DOMAIN store.blocks \subseteq Root
  BY DEF TypeOK, IsStore, Shaped
<1>2. /\ store.justified_checkpoint \in Checkpoint
      /\ store.finalized_checkpoint \in Checkpoint
      /\ store.unrealized_justified_checkpoint \in Checkpoint
      /\ store.unrealized_finalized_checkpoint \in Checkpoint
  BY <1>1 DEF Shaped, StoreOver
<1>3. Tracker!Checkpoint = Checkpoint
  BY DEF Tracker!Checkpoint, Checkpoint
<1>4. ASSUME NEW root \in DOMAIN store.blocks
      PROVE  TrackedTips[root] \in Tracker!Tip
  <2> DEFINE state == store.block_states[root]
             pulled == process_justification_and_finalization(state)
  <2>1. state \in BeaconStates /\ store.blocks[root].slot \in Nat
        /\ store.unrealized_justifications[root] \in Checkpoint
    BY <1>1, <1>4 DEF Shaped, StoreOver, KeysAgree, BeaconBlock
  <2>2. state \in BeaconState /\ pulled \in BeaconState
    BY <2>1, ExternalsAssumption
  <2>3. /\ state.current_justified_checkpoint \in Checkpoint
        /\ state.finalized_checkpoint \in Checkpoint
        /\ pulled.finalized_checkpoint \in Checkpoint
    BY <2>2 DEF BeaconState
  <2>4. compute_epoch_at_slot(store.blocks[root].slot) \in Nat
    BY <2>1, ConfigAssumption DEF compute_epoch_at_slot
  <2> QED BY <1>3, <1>4, <2>1, <2>3, <2>4
          DEF TrackedTips, Tracker!Tip, Tracker!Finality, finality_of
<1>5. DOMAIN TrackedTips = DOMAIN store.blocks
  BY DEF TrackedTips
<1>6. TrackedTips \in [DOMAIN TrackedTips -> Tracker!Tip]
  <2>1. TrackedTips = [root \in DOMAIN TrackedTips |-> TrackedTips[root]]
    BY DEF TrackedTips
  <2> QED BY <1>4, <1>5, <2>1
<1> QED BY <1>1, <1>2, <1>3, <1>5, <1>6, EpochType DEF Tracker!TypeOK, Tracker!Finality

(* A new store tracks its anchor.                                          *)
LEMMA InitRefines == Init => Tracker!Init
<1> SUFFICES ASSUME Init PROVE Tracker!Init
  OBVIOUS
<1> DEFINE root == ANCHOR_BLOCK.root
           epoch == get_current_epoch(ANCHOR_STATE)
           checkpoint == [epoch |-> epoch, root |-> root]
<1>1. TypeOK
  BY InitType
<1>2. /\ store.justified_checkpoint = checkpoint
      /\ store.finalized_checkpoint = checkpoint
      /\ store.unrealized_justified_checkpoint = checkpoint
      /\ store.unrealized_finalized_checkpoint = checkpoint
      /\ store.time = (SLOT_DURATION_MS * ANCHOR_STATE.slot) \div 1000
      /\ DOMAIN store.blocks = {root}
      /\ store.blocks[root] = ANCHOR_BLOCK.message
      /\ store.block_states[root] = ANCHOR_STATE
      /\ store.unrealized_justifications[root] = checkpoint
  BY DEF Init, get_forkchoice_store, put, EmptyDict
<1>3. ANCHOR_STATE.slot \in Nat /\ ANCHOR_BLOCK.message.slot = ANCHOR_STATE.slot
  BY AnchorAssumption, ExternalsAssumption DEF BeaconState
<1>4. get_current_slot(store) = ANCHOR_STATE.slot
  <2> DEFINE slot == ANCHOR_STATE.slot
  <2>1. PICK seconds \in 1..SLOT_DURATION_MS : SLOT_DURATION_MS = 1000 * seconds
    BY WholeSecondsAssumption
  <2>2. seconds \in Nat \ {0} /\ SLOT_DURATION_MS \in Nat \ {0} /\ slot \in Nat
    BY <2>1, <1>3, ConfigAssumption
  <2> HIDE DEF slot
  <2>3. SLOT_DURATION_MS * slot = (slot * seconds) * 1000 /\ slot * seconds \in Nat
    BY <2>1, <2>2
  <2>4. (SLOT_DURATION_MS * slot) \div 1000 = slot * seconds
    BY <2>3, DivOfMultiple
  <2>5. (slot * seconds) * 1000 = slot * SLOT_DURATION_MS
    BY <2>1, <2>2
  <2>6. slot_at(slot * seconds) = slot
    BY <2>2, <2>5, DivOfMultiple DEF slot_at, GENESIS_SLOT
  <2> QED BY <1>2, <2>4, <2>6 DEF get_current_slot, slot
<1>5. /\ get_current_store_epoch(store) = epoch
      /\ compute_epoch_at_slot(store.blocks[root].slot) = epoch
  BY <1>2, <1>3, <1>4 DEF get_current_store_epoch, get_current_epoch
<1>6. DOMAIN TrackedTips = {root}
  BY <1>2 DEF TrackedTips
<1>7. /\ TrackedTips[root].epoch = epoch
      /\ TrackedTips[root].claimed = finality_of(ANCHOR_STATE)
      /\ TrackedTips[root].pulled_up =
           [justified |-> checkpoint,
            finalized |-> process_justification_and_finalization(
                            ANCHOR_STATE).finalized_checkpoint]
  BY <1>2, <1>5, <1>6 DEF TrackedTips
<1>8. epoch \in Nat /\ root \in Root
  BY <1>1, <1>5, EpochType, AnchorAssumption DEF SignedBeaconBlock
<1> HIDE DEF epoch
<1>9. /\ Tracker!at_most(TrackedTips[root].claimed,
           [justified |-> checkpoint, finalized |-> checkpoint])
      /\ Tracker!at_most(TrackedTips[root].pulled_up,
           [justified |-> checkpoint, finalized |-> checkpoint])
  BY <1>7, <1>8, AnchorAssumption DEF Tracker!at_most, finality_of, epoch
<1> QED BY <1>1, <1>2, <1>5, <1>6, <1>7, <1>8, <1>9, TrackedTypeOK DEF Tracker!Init

(* What the tracker sees is a function of the tracked fields.              *)
LEMMA SameTrackedStutters ==
  SameTracked(store, store') => UNCHANGED Tracker!vars
BY DEF SameTracked, Tracker!vars, TrackedTips, get_current_store_epoch, get_current_slot

(* A tick of one slot enters an epoch or changes nothing the tracker sees. *)
LEMMA CatchUpRefines == TypeOK /\ CatchUp => [Tracker!Next]_Tracker!vars
<1> SUFFICES ASSUME TypeOK, CatchUp PROVE [Tracker!Next]_Tracker!vars
  OBVIOUS
<1> DEFINE time == next_slot_start(store)
           slot == get_current_slot(store)
<1>1. Shaped(store) /\ store.time \in Nat
  BY DEF TypeOK, IsStore, Shaped, StoreOver
<1>2. time \in Nat /\ slot \in Nat /\ slot_at(time) = slot + 1
  BY <1>1, NextSlotStartType, NextSlotStart, SlotType DEF get_current_slot
<1>3. store' = on_tick_per_slot(store, time)
  BY DEF CatchUp
<1> HIDE DEF time, slot
<1>4. /\ store'.time = time
      /\ store'.unrealized_justified_checkpoint = store.unrealized_justified_checkpoint
      /\ store'.unrealized_finalized_checkpoint = store.unrealized_finalized_checkpoint
      /\ store'.blocks = store.blocks
      /\ store'.block_states = store.block_states
      /\ store'.unrealized_justifications = store.unrealized_justifications
      /\ IF compute_slots_since_epoch_start(slot + 1) = 0
         THEN /\ store'.justified_checkpoint
                   = Tracker!newer(store.justified_checkpoint,
                                   store.unrealized_justified_checkpoint)
              /\ store'.finalized_checkpoint
                   = Tracker!newer(store.finalized_checkpoint,
                                   store.unrealized_finalized_checkpoint)
         ELSE /\ store'.justified_checkpoint = store.justified_checkpoint
              /\ store'.finalized_checkpoint = store.finalized_checkpoint
  <2>1. slot_at(time) > get_current_slot(store)
    BY <1>2 DEF slot
  <2> QED BY <1>1, <1>2, <1>3, <2>1, TickEffect
<1>5. get_current_store_epoch(store)'
        = IF compute_slots_since_epoch_start(slot + 1) = 0
          THEN get_current_store_epoch(store) + 1 ELSE get_current_store_epoch(store)
  <2>1. get_current_store_epoch(store)' = compute_epoch_at_slot(slot + 1)
    BY <1>2, <1>4 DEF get_current_store_epoch, get_current_slot
  <2>2. get_current_store_epoch(store) = compute_epoch_at_slot(slot)
    BY DEF get_current_store_epoch, slot
  <2> QED BY <1>2, <2>1, <2>2, NextSlotEpoch
<1>6. TrackedTips' = TrackedTips
  BY <1>4 DEF TrackedTips
<1>7. CASE compute_slots_since_epoch_start(slot + 1) = 0
  BY <1>4, <1>5, <1>6, <1>7 DEF Tracker!Next, Tracker!EnterEpoch, Tracker!advance
<1>8. CASE compute_slots_since_epoch_start(slot + 1) # 0
  BY <1>4, <1>5, <1>6, <1>8 DEF Tracker!vars
<1> QED BY <1>7, <1>8

(* The last step of a tick stays in the slot that the loop has reached.    *)
LEMMA EndTickRefines == TypeOK /\ EndTick => UNCHANGED Tracker!vars
<1> SUFFICES ASSUME TypeOK, EndTick PROVE UNCHANGED Tracker!vars
  OBVIOUS
<1>1. Shaped(store) /\ store.time \in Nat /\ tick_time \in Nat
  BY DEF TypeOK, IsStore, Shaped, StoreOver
<1>2. /\ slot_at(store.time) \in Nat /\ slot_at(tick_time) \in Nat
      /\ slot_at(store.time) <= slot_at(tick_time)
  BY <1>1, SlotType, SlotMonotone DEF EndTick
<1>3. slot_at(tick_time) = get_current_slot(store)
  BY <1>2 DEF EndTick, get_current_slot
<1>4. ~(slot_at(tick_time) > get_current_slot(store))
  BY <1>2, <1>3
<1>5. /\ store'.time = tick_time
      /\ store'.unrealized_justified_checkpoint = store.unrealized_justified_checkpoint
      /\ store'.unrealized_finalized_checkpoint = store.unrealized_finalized_checkpoint
      /\ store'.blocks = store.blocks
      /\ store'.block_states = store.block_states
      /\ store'.unrealized_justifications = store.unrealized_justifications
      /\ store'.justified_checkpoint = store.justified_checkpoint
      /\ store'.finalized_checkpoint = store.finalized_checkpoint
  BY <1>1, <1>4, TickEffect DEF EndTick
<1>6. get_current_store_epoch(store)' = get_current_store_epoch(store)
  BY <1>3, <1>5 DEF get_current_store_epoch, get_current_slot
<1> QED BY <1>5, <1>6 DEF Tracker!vars, TrackedTips

(* Importing a block is the tracker's Import.                              *)
LEMMA OnBlockRefines ==
  ASSUME NEW sb \in SIGNED_BLOCKS, TypeOK, TypeOK', OnBlock(sb)
  PROVE  Tracker!Next
<1> DEFINE root == sb.root
           state == post_state(store, sb)
           pulled == process_justification_and_finalization(state)
           tip == [epoch |-> compute_epoch_at_slot(sb.message.slot),
                   claimed |-> finality_of(state),
                   pulled_up |-> finality_of(pulled)]
<1>1. IsStore(store) /\ on_block_accepts(store, sb) /\ store' = on_block(store, sb)
  BY DEF TypeOK, OnBlock
<1>2. /\ state \in BeaconState /\ pulled \in BeaconState
      /\ state.current_justified_checkpoint.epoch <= pulled.current_justified_checkpoint.epoch
      /\ state.finalized_checkpoint.epoch <= pulled.finalized_checkpoint.epoch
  BY <1>1, PostStateType
<1>3. /\ root \in Root /\ root \notin DOMAIN store.blocks
      /\ sb.message.slot \in Nat
      /\ sb.message.slot <= get_current_slot(store)
  <2>1. /\ sb.message.slot \in Nat /\ root \in Root
        /\ get_current_slot(store) \in Nat
    BY <1>1, MessagesAssumption, SlotType
       DEF SignedBeaconBlock, BeaconBlock, get_current_slot, IsStore, StoreOver
  <2> QED BY <1>1, <2>1 DEF on_block_accepts, on_block_asserts
<1>4. tip.epoch <= get_current_store_epoch(store)
  <2>1. get_current_slot(store) \in Nat /\ SLOTS_PER_EPOCH \in Nat \ {0}
    BY <1>1, SlotType, ConfigAssumption DEF get_current_slot, IsStore, StoreOver
  <2> QED BY <1>3, <2>1, DivMonotone DEF get_current_store_epoch, compute_epoch_at_slot
<1>5. Tracker!at_most(tip.claimed, tip.pulled_up)
  BY <1>2 DEF Tracker!at_most, finality_of
<1> DEFINE cj == Tracker!newer(store.justified_checkpoint,
                               state.current_justified_checkpoint)
           cf == Tracker!newer(store.finalized_checkpoint, state.finalized_checkpoint)
<1>6. /\ store'.time = store.time
      /\ store'.blocks = put(store.blocks, root, sb.message)
      /\ store'.block_states = put(store.block_states, root, state)
      /\ store'.unrealized_justifications
           = put(store.unrealized_justifications, root, pulled.current_justified_checkpoint)
      /\ store'.unrealized_justified_checkpoint
           = Tracker!newer(store.unrealized_justified_checkpoint,
                           pulled.current_justified_checkpoint)
      /\ store'.unrealized_finalized_checkpoint
           = Tracker!newer(store.unrealized_finalized_checkpoint,
                           pulled.finalized_checkpoint)
      /\ IF tip.epoch < get_current_store_epoch(store)
         THEN /\ store'.justified_checkpoint
                   = Tracker!newer(cj, pulled.current_justified_checkpoint)
              /\ store'.finalized_checkpoint
                   = Tracker!newer(cf, pulled.finalized_checkpoint)
         ELSE store'.justified_checkpoint = cj /\ store'.finalized_checkpoint = cf
  BY <1>1, OnBlockEffect
<1>7. get_current_store_epoch(store)' = get_current_store_epoch(store)
  BY <1>6 DEF get_current_store_epoch, get_current_slot
<1> HIDE DEF root, state, pulled
<1>8. KeysAgree(store)
  BY <1>1 DEF IsStore
<1>9. /\ DOMAIN TrackedTips = DOMAIN store.blocks
      /\ DOMAIN TrackedTips' = DOMAIN store.blocks \cup {root}
  BY <1>6 DEF TrackedTips, put
<1>10. TrackedTips'[root] = tip
  <2>1. /\ store'.blocks[root] = sb.message
        /\ store'.block_states[root] = state
        /\ store'.unrealized_justifications[root] = pulled.current_justified_checkpoint
        /\ root \in DOMAIN store'.blocks
    BY <1>6 DEF put
  <2> QED BY <2>1 DEF TrackedTips, finality_of, pulled
<1>11. \A r \in DOMAIN TrackedTips : TrackedTips'[r] = TrackedTips[r]
  <2> SUFFICES ASSUME NEW r \in DOMAIN store.blocks
               PROVE  TrackedTips'[r] = TrackedTips[r]
    BY <1>9
  <2>1. /\ store'.blocks[r] = store.blocks[r]
        /\ store'.block_states[r] = store.block_states[r]
        /\ store'.unrealized_justifications[r] = store.unrealized_justifications[r]
        /\ r \in DOMAIN store'.blocks
    BY <1>3, <1>6, <1>8 DEF put, KeysAgree
  <2> QED BY <2>1 DEF TrackedTips
<1>12. TrackedTips' \in [DOMAIN TrackedTips' -> Tracker!Tip]
  <2>1. Tracker!TypeOK'
    BY TrackedTypeOK, PTL
  <2> QED BY <2>1 DEF Tracker!TypeOK
<1>13. Tracker!Import(root)
  <2> HIDE DEF cj, cf
  <2>1. /\ root \notin DOMAIN TrackedTips
        /\ TrackedTips' \in [DOMAIN TrackedTips \cup {root} -> Tracker!Tip]
    BY <1>3, <1>9, <1>12
  <2>2. [justified |-> store'.unrealized_justified_checkpoint,
         finalized |-> store'.unrealized_finalized_checkpoint]
          = Tracker!advance([justified |-> store.unrealized_justified_checkpoint,
                             finalized |-> store.unrealized_finalized_checkpoint],
                            tip.pulled_up)
    BY <1>6 DEF Tracker!advance, finality_of
  <2>3. Tracker!advance([justified |-> store.justified_checkpoint,
                         finalized |-> store.finalized_checkpoint], tip.claimed)
          = [justified |-> cj, finalized |-> cf]
    BY DEF Tracker!advance, finality_of, cj, cf
  <2>4. [justified |-> store'.justified_checkpoint,
         finalized |-> store'.finalized_checkpoint]
          = IF tip.epoch < get_current_store_epoch(store)
            THEN Tracker!advance([justified |-> cj, finalized |-> cf], tip.pulled_up)
            ELSE [justified |-> cj, finalized |-> cf]
    BY <1>6 DEF Tracker!advance, finality_of
  <2> HIDE DEF tip
  <2> QED BY <1>4, <1>5, <1>7, <1>10, <1>11, <2>1, <2>2, <2>3, <2>4 DEF Tracker!Import
<1> QED BY <1>3, <1>13 DEF Tracker!Next

(* Votes, evidence and payloads change nothing the tracker sees.           *)
LEMMA MessagesUntracked ==
  ASSUME TypeOK,
         \/ \E attestation \in ATTESTATIONS, is_from_block \in BOOLEAN :
              OnAttestation(attestation, is_from_block)
         \/ \E slashing \in SLASHINGS : OnAttesterSlashing(slashing)
         \/ \E root \in ENVELOPES : OnExecutionPayloadEnvelope(root)
         \/ \E message \in PTC_MESSAGES, is_from_block \in BOOLEAN :
              OnPayloadAttestationMessage(message, is_from_block)
  PROVE  SameTracked(store, store')
<1>1. Shaped(store)
  BY DEF TypeOK, IsStore, Shaped
<1>2. ASSUME NEW attestation \in ATTESTATIONS, NEW is_from_block \in BOOLEAN,
             OnAttestation(attestation, is_from_block)
      PROVE  SameTracked(store, store')
  <2> DEFINE r == store_target_checkpoint_state(store, attestation.data.target)
  <2>1. SameTracked(store, r)
    BY <1>1, UntrackedFields
  <2>2. Shaped(r)
    BY <1>2, TargetStateType
       DEF OnAttestation, on_attestation_accepts, validate_on_attestation, TypeOK,
           IsStore, Shaped
  <2>3. store' = update_latest_messages(r, attestation)
    BY <1>2 DEF OnAttestation, on_attestation
  <2> HIDE DEF r
  <2>4. SameTracked(r, store')
    BY <2>2, <2>3, UntrackedFields
  <2> QED BY <2>1, <2>4 DEF SameTracked
<1>3. ASSUME NEW slashing \in SLASHINGS, OnAttesterSlashing(slashing)
      PROVE  SameTracked(store, store')
  BY <1>1, <1>3, UntrackedFields DEF OnAttesterSlashing
<1>4. ASSUME NEW root \in ENVELOPES, OnExecutionPayloadEnvelope(root)
      PROVE  SameTracked(store, store')
  BY <1>1, <1>4, UntrackedFields DEF OnExecutionPayloadEnvelope
<1>5. ASSUME NEW message \in PTC_MESSAGES, NEW is_from_block \in BOOLEAN,
             OnPayloadAttestationMessage(message, is_from_block)
      PROVE  SameTracked(store, store')
  BY <1>1, <1>5, UntrackedFields
     DEF OnPayloadAttestationMessage, on_payload_attestation_message
<1> QED BY <1>2, <1>3, <1>4, <1>5

LEMMA StepRefines == TypeOK /\ TypeOK' /\ [Next]_vars => [Tracker!Next]_Tracker!vars
<1> SUFFICES ASSUME TypeOK, TypeOK', [Next]_vars PROVE [Tracker!Next]_Tracker!vars
  OBVIOUS
<1>1. ASSUME NEW time \in TickTimes, BeginTick(time) PROVE [Tracker!Next]_Tracker!vars
  BY <1>1, SameTrackedStutters DEF BeginTick, SameTracked
<1>2. ASSUME NEW sb \in SIGNED_BLOCKS, OnBlock(sb) PROVE [Tracker!Next]_Tracker!vars
  BY <1>2, OnBlockRefines
<1>3. SameTracked(store, store') => [Tracker!Next]_Tracker!vars
  BY SameTrackedStutters
<1>4. CASE UNCHANGED vars
  BY <1>4, SameTrackedStutters DEF vars, SameTracked
<1> QED BY <1>1, <1>2, <1>3, <1>4, MessagesUntracked, CatchUpRefines, EndTickRefines
        DEF Next

(* The store implements the tracker.                                       *)
THEOREM StoreImplementsTracker == Spec => TracksCheckpoints
<1>1. Spec => []TypeOK
  BY StoreTypeCorrect
<1> QED BY <1>1, InitRefines, StepRefines, PTL DEF Spec, TracksCheckpoints, Tracker!Spec

-----------------------------------------------------------------------------
(* What the store inherits.                                                *)

(* Tracker and Proved are the same instance under two names.               *)
LEMMA SameNames ==
  /\ Tracker!Init => Proved!Init
  /\ [Tracker!Next]_Tracker!vars => [Proved!Next]_Proved!vars
<1>1. /\ Tracker!TypeOK = Proved!TypeOK
      /\ Tracker!Tip = Proved!Tip
      /\ \A c, d : Tracker!at_most(c, d) = Proved!at_most(c, d)
      /\ \A c, d : Tracker!advance(c, d) = Proved!advance(c, d)
  BY DEF Tracker!TypeOK, Proved!TypeOK, Tracker!Tip, Proved!Tip, Tracker!Finality,
         Proved!Finality, Tracker!Checkpoint, Proved!Checkpoint, Tracker!at_most,
         Proved!at_most, Tracker!advance, Proved!advance, Tracker!newer, Proved!newer
<1>2. Tracker!Init => Proved!Init
  BY <1>1 DEF Tracker!Init, Proved!Init
<1>3. Tracker!EnterEpoch => Proved!EnterEpoch
  BY <1>1 DEF Tracker!EnterEpoch, Proved!EnterEpoch
<1>4. \A root : Tracker!Import(root) => Proved!Import(root)
  BY <1>1 DEF Tracker!Import, Proved!Import
<1>5. UNCHANGED Tracker!vars => UNCHANGED Proved!vars
  BY DEF Tracker!vars, Proved!vars
<1> QED BY <1>2, <1>3, <1>4, <1>5 DEF Tracker!Next, Proved!Next

LEMMA TrackerInvariantHere == Spec => []Proved!IInv
<1>1. Init => Proved!IInv
  BY InitRefines, SameNames, Proved!InitIInv
<1>2. TypeOK /\ TypeOK' /\ Proved!IInv /\ [Next]_vars => Proved!IInv'
  BY StepRefines, SameNames, Proved!NextIInv
<1> QED BY <1>1, <1>2, StoreTypeCorrect, PTL DEF Spec

(* The voting source of a block is the one the tracker gives its tip.      *)
LEMMA SourcesAreVotingSources ==
  TypeOK /\ Proved!SourcesRealized => VotingSourceNeverAhead
<1> SUFFICES ASSUME TypeOK, Proved!SourcesRealized, NEW root \in known
             PROVE  get_voting_source(store, root).epoch
                      <= store.justified_checkpoint.epoch
  BY DEF VotingSourceNeverAhead
<1>1. root \in DOMAIN store.blocks /\ root \in DOMAIN store.block_states
  BY DEF known, TypeOK, IsStore, KeysAgree
<1>2. Proved!voting_source(TrackedTips[root]) = get_voting_source(store, root)
  BY <1>1 DEF Proved!voting_source, TrackedTips, finality_of, get_voting_source,
              block_slot, block_at, block_state
<1>3. root \in DOMAIN TrackedTips
  BY <1>1 DEF TrackedTips
<1> QED BY <1>2, <1>3 DEF Proved!SourcesRealized

(* No block votes from a checkpoint the store has not realized.            *)
THEOREM VotingSources == Spec => []VotingSourceNeverAhead
<1>1. TypeOK /\ Proved!IInv => VotingSourceNeverAhead
  BY SourcesAreVotingSources, Proved!IInvImpliesSources
<1> QED BY <1>1, StoreTypeCorrect, TrackerInvariantHere, PTL

(* Realized checkpoints never overtake the unrealized ones.                *)
THEOREM RealizedAtMostUnrealized == Spec => []RealizedNeverAheadOfUnrealized
<1>1. Proved!IInv => RealizedNeverAheadOfUnrealized
  BY DEF Proved!IInv, Proved!RealizedAtMostUnrealized, Proved!at_most,
         RealizedNeverAheadOfUnrealized
<1> QED BY <1>1, TrackerInvariantHere, PTL

(* Checkpoints are replaced by checkpoints of a later epoch only.          *)
THEOREM CheckpointsAdvance == Spec => CheckpointsOnlyAdvance
<1> DEFINE Names == {"justified_checkpoint", "finalized_checkpoint",
                     "unrealized_justified_checkpoint", "unrealized_finalized_checkpoint"}
           Newer == \A name \in Names :
                      store'[name] # store[name] => store'[name].epoch > store[name].epoch
<1>1. TypeOK /\ TypeOK' /\ Proved!IInv /\ [Next]_vars => [Newer]_vars
  <2> SUFFICES ASSUME TypeOK, TypeOK', Proved!IInv, [Next]_vars PROVE Newer
    OBVIOUS
  <2>1. /\ Proved!only_newer(store.justified_checkpoint, store'.justified_checkpoint)
        /\ Proved!only_newer(store.finalized_checkpoint, store'.finalized_checkpoint)
        /\ Proved!only_newer(store.unrealized_justified_checkpoint,
                             store'.unrealized_justified_checkpoint)
        /\ Proved!only_newer(store.unrealized_finalized_checkpoint,
                             store'.unrealized_finalized_checkpoint)
    BY StepRefines, SameNames, Proved!StepOnlyAdvances
  <2> QED BY <2>1 DEF Proved!only_newer
<1> QED BY <1>1, StoreTypeCorrect, TrackerInvariantHere, PTL DEF Spec, CheckpointsOnlyAdvance
=============================================================================
