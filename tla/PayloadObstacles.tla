--------------------------- MODULE PayloadObstacles ---------------------------
(***************************************************************************)
(* The executions that the repository replays on the Python specification  *)
(* to show what the premises of the safety claim are for.  They share a    *)
(* fixture, PayloadFixture.                                                *)
(*                                                                         *)
(* Each script is a next-state relation of its own.  Where a script fixes  *)
(* one schedule, the relation also takes its neighbours: a message that    *)
(* comes earlier, later or not at all, an adversary that falls silent.     *)
(***************************************************************************)
EXTENDS PayloadFixture

(* What the scripts read. *)

vote_events(slot) ==
  [k \in 1..Cardinality(VotesOf(slot)) |-> vote_event(SetToSeq(VotesOf(slot))[k])]

head_of(v) == get_head(stores[v])

knows(v, root) == root \in DOMAIN stores[v].blocks

balance_state(v) == checkpoint_state(stores[v], stores[v].justified_checkpoint)

support(v, root) == get_attestation_score(stores[v], get_node_for_root(root), balance_state(v))

threshold(v, root) == compute_safety_threshold(stores[v], root, balance_state(v))

discount(v, root) == compute_empty_slot_support_discount(stores[v], balance_state(v), root)

branch_weight(v, status) == get_weight(stores[v], NewNode(ANCHOR, status))

(* The honest votes of past slots that a node has not counted.             *)
lost_weight(v) ==
  balance_of({vote.validator : vote \in
    {vote \in votes :
       /\ vote.data.slot < current_slot
       /\ vote.validator \notin DOMAIN stores[v].latest_messages}})

(* A schedule of a slot's first second, or of a later one: the events of   *)
(* every node.                                                             *)
arrival(second, events) == [second |-> second, events |-> events]

SlotDone == Unvoted = {}

-----------------------------------------------------------------------------
(* The delivery script: the sender alone has the payload of block 2.  The  *)
(* envelope reaches the receiver in the first second of a later slot,      *)
(* before its votes or after, or never; the sibling comes in a slot of the *)
(* adversary's choice.                                                     *)

DeliveryArrivals ==
  IF time # slot_start(1) \/ ~SlotDone THEN {}
  ELSE {arrival(slot_start(2) - 1,
          [v \in Node |->
             <<block_event(fixture_block(BLOCK, 1, 0))>>
               \o (IF v = "sender" THEN <<envelope_event(BLOCK)>> ELSE <<>>)])}

DELIVERY_SLOTS == 7   \* the script ends in slot 7

(* Whether a slot can begin with these messages. *)
may_deliver(early, late, sibling) ==
  /\ SlotDone
  /\ current_slot < DELIVERY_SLOTS
  /\ current_slot = 1 => knows("sender", BLOCK)
  /\ early = <<>> \/ late = <<>>
  /\ BLOCK \in stores["receiver"].payloads \/ ~knows("receiver", BLOCK)
       => early = <<>> /\ late = <<>>
  /\ sibling # <<>> => ~knows("sender", SIBLING) /\ current_slot >= 2

DeliverySchedules ==
  LET delivered == vote_events(current_slot)
      message == {<<>>, <<envelope_event(BLOCK)>>}
      rival == {<<>>, <<block_event(fixture_block(SIBLING, current_slot + 1, 0))>>}
  IN  {[v \in Node |-> IF v = "sender" THEN delivered \o m[3]
                      ELSE m[1] \o delivered \o m[2] \o m[3]] :
         m \in {m \in message \X message \X rival : may_deliver(m[1], m[2], m[3])}}

(* What the script asserts, on all schedules that keep the payload from    *)
(* the receiver: sender and receiver agree on the block and differ on its  *)
(* payload; the sender confirms it in slot 6 on votes that the receiver    *)
(* has all rejected; and a boosted sibling then takes the receiver's head  *)
(* away from it.                                                           *)
DeliveryAsserts ==
  /\ current_slot >= 3 /\ BLOCK \notin stores["receiver"].payloads =>
       /\ head_of("sender") = NewNode(BLOCK, FULL)
       /\ support("receiver", BLOCK) = 0
       /\ lost_weight("receiver") = 100 * UNIT * (current_slot - 2)
       /\ IF knows("receiver", SIBLING)
          THEN head_of("receiver").root = SIBLING
          ELSE head_of("receiver") = NewNode(BLOCK, EMPTY)
  /\ current_slot = 6 =>
       /\ support("sender", BLOCK) = 400 * UNIT
       /\ threshold("sender", BLOCK) = 395 * UNIT
       /\ fcrs["sender"].confirmed_root = BLOCK

-----------------------------------------------------------------------------
(* The branch script: the committees of three empty slots vote for the     *)
(* anchor without its payload, validator 100 for the anchor with it, and   *)
(* the child of slot 4 builds on the payload.  In every slot from then on  *)
(* the committee votes for its head or is made to vote for the child; the  *)
(* votes of validator 698 are withheld until after the rule ran in slot 7. *)

CONSTANT BRANCH_SLOTS   \* the script ends in slot 7, this model goes on

LATE == 698

InjectVotes ==
  /\ script = "branch"
  /\ knows("store", BLOCK)
  /\ CastInjected(Unvoted \ {LATE},
       attestation_data(current_slot, BLOCK, IF current_slot > 4 THEN 1 ELSE 0))

(* What is delivered with the votes of a slot.  Validator 100 may be       *)
(* silent.                                                                 *)
branch_events(delivered, full) ==
  CASE current_slot = 1 -> <<envelope_event(ANCHOR)>> \o full \o delivered
    [] current_slot = 3 -> delivered \o <<block_event(fixture_block(BLOCK, 4, 1001)),
                                          envelope_event(BLOCK)>>
    [] OTHER -> delivered

(* Whether a slot can begin with, or without, the vote of validator 100. *)
may_voice(full) ==
  /\ SlotDone
  /\ current_slot < BRANCH_SLOTS
  /\ current_slot # 1 => full = <<>>

BranchSchedules ==
  LET in_time == SelectSeq(vote_events(current_slot),
                   LAMBDA event : event.attestation.attesting_indices # {LATE})
      voiced == {<<>>, <<attestation_event({100}, attestation_data(1, ANCHOR, 1))>>}
  IN  {[v \in Node |-> branch_events(in_time, full)] : full \in {f \in voiced : may_voice(f)}}

BranchLate ==
  /\ script = "branch"
  /\ time = slot_start(7)
  /\ LATE \notin DOMAIN stores["store"].latest_messages
  /\ \E vote \in {vote \in votes : vote.validator = LATE} :
       HandleMore("store", <<vote_event(vote)>>)

injected == {slot \in 4..BRANCH_SLOTS :
               \E vote \in VotesOf(slot) : vote.data.beacon_block_root = BLOCK}

full_voted == 100 \in DOMAIN stores["store"].latest_messages

(* Voters of the first three slots after the child see the anchor without  *)
(* its payload as the head, however many votes for the child were injected;*)
(* those that follow their heads keep the child from ever being confirmed. *)
HeadsStayOffTheChild ==
  /\ current_slot \in 1..6 => head_of("store") = NewNode(ANCHOR, EMPTY)
  /\ injected = {} => support("store", BLOCK) = 0

(* When the child is confirmed, its payload branch of the anchor outweighs *)
(* the other by the proposer boost and by what the adversary may move: no  *)
(* late vote changes the head under it.  With the discount of every vote   *)
(* for the anchor, two late votes do.                                      *)
ConfirmedBranchHolds ==
  fcrs["store"].confirmed_root = BLOCK /\ time = slot_start(current_slot) =>
    branch_weight("store", FULL)
      > branch_weight("store", EMPTY) + compute_proposer_score(balance_state("store"))
          + 2 * get_adversarial_weight(stores["store"], balance_state("store"), BLOCK)

(* What the script prints of the weights, before and after the late votes. *)
BranchWeights ==
  /\ current_slot = 4 /\ time = slot_start(4) /\ full_voted =>
       /\ branch_weight("store", FULL) = 41 * UNIT
       /\ branch_weight("store", EMPTY) = 299 * UNIT
  /\ current_slot = 7 /\ injected \ {7} = 4..6 /\ full_voted =>
       LET late == LATE \in DOMAIN stores["store"].latest_messages
       IN  /\ support("store", BLOCK) = 298 * UNIT
           /\ branch_weight("store", FULL) = 299 * UNIT
           /\ branch_weight("store", EMPTY) = (IF late THEN 301 ELSE 299) * UNIT
           /\ head_of("store") = IF late THEN NewNode(ANCHOR, EMPTY) ELSE NewNode(BLOCK, FULL)

(* The script asserts that the rule confirms the child in slot 7, with a   *)
(* discount of 225 units: every vote for the anchor in the empty slots.    *)
ScriptConfirmsChild ==
  current_slot = 7 /\ injected \ {7} = 4..6 /\ full_voted =>
    /\ discount("store", BLOCK) = 225 * UNIT
    /\ threshold("store", BLOCK) = 282 * UNIT + UNIT \div 2
    /\ fcrs["store"].confirmed_root = BLOCK

-----------------------------------------------------------------------------
(* The accepted script: in the slots 1 to 6 the source sees the anchor     *)
(* with its payload and the target without, because their validators and   *)
(* the adversary's split votes entrench what each saw first.  The child of *)
(* slot 7 builds on the payload, and the whole committee of each slot from *)
(* then on sees it in time.  Every premise of the safety claim holds.      *)
(*                                                                         *)
(* The adversary may stop splitting its votes, for silence or for one vote *)
(* to both, and the child's payload may reach the target last.             *)

CONSTANT ACCEPTED_SLOTS   \* the script asserts up to slot 12

CHILD_SLOT == 7

adversary_of(slot) == get_beacon_committee(slot) \ honest

(* The adversary's vote of a slot for a node. *)
split_vote(v, slot) ==
  IF v = "target" THEN attestation_data(slot, ANCHOR, 0)
  ELSE IF slot < CHILD_SLOT THEN attestation_data(slot, ANCHOR, 1)
  ELSE attestation_data(slot, BLOCK, IF slot > CHILD_SLOT THEN 1 ELSE 0)

adversary_events(plan, v, slot) ==
  CASE adversary_of(slot) = {} \/ plan = "silent" -> <<>>
    [] plan = "split" -> <<attestation_event(adversary_of(slot), split_vote(v, slot))>>
    [] plan = "joint" -> <<attestation_event(adversary_of(slot), split_vote("target", slot))>>

(* The adversary has split all its votes so far. *)
SplitSoFar ==
  \A slot \in 1..current_slot - 1 : \A v \in Node :
    \A i \in adversary_of(slot) :
      /\ i \in DOMAIN stores[v].latest_messages
      /\ stores[v].latest_messages[i] =
           [slot |-> slot, root |-> split_vote(v, slot).beacon_block_root,
            payload_present |-> split_vote(v, slot).index = 1]

LastHeard ==
  adversary_of(current_slot - 1) \subseteq DOMAIN stores["target"].latest_messages

(* Mutant: the network may keep a payload from the target. *)
PayloadsMayBeLost == TRUE

(* The payloads are relayed before the slot ends. *)
PayloadsDelivered ==
  /\ current_slot = 1 => ANCHOR \in stores["target"].payloads
  /\ current_slot = CHILD_SLOT => BLOCK \in stores["target"].payloads

(* Whether a slot can begin with this plan of the adversary. *)
may_attack(plan) ==
  /\ SlotDone
  /\ current_slot < ACCEPTED_SLOTS
  /\ PayloadsDelivered
  /\ SplitSoFar \/ plan = (IF LastHeard THEN "joint" ELSE "silent")

AcceptedSchedules ==
  LET delivered == vote_events(current_slot)
  IN  {[v \in Node |-> delivered \o adversary_events(plan, v, current_slot)] :
         plan \in {p \in {"split", "silent", "joint"} : may_attack(p)}}

(* An envelope for one node alone. *)
envelope_for(w, root) == [v \in Node |-> IF v = w THEN <<envelope_event(root)>> ELSE <<>>]

(* The payload of the anchor: to the source after the target has voted, to *)
(* the target after the source has voted.  The child and its payload: to   *)
(* both before they vote, the payload to the target perhaps after.         *)
AcceptedArrivals ==
  LET child == block_event(fixture_block(BLOCK, CHILD_SLOT, 1001))
      with_payload == <<child, envelope_event(BLOCK)>>
  IN  CASE time = slot_start(1) /\ Unvoted = {i \in Unvoted : Owner[i] = "source"} ->
             {arrival(time + 1, envelope_for("source", ANCHOR))}
        [] time = slot_start(1) + 1 /\ SlotDone ->
             {arrival(slot_start(2) - 1, envelope_for("target", ANCHOR))}
        [] time = slot_start(CHILD_SLOT) ->
             {arrival(time + 1, [v \in Node |-> IF v \in behind THEN <<child>> ELSE with_payload])
              : behind \in {{}, {"target"}}}
        [] /\ time = slot_start(CHILD_SLOT) + 1 /\ SlotDone
           /\ BLOCK \notin stores["target"].payloads ->
             {arrival(slot_start(CHILD_SLOT + 1) - 1, envelope_for("target", BLOCK))}
        [] OTHER -> {}

(* In slot 1 the target votes before the payload and the source after it;  *)
(* everyone votes after the child's block.                                 *)
AcceptedVoters ==
  CASE current_slot = 1 ->
         {i \in Unvoted : Owner[i] = IF time = slot_start(1) THEN "target" ELSE "source"}
    [] time = slot_start(CHILD_SLOT) -> {}
    [] OTHER -> Unvoted

(* The adversary breaks no premise: it only splits its votes.               *)
AcceptedByPremises == broken = {}

(* The two views disagree on the anchor's payload until the child comes,   *)
(* and the target leaves the child aside after it: as long as the          *)
(* adversary splits, in the weights that the script asserts.               *)
AcceptedAsserts ==
  SplitSoFar /\ time = slot_start(current_slot) =>
    /\ current_slot \in 2..7 =>
         /\ head_of("source") = NewNode(ANCHOR, FULL)
         /\ head_of("target") = NewNode(ANCHOR, EMPTY)
    /\ current_slot \in 8..12 =>
         /\ head_of("source").root = BLOCK
         /\ head_of("target") = NewNode(ANCHOR, EMPTY)
         /\ fcrs["source"].confirmed_root = ANCHOR
    /\ current_slot = 11 =>
         /\ support("source", BLOCK) = 400 * UNIT
         /\ threshold("source", BLOCK) = 545 * UNIT
         /\ discount("source", BLOCK) = 150 * UNIT
         /\ branch_weight("target", FULL) = 450 * UNIT
         /\ branch_weight("target", EMPTY) = 550 * UNIT
    /\ current_slot = 12 =>
         /\ branch_weight("target", FULL) = 525 * UNIT
         /\ branch_weight("target", EMPTY) = 575 * UNIT

(* The ledger of the target: its two branches of the anchor weigh what the *)
(* honest votes for the child, the honest votes for the anchor and the     *)
(* adversary's votes add up to, and the honest support of the child alone  *)
(* already exceeds the adversary's weight and the boost from slot 12 on.   *)
LedgerBalances ==
  SplitSoFar /\ time = slot_start(current_slot) /\ current_slot > 7 =>
    LET window == {vote \in votes : vote.data.slot \in 1..current_slot - 1}
        cast(root, index) ==
          balance_of({vote.validator : vote \in
            {vote \in window : /\ vote.data.beacon_block_root = root
                               /\ root = ANCHOR => vote.data.index = index}})
        S == cast(BLOCK, 0)
        B == balance_of(UNION {adversary_of(slot) : slot \in 1..current_slot - 1})
        P == get_proposer_score(stores["target"])
    IN  /\ branch_weight("target", FULL) = S + cast(ANCHOR, 1)
        /\ branch_weight("target", EMPTY) = B + cast(ANCHOR, 0)
        /\ current_slot >= 12 => S >= B + P + 1
-----------------------------------------------------------------------------
(* The executions of the three scripts. *)

Schedules ==
  CASE script = "delivery" -> DeliverySchedules
    [] script = "branch" -> BranchSchedules
    [] script = "accepted" -> AcceptedSchedules

Arrivals ==
  CASE script = "delivery" -> DeliveryArrivals
    [] script = "branch" -> {}
    [] script = "accepted" -> AcceptedArrivals

(* Everyone of the committee votes in the slot's first second, but in the  *)
(* accepted script.                                                        *)
Voters == IF script = "accepted" THEN AcceptedVoters ELSE Unvoted

ScriptSlot == \E schedule \in Schedules : BeginSlot(schedule)

ScriptSecond == \E message \in Arrivals : LaterSecond(message.second, message.events)

ScriptVotes == CastVotes(Voters)

ObstaclesNext == ScriptSlot \/ ScriptSecond \/ ScriptVotes \/ InjectVotes \/ BranchLate

ObstaclesSpec == ExecutionInit /\ [][ObstaclesNext]_execution_vars

(* What the scripts show.  Delivery: the payload that stays with the sender *)
(* costs the receiver the honest votes for it, and those alone.  Branch:    *)
(* the votes of the empty slots keep their payload branch, save for the     *)
(* confirmation the script asserts.  Accepted: with every premise kept, the *)
(* two views stay apart as long as the adversary splits its votes.          *)
ScriptsHold ==
  /\ ExecutionTypeOK
  /\ script = "delivery" => DeliveryAsserts /\ OnlyPayloadVotesAreLost
  /\ script = "branch" => HeadsStayOffTheChild /\ ConfirmedBranchHolds /\ BranchWeights
  /\ script = "accepted" => AcceptedByPremises /\ AcceptedAsserts /\ LedgerBalances
=============================================================================
