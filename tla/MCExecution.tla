----------------------------- MODULE MCExecution -----------------------------
(***************************************************************************)
(* Instances of the executions for TLC.  A table says how many validators  *)
(* of 1 unit stand behind each index; the three scripts share one, in      *)
(* which each finds the cohorts it tells apart.                            *)
(***************************************************************************)
EXTENDS MCFixture, PayloadObstacles, Adversary

(* The scripts. *)

ScriptIndices ==
  {0, 1} \cup {100 * slot : slot \in 1..19} \cup {100 * slot + 25 : slot \in 1..18}
    \cup {100 * slot + 50 : slot \in 1..6} \cup {101, 698}
ScriptSize ==
  [i \in ScriptIndices |->
     CASE i \in {0, 100} -> 1 [] i = 1 -> 99 [] i = 101 -> 24
       [] i = 650 -> 48 [] i = 698 -> 2
       [] i = 1900 -> rest_of(19)
       [] i % 100 = 50 -> 50
       [] i % 100 = 25 /\ i > 700 -> 75
       [] OTHER -> 25]
ScriptRegistry == cohort_registry(ScriptSize)

(* Delivery: the receiver is validator 0.  Branch: nobody votes in slot 0,  *)
(* validator 100 for itself.  Accepted: of each committee the first 25 are  *)
(* the adversary's, the next 25 the source's and, in the slots 1 to 6, the  *)
(* other 50 the target's; in slot 0 the target has validator 0.             *)
ScriptSettings ==
  [delivery |->
     [nodes |-> {"sender", "receiver"}, rule_nodes |-> {"sender"},
      owner |-> [i \in ScriptIndices |-> IF i = 0 THEN "receiver" ELSE "sender"]],
   branch |->
     [nodes |-> {"store"}, rule_nodes |-> {"store"},
      owner |-> [i \in ScriptIndices |-> IF i \in {0, 1, 100} THEN "nobody" ELSE "store"]],
   accepted |->
     [nodes |-> {"source", "target"}, rule_nodes |-> {"source", "target"},
      owner |-> [i \in ScriptIndices |->
                   CASE i = 0 \/ i % 100 = 50 \/ i = 698 -> "target"
                     [] i = 1 \/ i % 100 = 25 -> "source"
                     [] OTHER -> "nobody"]]]

-----------------------------------------------------------------------------
(* The free adversary: it has 25 of each hundred, node "a" 55 and "b" 20.  *)
(* Block 2 is the block of slot 1, block 3 a rival of slot 2 that builds   *)
(* on the payload of the anchor.  The votes for "a" support what "a" sees, *)
(* those for "b" may go to anything.                                       *)

FreeIndices ==
  {0, 1} \cup {100 * slot : slot \in 1..4} \cup {100 * slot + 25 : slot \in 1..3}
    \cup {100 * slot + 80 : slot \in 1..3}
FreeSize ==
  [i \in FreeIndices |->
     CASE i = 0 -> 20 [] i = 1 -> 80 [] i = 400 -> rest_of(4)
       [] i % 100 = 25 -> 55 [] i % 100 = 80 -> 20 [] OTHER -> 25]
FreeRegistry == cohort_registry(FreeSize)
FreeSettings ==
  [free |->
     [nodes |-> {"a", "b"}, rule_nodes |-> {"a", "b"},
      owner |-> [i \in FreeIndices |->
                   CASE i = 0 \/ i % 100 = 80 -> "b"
                     [] i = 1 \/ i % 100 = 25 -> "a" [] OTHER -> "nobody"]]]

FreeReleases ==
  {<<block_event(fixture_block(BLOCK, 1, 0))>>,
   <<block_event(fixture_block(SIBLING, 2, 1001))>>,
   <<envelope_event(ANCHOR)>>, <<envelope_event(BLOCK)>>}

(* Evidence that the adversary's committee of slot 1 voted twice takes the *)
(* place of the payload of block 2 and comes with that block, or not.      *)
double_vote(indices, slot) ==
  [attestation_1 |-> [attesting_indices |-> indices, data |-> attestation_data(slot, ANCHOR, 0)],
   attestation_2 |-> [attesting_indices |-> indices, data |-> attestation_data(slot, ANCHOR, 1)]]

EvidenceReleases ==
  LET block == block_event(fixture_block(BLOCK, 1, 0))
      evidence == slashing_event(double_vote({100}, 1))
  IN  {<<block>>, <<block, evidence>>,
       <<block_event(fixture_block(SIBLING, 2, 1001))>>, <<envelope_event(ANCHOR)>>}

FreeAttack(store, v, slot) ==
  IF v = "a"
  THEN {<<>>} \cup {<<honest_attestation_data(store, head, slot)>> :
                      head \in {get_head(store)}}
  ELSE {<<attestation_data(slot, ANCHOR, 1)>>, <<attestation_data(slot, SIBLING, 0)>>}
=============================================================================
