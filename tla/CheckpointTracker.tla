-------------------------- MODULE CheckpointTracker --------------------------
(***************************************************************************)
(* What a fork-choice store promises about its checkpoints, with nothing   *)
(* of its clock below the epoch, its messages or its weights.              *)
(*                                                                         *)
(* A tip is an imported block: its epoch, the checkpoints of its state     *)
(* (claimed) and those its state holds once the epoch's attestations are   *)
(* counted (pulled up).  The store realizes claimed checkpoints at once    *)
(* and pulled-up ones when the tip's epoch is over; until then they are    *)
(* remembered as unrealized.                                               *)
(***************************************************************************)
EXTENDS Integers

CONSTANT Root

VARIABLES
  epoch,        \* the current epoch
  realized,     \* the justified and finalized checkpoints in force
  unrealized,   \* the highest ones seen, in force from the next epoch on
  tips          \* the imported blocks

vars == <<epoch, realized, unrealized, tips>>

Checkpoint == [epoch : Nat, root : Root]
Finality == [justified : Checkpoint, finalized : Checkpoint]
Tip == [epoch : Nat, claimed : Finality, pulled_up : Finality]

TypeOK ==
  /\ epoch \in Nat
  /\ realized \in Finality
  /\ unrealized \in Finality
  /\ DOMAIN tips \subseteq Root
  /\ tips \in [DOMAIN tips -> Tip]

newer(current, candidate) ==
  IF candidate.epoch > current.epoch THEN candidate ELSE current

(* Justified and finalized advance independently of each other. *)
advance(current, candidate) ==
  [justified |-> newer(current.justified, candidate.justified),
   finalized |-> newer(current.finalized, candidate.finalized)]

at_most(a, b) ==
  /\ a.justified.epoch <= b.justified.epoch
  /\ a.finalized.epoch <= b.finalized.epoch

(* A trusted anchor is both checkpoints and the only tip. *)
Init ==
  /\ TypeOK
  /\ realized.justified.epoch = epoch
  /\ realized.finalized = realized.justified
  /\ unrealized = realized
  /\ \E root \in Root : DOMAIN tips = {root}
  /\ \A root \in DOMAIN tips :
       /\ tips[root].epoch = epoch
       /\ at_most(tips[root].claimed, realized)
       /\ at_most(tips[root].pulled_up, realized)

EnterEpoch ==
  /\ epoch' = epoch + 1
  /\ realized' = advance(realized, unrealized)
  /\ UNCHANGED <<unrealized, tips>>

Import(root) ==
  /\ root \notin DOMAIN tips
  /\ tips' \in [DOMAIN tips \cup {root} -> Tip]
  /\ \A r \in DOMAIN tips : tips'[r] = tips[r]
  /\ LET tip == tips'[root]
         claimed == advance(realized, tip.claimed)
     IN  /\ tip.epoch <= epoch
         /\ at_most(tip.claimed, tip.pulled_up)
         /\ unrealized' = advance(unrealized, tip.pulled_up)
         /\ realized' = IF tip.epoch < epoch
                        THEN advance(claimed, tip.pulled_up) ELSE claimed
  /\ UNCHANGED epoch

Next == EnterEpoch \/ \E root \in Root : Import(root)

Spec == Init /\ [][Next]_vars

-----------------------------------------------------------------------------
(* The checkpoint a tip votes from. *)
voting_source(tip) ==
  IF epoch > tip.epoch THEN tip.pulled_up.justified ELSE tip.claimed.justified

(* No tip votes from a checkpoint the store has not realized. *)
SourcesRealized ==
  \A root \in DOMAIN tips : voting_source(tips[root]).epoch <= realized.justified.epoch

(* What was pulled up is remembered until its epoch ends, and in force     *)
(* after.                                                                  *)
PulledUpAccounted ==
  \A root \in DOMAIN tips :
    LET tip == tips[root]
    IN  /\ at_most(tip.pulled_up, unrealized)
        /\ at_most(tip.claimed, realized)
        /\ tip.epoch < epoch => at_most(tip.pulled_up, realized)
        /\ tip.epoch <= epoch

RealizedAtMostUnrealized == at_most(realized, unrealized)

(* Checkpoints are replaced by newer ones only. *)
only_newer(c, d) == d # c => d.epoch > c.epoch

OnlyAdvance ==
  [][/\ only_newer(realized.justified, realized'.justified)
     /\ only_newer(realized.finalized, realized'.finalized)
     /\ only_newer(unrealized.justified, unrealized'.justified)
     /\ only_newer(unrealized.finalized, unrealized'.finalized)]_vars
=============================================================================
