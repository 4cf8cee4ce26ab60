---------------------- MODULE CheckpointTrackerProofs ----------------------
(***************************************************************************)
(* The invariants of CheckpointTracker.  SourcesRealized is not inductive: *)
(* a tip's voting source changes when the epoch ends, so the proof needs   *)
(* to know that what was pulled up is remembered as unrealized until then  *)
(* (PulledUpAccounted).                                                    *)
(***************************************************************************)
EXTENDS CheckpointTracker, TLAPS

IInv ==
  /\ TypeOK
  /\ PulledUpAccounted
  /\ RealizedAtMostUnrealized

LEMMA AdvanceType ==
  ASSUME NEW c \in Finality, NEW d \in Finality
  PROVE  advance(c, d) \in Finality
BY DEF Finality, advance, newer

(* advance is an upper bound of both its arguments, and the least one.     *)
LEMMA AdvanceBounds ==
  ASSUME NEW c \in Finality, NEW d \in Finality
  PROVE  /\ at_most(c, advance(c, d))
         /\ at_most(d, advance(c, d))
         /\ \A u \in Finality : at_most(c, u) /\ at_most(d, u) => at_most(advance(c, d), u)
BY DEF Finality, Checkpoint, advance, newer, at_most

LEMMA AtMostTransitive ==
  ASSUME NEW c \in Finality, NEW d \in Finality, NEW e \in Finality,
         at_most(c, d), at_most(d, e)
  PROVE  at_most(c, e)
BY DEF Finality, Checkpoint, at_most

LEMMA AtMostReflexive == \A c \in Finality : at_most(c, c)
BY DEF Finality, Checkpoint, at_most

LEMMA AdvanceOnlyNewer ==
  ASSUME NEW c \in Finality, NEW d \in Finality
  PROVE  /\ only_newer(c.justified, advance(c, d).justified)
         /\ only_newer(c.finalized, advance(c, d).finalized)
BY DEF Finality, Checkpoint, advance, newer, only_newer

LEMMA InitIInv == Init => IInv
<1> SUFFICES ASSUME Init PROVE IInv
  OBVIOUS
<1>1. TypeOK /\ RealizedAtMostUnrealized
  BY AtMostReflexive DEF Init, TypeOK, RealizedAtMostUnrealized
<1>2. PulledUpAccounted
  BY <1>1 DEF Init, TypeOK, PulledUpAccounted, Tip
<1> QED BY <1>1, <1>2 DEF IInv

LEMMA EnterEpochIInv == IInv /\ EnterEpoch => IInv'
<1> SUFFICES ASSUME IInv, EnterEpoch PROVE IInv'
  OBVIOUS
<1> USE DEF IInv
<1>1. realized \in Finality /\ unrealized \in Finality /\ epoch \in Nat
  BY DEF TypeOK
<1>2. TypeOK'
  BY <1>1, AdvanceType DEF EnterEpoch, TypeOK
<1>3. at_most(unrealized, realized') /\ at_most(realized, realized')
  BY <1>1, AdvanceBounds DEF EnterEpoch
<1>4. at_most(realized', unrealized)
  BY <1>1, AdvanceBounds, AtMostReflexive DEF EnterEpoch, RealizedAtMostUnrealized
<1>5. PulledUpAccounted'
  <2> SUFFICES ASSUME NEW root \in DOMAIN tips
               PROVE  LET tip == tips[root]
                      IN  /\ at_most(tip.pulled_up, unrealized)
                          /\ at_most(tip.claimed, realized')
                          /\ at_most(tip.pulled_up, realized')
                          /\ tip.epoch <= epoch + 1
    BY DEF EnterEpoch, PulledUpAccounted
  <2>1. tips[root] \in Tip
    BY DEF TypeOK
  <2>2. /\ at_most(tips[root].pulled_up, unrealized)
        /\ at_most(tips[root].claimed, realized)
        /\ tips[root].epoch <= epoch
    BY DEF PulledUpAccounted
  <2>3. realized' \in Finality
    BY <1>2 DEF TypeOK
  <2> QED BY <1>1, <1>3, <2>1, <2>2, <2>3, AtMostTransitive DEF Tip
<1> QED BY <1>2, <1>4, <1>5 DEF EnterEpoch, RealizedAtMostUnrealized

LEMMA ImportIInv == ASSUME NEW root \in Root PROVE IInv /\ Import(root) => IInv'
<1> SUFFICES ASSUME IInv, Import(root) PROVE IInv'
  OBVIOUS
<1> USE DEF IInv
<1> DEFINE tip == tips'[root]
           claimed == advance(realized, tip.claimed)
<1>1. /\ realized \in Finality /\ unrealized \in Finality /\ epoch \in Nat
      /\ tip \in Tip /\ tip.claimed \in Finality /\ tip.pulled_up \in Finality
      /\ tip.epoch \in Nat /\ tip.epoch <= epoch
      /\ at_most(tip.claimed, tip.pulled_up)
      /\ epoch' = epoch
      /\ DOMAIN tips' = DOMAIN tips \cup {root}
      /\ unrealized' = advance(unrealized, tip.pulled_up)
      /\ \/ tip.epoch < epoch /\ realized' = advance(claimed, tip.pulled_up)
         \/ tip.epoch >= epoch /\ realized' = claimed
  BY DEF Import, TypeOK, Tip
<1> HIDE DEF tip
<1>2. /\ claimed \in Finality
      /\ unrealized' \in Finality
      /\ realized' \in Finality
  BY <1>1, AdvanceType
<1>3. TypeOK'
  BY <1>1, <1>2 DEF Import, TypeOK
<1>4. /\ at_most(unrealized, unrealized')
      /\ at_most(tip.pulled_up, unrealized')
  BY <1>1, AdvanceBounds
<1>5. at_most(realized, claimed) /\ at_most(tip.claimed, claimed)
  BY <1>1, AdvanceBounds
<1>6. at_most(claimed, unrealized')
  <2>1. at_most(realized, unrealized')
    BY <1>1, <1>2, <1>4, AtMostTransitive DEF RealizedAtMostUnrealized
  <2>2. at_most(tip.claimed, unrealized')
    BY <1>1, <1>2, <1>4, AtMostTransitive
  <2> QED BY <1>1, <1>2, <2>1, <2>2, AdvanceBounds
<1> HIDE DEF claimed
<1>7. /\ at_most(claimed, realized')
      /\ tip.epoch < epoch => at_most(tip.pulled_up, realized')
      /\ at_most(realized', unrealized')
  BY <1>1, <1>2, <1>4, <1>6, AdvanceBounds, AtMostReflexive
<1>8. at_most(realized, realized') /\ at_most(tip.claimed, realized')
  BY <1>1, <1>2, <1>5, <1>7, AtMostTransitive
<1>9. PulledUpAccounted'
  <2> SUFFICES ASSUME NEW r \in DOMAIN tips'
               PROVE  /\ at_most(tips'[r].pulled_up, unrealized')
                      /\ at_most(tips'[r].claimed, realized')
                      /\ tips'[r].epoch < epoch => at_most(tips'[r].pulled_up, realized')
                      /\ tips'[r].epoch <= epoch
    BY <1>1 DEF PulledUpAccounted
  <2>1. CASE r = root
    BY <1>1, <1>4, <1>7, <1>8, <2>1 DEF tip
  <2>2. CASE r # root
    <3>1. r \in DOMAIN tips /\ tips'[r] = tips[r]
      BY <1>1, <2>2 DEF Import
    <3>2. tips[r].pulled_up \in Finality /\ tips[r].claimed \in Finality
      BY <3>1 DEF TypeOK, Tip
    <3>3. /\ at_most(tips[r].pulled_up, unrealized)
          /\ at_most(tips[r].claimed, realized)
          /\ tips[r].epoch < epoch => at_most(tips[r].pulled_up, realized)
          /\ tips[r].epoch <= epoch
      BY <3>1 DEF PulledUpAccounted
    <3> QED BY <1>1, <1>2, <1>4, <1>8, <3>1, <3>2, <3>3, AtMostTransitive
  <2> QED BY <2>1, <2>2
<1> QED BY <1>3, <1>7, <1>9 DEF RealizedAtMostUnrealized

LEMMA NextIInv == IInv /\ [Next]_vars => IInv'
<1>1. IInv /\ UNCHANGED vars => IInv'
  BY DEF IInv, TypeOK, PulledUpAccounted, RealizedAtMostUnrealized, vars
<1> QED BY <1>1, EnterEpochIInv, ImportIInv DEF Next

LEMMA IInvImpliesSources == IInv => SourcesRealized
<1> SUFFICES ASSUME IInv, NEW root \in DOMAIN tips
             PROVE  voting_source(tips[root]).epoch <= realized.justified.epoch
  BY DEF SourcesRealized
<1>1. tips[root] \in Tip /\ epoch \in Nat
  BY DEF IInv, TypeOK
<1>2. CASE epoch > tips[root].epoch
  BY <1>1, <1>2 DEF IInv, PulledUpAccounted, at_most, voting_source, Tip
<1>3. CASE ~(epoch > tips[root].epoch)
  BY <1>3 DEF IInv, PulledUpAccounted, at_most, voting_source
<1> QED BY <1>2, <1>3

LEMMA StepOnlyAdvances ==
  IInv /\ [Next]_vars =>
    /\ only_newer(realized.justified, realized'.justified)
    /\ only_newer(realized.finalized, realized'.finalized)
    /\ only_newer(unrealized.justified, unrealized'.justified)
    /\ only_newer(unrealized.finalized, unrealized'.finalized)
<1> SUFFICES ASSUME IInv, [Next]_vars
             PROVE  /\ only_newer(realized.justified, realized'.justified)
                    /\ only_newer(realized.finalized, realized'.finalized)
                    /\ only_newer(unrealized.justified, unrealized'.justified)
                    /\ only_newer(unrealized.finalized, unrealized'.finalized)
  OBVIOUS
<1>1. realized \in Finality /\ unrealized \in Finality
  BY DEF IInv, TypeOK
<1>2. CASE EnterEpoch
  BY <1>1, <1>2, AdvanceOnlyNewer DEF EnterEpoch, only_newer
<1>3. ASSUME NEW root \in Root, Import(root)
      PROVE  /\ only_newer(realized.justified, realized'.justified)
             /\ only_newer(realized.finalized, realized'.finalized)
             /\ only_newer(unrealized.justified, unrealized'.justified)
             /\ only_newer(unrealized.finalized, unrealized'.finalized)
  <2> DEFINE tip == tips'[root]
             claimed == advance(realized, tip.claimed)
  <2>1. /\ tip.claimed \in Finality /\ tip.pulled_up \in Finality
        /\ unrealized' = advance(unrealized, tip.pulled_up)
        /\ realized' = advance(claimed, tip.pulled_up) \/ realized' = claimed
    BY <1>3 DEF Import, Tip
  <2> HIDE DEF tip
  <2>2. /\ only_newer(unrealized.justified, unrealized'.justified)
        /\ only_newer(unrealized.finalized, unrealized'.finalized)
    BY <1>1, <2>1, AdvanceOnlyNewer
  <2>3. claimed \in Finality
    BY <1>1, <2>1, AdvanceType
  <2>4. /\ only_newer(realized.justified, claimed.justified)
        /\ only_newer(realized.finalized, claimed.finalized)
    BY <1>1, <2>1, AdvanceOnlyNewer
  <2> HIDE DEF claimed
  <2>5. realized' \in Finality
    BY <2>1, <2>3, AdvanceType
  <2>6. /\ only_newer(claimed.justified, realized'.justified)
        /\ only_newer(claimed.finalized, realized'.finalized)
    BY <2>1, <2>3, AdvanceOnlyNewer DEF only_newer
  <2>7. ASSUME NEW a \in Checkpoint, NEW b \in Checkpoint, NEW c \in Checkpoint,
               only_newer(a, b), only_newer(b, c)
        PROVE  only_newer(a, c)
    BY <2>7 DEF only_newer, Checkpoint
  <2>8. /\ realized.justified \in Checkpoint /\ realized.finalized \in Checkpoint
        /\ claimed.justified \in Checkpoint /\ claimed.finalized \in Checkpoint
        /\ realized'.justified \in Checkpoint /\ realized'.finalized \in Checkpoint
    BY <1>1, <2>3, <2>5 DEF Finality
  <2> QED BY <2>2, <2>4, <2>6, <2>7, <2>8
<1>4. CASE UNCHANGED vars
  BY <1>4 DEF vars, only_newer
<1> QED BY <1>2, <1>3, <1>4 DEF Next

-----------------------------------------------------------------------------
(* The tracker's invariants hold in every behaviour.                       *)
THEOREM TrackerInvariant == Spec => []IInv
BY InitIInv, NextIInv, PTL DEF Spec

(* No tip votes from a checkpoint that the store has not realized.         *)
THEOREM TrackerSources == Spec => []SourcesRealized
BY TrackerInvariant, IInvImpliesSources, PTL

(* Checkpoints are replaced by checkpoints of a later epoch only.          *)
THEOREM TrackerOnlyAdvances == Spec => OnlyAdvance
<1>1. IInv /\ [Next]_vars =>
        [/\ only_newer(realized.justified, realized'.justified)
         /\ only_newer(realized.finalized, realized'.finalized)
         /\ only_newer(unrealized.justified, unrealized'.justified)
         /\ only_newer(unrealized.finalized, unrealized'.finalized)]_vars
  BY StepOnlyAdvances
<1> QED BY <1>1, TrackerInvariant, PTL DEF Spec, OnlyAdvance
=============================================================================
