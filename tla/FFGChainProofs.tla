--------------------------- MODULE FFGChainProofs ---------------------------
(***************************************************************************)
(* The invariants of FFGChain for every preset, registry, committee        *)
(* schedule, genesis and set of blocks.  That a finalized epoch has its    *)
(* link is not inductive: the third and fourth rule finalize the previous  *)
(* justified epoch by a link an earlier boundary saw, so the proof         *)
(* remembers that a set first bit is such a link (FirstBitIsLink), and     *)
(* that no bit is set before an epoch has been weighed (NothingEarly).     *)
(*                                                                         *)
(* RootInv follows the justified root in the ring of block roots, and      *)
(* CallInv keeps the partial result of a call equal to what the loops of   *)
(* state_transition have after as many iterations.                         *)
(*                                                                         *)
(* Then what BundleFields reads between two calls.  Stage follows          *)
(* process_slots over three boundaries past a state of the run, and Row    *)
(* puts the whole transition to a state and to its row side by side.       *)
(***************************************************************************)
EXTENDS BundleFields, SequenceTheorems, FiniteSums

(* The fields that justification and finality read and write.              *)
Decided(s) ==
  <<s.justification_bits, s.previous_justified_checkpoint,
    s.current_justified_checkpoint, s.finalized_checkpoint>>

StateOK(s) ==
  /\ has_state_fields(s)
  /\ s.slot \in Nat
  /\ s.justification_bits \in Seq(BOOLEAN)
  /\ Len(s.justification_bits) = 4
  /\ s.previous_justified_checkpoint.epoch \in Nat
  /\ s.current_justified_checkpoint.epoch \in Nat
  /\ s.finalized_checkpoint.epoch \in Nat

InOrder(s) ==
  /\ s.finalized_checkpoint.epoch <= s.previous_justified_checkpoint.epoch
  /\ s.previous_justified_checkpoint.epoch <= s.current_justified_checkpoint.epoch
  /\ s.current_justified_checkpoint.epoch < get_current_epoch(s)
       \/ s.current_justified_checkpoint.epoch = 0

BitsJustified(s, epochs) ==
  \A k \in 1..4 : s.justification_bits[k] => get_current_epoch(s) - k \in epochs

NothingEarly(s) ==
  get_current_epoch(s) <= 2 =>
    /\ \A k \in 1..4 : ~s.justification_bits[k]
    /\ s.current_justified_checkpoint.epoch = 0

FirstBitIsLink(s, pairs) ==
  s.justification_bits[1] =>
    <<s.previous_justified_checkpoint.epoch, get_current_epoch(s) - 1>> \in pairs

Finalizes(e, epochs, pairs) ==
  \E link \in pairs : /\ link[1] = e
                      /\ \/ link[2] = e + 1
                         \/ link[2] = e + 2 /\ e + 1 \in epochs

FinalizedByLink(s, epochs, pairs) ==
  s.finalized_checkpoint.epoch > 0 =>
    Finalizes(s.finalized_checkpoint.epoch, epochs, pairs)

Sound(s, epochs, pairs) ==
  /\ StateOK(s)
  /\ InOrder(s)
  /\ BitsJustified(s, epochs)
  /\ NothingEarly(s)
  /\ FirstBitIsLink(s, pairs)
  /\ FinalizedByLink(s, epochs, pairs)

(* The state of a call may be rejected at any time, so the state it would  *)
(* give back has to be sound as well.                                      *)
IInv ==
  /\ Sound(state, justified, links)
  /\ Sound(before.state, before.justified, before.links)

-----------------------------------------------------------------------------
(* Steps that leave the decided fields alone. *)

(* t is s with other roots, availability, header and participation.        *)
Keeps(s, t) ==
  /\ has_state_fields(t)
  /\ t.slot = s.slot
  /\ t.validators = s.validators
  /\ Decided(t) = Decided(s)

KeepsParticipation(s, t) ==
  /\ t.previous_epoch_participation = s.previous_epoch_participation
  /\ t.current_epoch_participation = s.current_epoch_participation

LEMMA ProcessSlotKeeps ==
  ASSUME NEW s, has_state_fields(s), process_slot(s).ok
  PROVE  Keeps(s, process_slot(s).value) /\ KeepsParticipation(s, process_slot(s).value)
BY DEF has_state_fields, state_fields, process_slot, Accept, Reject, Keeps,
       KeepsParticipation, Decided

LEMMA BeginBlockKeeps ==
  ASSUME NEW s, NEW b, has_state_fields(s), begin_block(s, b).ok
  PROVE  Keeps(s, begin_block(s, b).value)
<1> DEFINE paid == process_parent_execution_payload(s, b)
           headed == process_block_header(paid.value, b)
<1>1. paid.ok /\ headed.ok
      /\ begin_block(s, b).value = process_execution_payload_bid(headed.value, b)
  BY DEF begin_block, Then, Accept
<1>2. Keeps(s, paid.value)
  BY <1>1 DEF has_state_fields, state_fields, process_parent_execution_payload, Accept,
              Reject, Keeps, Decided
<1>3. Keeps(s, headed.value)
  <2>1. has_state_fields(paid.value) /\ process_block_header(paid.value, b).ok
    BY <1>1, <1>2 DEF Keeps
  <2> HIDE DEF paid
  <2>2. Keeps(paid.value, headed.value)
    BY <2>1 DEF has_state_fields, state_fields, process_block_header, Accept, Reject,
                Keeps, Decided
  <2> QED BY <1>2, <2>2 DEF Keeps
<1>4. ASSUME NEW t, Keeps(s, t)
      PROVE  Keeps(s, process_execution_payload_bid(t, b))
  BY <1>4 DEF has_state_fields, state_fields, process_execution_payload_bid, Keeps, Decided
<1> QED BY <1>1, <1>3, <1>4

LEMMA SetParticipationKeeps ==
  ASSUME NEW s, NEW vote, NEW flags, has_state_fields(s), set_participation(s, vote, flags).ok
  PROVE  Keeps(s, set_participation(s, vote, flags).value)
BY DEF has_state_fields, state_fields, set_participation, Accept, Reject, Keeps, Decided

LEMMA ProcessAttestationKeeps ==
  ASSUME NEW s, NEW vote, NEW parent_slot, has_state_fields(s),
         process_attestation(s, vote, parent_slot).ok
  PROVE  Keeps(s, process_attestation(s, vote, parent_slot).value)
BY SetParticipationKeeps DEF process_attestation, Then, Accept, Reject

(* What is sound depends on the decided fields and the epoch only, and      *)
(* survives a larger history.                                               *)
LEMMA KeepsSound ==
  ASSUME NEW s, NEW t, NEW epochs, NEW pairs, Sound(s, epochs, pairs), Keeps(s, t)
  PROVE  Sound(t, epochs, pairs)
BY DEF Sound, Keeps, Decided, StateOK, InOrder, BitsJustified, NothingEarly,
       FirstBitIsLink, FinalizedByLink, get_current_epoch

-----------------------------------------------------------------------------
(* The end of an epoch. *)

LEMMA SetBit ==
  ASSUME NEW old \in Seq(BOOLEAN), NEW p \in 1..Len(old)
  PROVE  /\ [old EXCEPT ![p] = TRUE] \in Seq(BOOLEAN)
         /\ Len([old EXCEPT ![p] = TRUE]) = Len(old)
         /\ [old EXCEPT ![p] = TRUE][p]
         /\ \A k \in 1..Len(old) : k # p => [old EXCEPT ![p] = TRUE][k] = old[k]
<1>1. [old EXCEPT ![p] = TRUE] \in Seq(BOOLEAN)
  OBVIOUS
<1>2. Len([old EXCEPT ![p] = TRUE]) = Len(old)
  OBVIOUS
<1>3. [old EXCEPT ![p] = TRUE][p]
  OBVIOUS
<1>4. \A k \in 1..Len(old) : k # p => [old EXCEPT ![p] = TRUE][k] = old[k]
  OBVIOUS
<1> QED BY <1>1, <1>2, <1>3, <1>4, Zenon

LEMMA SetBitAt ==
  ASSUME NEW old \in Seq(BOOLEAN), NEW p \in 1..Len(old), NEW new,
         new = [old EXCEPT ![p] = TRUE]
  PROVE  /\ new \in Seq(BOOLEAN)
         /\ Len(new) = Len(old)
         /\ new[p]
         /\ \A k \in 1..Len(old) : k # p => new[k] = old[k]
BY SetBit

LEMMA JustifyEffect ==
  ASSUME NEW s, NEW e \in Nat, NEW p \in 1..4, has_state_fields(s),
         s.justification_bits \in Seq(BOOLEAN), Len(s.justification_bits) = 4,
         justify(s, e, p).ok
  PROVE  LET t == justify(s, e, p).value
         IN  /\ has_state_fields(t)
             /\ t.slot = s.slot
             /\ t.current_justified_checkpoint.epoch = e
             /\ t.previous_justified_checkpoint = s.previous_justified_checkpoint
             /\ t.finalized_checkpoint = s.finalized_checkpoint
             /\ t.justification_bits \in Seq(BOOLEAN)
             /\ Len(t.justification_bits) = 4
             /\ t.justification_bits[p]
             /\ \A k \in 1..4 : k # p => t.justification_bits[k] = s.justification_bits[k]
<1> DEFINE bits == [s.justification_bits EXCEPT ![p] = TRUE]
           t == justify(s, e, p).value
<1>1. PICK root : t = [s EXCEPT !.current_justified_checkpoint = [epoch |-> e, root |-> root],
                                !.justification_bits = bits]
  BY DEF justify, Then, Accept, Reject
<1>2. /\ bits \in Seq(BOOLEAN)
      /\ Len(bits) = 4
      /\ bits[p]
      /\ \A k \in 1..4 : k # p => bits[k] = s.justification_bits[k]
  <2>1. s.justification_bits \in Seq(BOOLEAN) /\ p \in 1..Len(s.justification_bits)
    OBVIOUS
  <2>2. /\ bits \in Seq(BOOLEAN)
        /\ Len(bits) = Len(s.justification_bits)
        /\ bits[p]
        /\ \A k \in 1..Len(s.justification_bits) : k # p => bits[k] = s.justification_bits[k]
    <3> DEFINE mine == s.justification_bits
    <3>2. mine \in Seq(BOOLEAN) /\ p \in 1..Len(mine) /\ bits = [mine EXCEPT ![p] = TRUE]
      BY <2>1
    <3> HIDE DEF bits, mine
    <3>3. /\ bits \in Seq(BOOLEAN)
          /\ Len(bits) = Len(mine)
          /\ bits[p]
          /\ \A k \in 1..Len(mine) : k # p => bits[k] = mine[k]
      BY ONLY <3>2, SetBitAt
    <3> QED BY <3>3 DEF mine
  <2>3. 1..Len(s.justification_bits) = 1..4
    OBVIOUS
  <2> QED BY <2>2, <2>3
<1> HIDE DEF bits, t
<1>4. /\ t.justification_bits = bits
      /\ has_state_fields(t)
      /\ t.slot = s.slot
      /\ t.current_justified_checkpoint.epoch = e
      /\ t.previous_justified_checkpoint = s.previous_justified_checkpoint
      /\ t.finalized_checkpoint = s.finalized_checkpoint
  BY <1>1 DEF has_state_fields, state_fields
<1> QED BY <1>2, <1>4 DEF t

LEMMA ShiftEffect ==
  ASSUME NEW s, StateOK(s)
  PROVE  LET t == shift_justification(s)
         IN  /\ has_state_fields(t)
             /\ t.slot = s.slot
             /\ t.current_justified_checkpoint = s.current_justified_checkpoint
             /\ t.previous_justified_checkpoint = s.current_justified_checkpoint
             /\ t.finalized_checkpoint = s.finalized_checkpoint
             /\ t.justification_bits \in Seq(BOOLEAN)
             /\ Len(t.justification_bits) = 4
             /\ ~t.justification_bits[1]
             /\ \A k \in 1..3 : t.justification_bits[k + 1] = s.justification_bits[k]
<1> DEFINE bits == <<FALSE>> \o SubSeq(s.justification_bits, 1, 3)
<1>1. /\ bits \in Seq(BOOLEAN)
      /\ Len(bits) = 4
      /\ bits[1] = FALSE
      /\ \A k \in 1..3 : bits[k + 1] = s.justification_bits[k]
  BY DEF StateOK
<1> HIDE DEF bits
<1>2. shift_justification(s) = [s EXCEPT !.previous_justified_checkpoint = s.current_justified_checkpoint,
                                         !.justification_bits = bits]
  BY DEF shift_justification, bits
<1> QED BY <1>1, <1>2 DEF StateOK, has_state_fields, state_fields

(* The effect of the weighing on the decided fields, P and C being the two  *)
(* supermajorities and e the epoch that ends.                               *)
Weighed(s, t, total, previous, current, e) ==
  LET P == has_two_thirds(previous, total)
      C == has_two_thirds(current, total)
  IN
  /\ t.justification_bits \in Seq(BOOLEAN)
  /\ Len(t.justification_bits) = 4
  /\ t.justification_bits[1] <=> C
  /\ t.justification_bits[2] <=> P \/ s.justification_bits[1]
  /\ t.justification_bits[3] <=> s.justification_bits[2]
  /\ t.justification_bits[4] <=> s.justification_bits[3]
  /\ t.previous_justified_checkpoint = s.current_justified_checkpoint
  /\ C => t.current_justified_checkpoint.epoch = e
  /\ ~C /\ P => t.current_justified_checkpoint.epoch = e - 1
  /\ ~C /\ ~P => t.current_justified_checkpoint = s.current_justified_checkpoint
  /\ t.finalized_checkpoint =
       finalized_by(t.justification_bits, s.previous_justified_checkpoint,
                    s.current_justified_checkpoint, s.finalized_checkpoint, e)

LEMMA WeighEffect ==
  ASSUME NEW s, NEW total, NEW previous, NEW current, StateOK(s), get_current_epoch(s) \in Nat \ {0},
         weigh_justification_and_finalization(s, total, previous, current).ok
  PROVE  LET t == weigh_justification_and_finalization(s, total, previous, current).value
         IN  /\ has_state_fields(t)
             /\ t.slot = s.slot
             /\ Weighed(s, t, total, previous, current, get_current_epoch(s))
<1> DEFINE e == get_current_epoch(s)
           P == has_two_thirds(previous, total)
           C == has_two_thirds(current, total)
           shifted == shift_justification(s)
           first == IF P THEN justify(shifted, get_previous_epoch(s), 2) ELSE Accept(shifted)
           second == IF C THEN justify(first.value, e, 1) ELSE Accept(first.value)
           t == weigh_justification_and_finalization(s, total, previous, current).value
<1>1. /\ first.ok
      /\ second.ok
      /\ t = [second.value EXCEPT !.finalized_checkpoint =
                 finalized_by(second.value.justification_bits, s.previous_justified_checkpoint,
                              s.current_justified_checkpoint, @, e)]
  BY DEF weigh_justification_and_finalization, Then, Accept, Reject
<1>2. get_previous_epoch(s) = e - 1
  BY DEF get_previous_epoch
<1>3. /\ has_state_fields(shifted)
      /\ shifted.slot = s.slot
      /\ shifted.current_justified_checkpoint = s.current_justified_checkpoint
      /\ shifted.previous_justified_checkpoint = s.current_justified_checkpoint
      /\ shifted.finalized_checkpoint = s.finalized_checkpoint
      /\ shifted.justification_bits \in Seq(BOOLEAN)
      /\ Len(shifted.justification_bits) = 4
      /\ ~shifted.justification_bits[1]
      /\ \A k \in 1..3 : shifted.justification_bits[k + 1] = s.justification_bits[k]
  BY ShiftEffect
<1> HIDE DEF shifted
<1> DEFINE f == first.value
<1>4. /\ has_state_fields(f)
      /\ f.slot = s.slot
      /\ f.previous_justified_checkpoint = s.current_justified_checkpoint
      /\ f.finalized_checkpoint = s.finalized_checkpoint
      /\ f.justification_bits \in Seq(BOOLEAN)
      /\ Len(f.justification_bits) = 4
      /\ ~f.justification_bits[1]
      /\ f.justification_bits[2] <=> P \/ s.justification_bits[1]
      /\ f.justification_bits[3] <=> s.justification_bits[2]
      /\ f.justification_bits[4] <=> s.justification_bits[3]
      /\ P => f.current_justified_checkpoint.epoch = e - 1
      /\ ~P => f.current_justified_checkpoint = s.current_justified_checkpoint
  <2>0. /\ shifted.justification_bits[2] = s.justification_bits[1]
        /\ shifted.justification_bits[3] = s.justification_bits[2]
        /\ shifted.justification_bits[4] = s.justification_bits[3]
    <3>1. 1 \in 1..3 /\ 2 \in 1..3 /\ 3 \in 1..3 /\ 1 + 1 = 2 /\ 2 + 1 = 3 /\ 3 + 1 = 4
      OBVIOUS
    <3> QED BY <1>3, <3>1
  <2>1. CASE P
    <3> DEFINE prior == get_previous_epoch(s)
    <3>1. justify(shifted, prior, 2).ok /\ f = justify(shifted, prior, 2).value
      BY <1>1, <2>1
    <3>2. prior \in Nat /\ 2 \in 1..4
      BY <1>2
    <3> HIDE DEF first, P, prior
    <3>3. /\ has_state_fields(f)
          /\ f.slot = shifted.slot
          /\ f.current_justified_checkpoint.epoch = prior
          /\ f.previous_justified_checkpoint = shifted.previous_justified_checkpoint
          /\ f.finalized_checkpoint = shifted.finalized_checkpoint
          /\ f.justification_bits \in Seq(BOOLEAN)
          /\ Len(f.justification_bits) = 4
          /\ f.justification_bits[2]
          /\ \A k \in 1..4 : k # 2 => f.justification_bits[k] = shifted.justification_bits[k]
      BY <1>3, <3>1, <3>2, JustifyEffect
    <3>4. 1 \in 1..4 /\ 3 \in 1..4 /\ 4 \in 1..4
      OBVIOUS
    <3>5. /\ f.justification_bits[1] = shifted.justification_bits[1]
          /\ f.justification_bits[3] = shifted.justification_bits[3]
          /\ f.justification_bits[4] = shifted.justification_bits[4]
      BY <3>3, <3>4
    <3>6. /\ ~f.justification_bits[1]
          /\ f.justification_bits[3] <=> s.justification_bits[2]
          /\ f.justification_bits[4] <=> s.justification_bits[3]
      BY <1>3, <2>0, <3>5
    <3>7. f.justification_bits[2] <=> P \/ s.justification_bits[1]
      BY <2>1, <3>3
    <3>8. prior = e - 1
      BY <1>2 DEF prior
    <3> QED BY <1>3, <2>1, <3>3, <3>6, <3>7, <3>8
  <2>2. CASE ~P
    <3>1. f = shifted
      BY <2>2 DEF Accept
    <3> HIDE DEF first, P
    <3> QED BY <1>3, <2>0, <2>2, <3>1
  <2> QED BY <2>1, <2>2
<1> HIDE DEF first, P
<1> DEFINE g == second.value
<1>5. /\ has_state_fields(g)
      /\ g.slot = s.slot
      /\ g.previous_justified_checkpoint = s.current_justified_checkpoint
      /\ g.finalized_checkpoint = s.finalized_checkpoint
      /\ g.justification_bits \in Seq(BOOLEAN)
      /\ Len(g.justification_bits) = 4
      /\ g.justification_bits[1] <=> C
      /\ \A k \in 2..4 : g.justification_bits[k] = f.justification_bits[k]
      /\ C => g.current_justified_checkpoint.epoch = e
      /\ ~C => g.current_justified_checkpoint = f.current_justified_checkpoint
  <2>1. CASE C
    <3>1. justify(f, e, 1).ok /\ g = justify(f, e, 1).value
      BY <1>1, <2>1
    <3>2. e \in Nat /\ 1 \in 1..4
      OBVIOUS
    <3> HIDE DEF f, second, C
    <3>3. /\ has_state_fields(g)
          /\ g.slot = f.slot
          /\ g.current_justified_checkpoint.epoch = e
          /\ g.previous_justified_checkpoint = f.previous_justified_checkpoint
          /\ g.finalized_checkpoint = f.finalized_checkpoint
          /\ g.justification_bits \in Seq(BOOLEAN)
          /\ Len(g.justification_bits) = 4
          /\ g.justification_bits[1]
          /\ \A k \in 1..4 : k # 1 => g.justification_bits[k] = f.justification_bits[k]
      BY <1>4, <3>1, <3>2, JustifyEffect, SMTT(30)
    <3> QED BY <1>4, <2>1, <3>3
  <2>2. CASE ~C
    <3>1. g = f
      BY <2>2 DEF Accept
    <3> HIDE DEF f, second, C
    <3> QED BY <1>4, <2>2, <3>1
  <2> QED BY <2>1, <2>2
<1> HIDE DEF second, C, f
<1>6. /\ has_state_fields(t)
      /\ t.slot = g.slot
      /\ t.previous_justified_checkpoint = g.previous_justified_checkpoint
      /\ t.current_justified_checkpoint = g.current_justified_checkpoint
      /\ t.justification_bits = g.justification_bits
      /\ t.finalized_checkpoint =
           finalized_by(g.justification_bits, s.previous_justified_checkpoint,
                        s.current_justified_checkpoint, g.finalized_checkpoint, e)
  <2>1. t = [g EXCEPT !.finalized_checkpoint =
               finalized_by(g.justification_bits, s.previous_justified_checkpoint,
                            s.current_justified_checkpoint, @, e)]
    BY <1>1
  <2> HIDE DEF t, g, e
  <2> QED BY <1>5, <2>1 DEF has_state_fields, state_fields
<1> HIDE DEF t, g, e
<1>7. /\ t.justification_bits[2] <=> P \/ s.justification_bits[1]
      /\ t.justification_bits[3] <=> s.justification_bits[2]
      /\ t.justification_bits[4] <=> s.justification_bits[3]
  <2>1. 2 \in 2..4 /\ 3 \in 2..4 /\ 4 \in 2..4
    OBVIOUS
  <2>2. /\ t.justification_bits[2] = f.justification_bits[2]
        /\ t.justification_bits[3] = f.justification_bits[3]
        /\ t.justification_bits[4] = f.justification_bits[4]
    BY <1>5, <1>6, <2>1
  <2>3. /\ f.justification_bits[2] <=> P \/ s.justification_bits[1]
        /\ f.justification_bits[3] <=> s.justification_bits[2]
        /\ f.justification_bits[4] <=> s.justification_bits[3]
    BY ONLY <1>4
  <2> QED BY ONLY <2>2, <2>3, Zenon
<1>8. Weighed(s, t, total, previous, current, e)
  BY <1>4, <1>5, <1>6, <1>7 DEF Weighed, P, C
<1> QED BY <1>5, <1>6, <1>8 DEF t, C, P, e

LEMMA EpochStep ==
  ASSUME NEW a \in Nat
  PROVE  IF (a + 1) % SLOTS_PER_EPOCH = 0
         THEN epoch_at(a + 1) = epoch_at(a) + 1 ELSE epoch_at(a + 1) = epoch_at(a)
<1>1. SLOTS_PER_EPOCH \in Nat \ {0}
  BY PresetAssumption
<1> QED BY <1>1, SMTT(30) DEF epoch_at

LEMMA EpochIsNat == ASSUME NEW a \in Nat PROVE epoch_at(a) \in Nat
<1>1. SLOTS_PER_EPOCH \in Nat \ {0}
  BY PresetAssumption
<1> QED BY <1>1, SMTT(30) DEF epoch_at

(* A sound state of epoch e at the boundary, and what its weighing may     *)
(* decide: the epochs and links that have two thirds are recorded.          *)
Counted(s, e, epochs, pairs, more_epochs, more_pairs, total, previous, current) ==
  /\ Sound(s, epochs, pairs)
  /\ e \in Nat
  /\ e = get_current_epoch(s)
  /\ e >= 2
  /\ epochs \subseteq more_epochs
  /\ pairs \subseteq more_pairs
  /\ has_two_thirds(previous, total) =>
       /\ <<s.previous_justified_checkpoint.epoch, e - 1>> \in more_pairs
       /\ e - 1 \in more_epochs
  /\ has_two_thirds(current, total) =>
       /\ <<s.current_justified_checkpoint.epoch, e>> \in more_pairs
       /\ e \in more_epochs

(* The weighing preserves soundness: each of the four rules finalizes an    *)
(* epoch with a link, the first two by the link of this boundary, the last  *)
(* two by that of the previous boundary or of this one for the epoch before.*)
LEMMA WeighSound ==
  ASSUME NEW s, NEW t, NEW epochs, NEW pairs, NEW more_epochs, NEW more_pairs,
         NEW total, NEW previous, NEW current, NEW e,
         Counted(s, e, epochs, pairs, more_epochs, more_pairs, total, previous, current),
         Weighed(s, t, total, previous, current, e),
         get_current_epoch(t) = e + 1, has_state_fields(t), t.slot \in Nat
  PROVE  /\ Sound(t, more_epochs, more_pairs)
         /\ t.current_justified_checkpoint.epoch >= s.current_justified_checkpoint.epoch
         /\ t.finalized_checkpoint.epoch >= s.finalized_checkpoint.epoch
<1> DEFINE old == s.justification_bits
           new == t.justification_bits
           prev == s.previous_justified_checkpoint
           curr == s.current_justified_checkpoint
           fin == s.finalized_checkpoint
           P == has_two_thirds(previous, total)
           C == has_two_thirds(current, total)
<1>14. /\ Sound(s, epochs, pairs)
       /\ e \in Nat
       /\ e = get_current_epoch(s)
       /\ e >= 2
       /\ epochs \subseteq more_epochs
       /\ pairs \subseteq more_pairs
       /\ P => <<prev.epoch, e - 1>> \in more_pairs /\ e - 1 \in more_epochs
       /\ C => <<curr.epoch, e>> \in more_pairs /\ e \in more_epochs
  BY DEF Counted
<1> USE <1>14
<1>0. /\ t.previous_justified_checkpoint = curr
      /\ \/ C /\ t.current_justified_checkpoint.epoch = e
         \/ ~C /\ P /\ t.current_justified_checkpoint.epoch = e - 1
         \/ ~C /\ ~P /\ t.current_justified_checkpoint = curr
      /\ t.finalized_checkpoint = finalized_by(new, prev, curr, fin, e)
  BY DEF Weighed
<1>13. /\ new \in Seq(BOOLEAN) /\ Len(new) = 4
       /\ new[1] <=> C
       /\ new[2] <=> P \/ old[1]
       /\ new[3] <=> old[2]
       /\ new[4] <=> old[3]
  BY DEF Weighed
<1>1. /\ prev.epoch \in Nat /\ curr.epoch \in Nat /\ fin.epoch \in Nat
      /\ fin.epoch <= prev.epoch /\ prev.epoch <= curr.epoch
      /\ curr.epoch <= e - 1
  <2>1. StateOK(s) /\ InOrder(s)
    BY DEF Sound
  <2>2. /\ prev.epoch \in Nat /\ curr.epoch \in Nat /\ fin.epoch \in Nat
        /\ fin.epoch <= prev.epoch /\ prev.epoch <= curr.epoch
        /\ curr.epoch < e \/ curr.epoch = 0
    BY <2>1 DEF StateOK, InOrder
  <2> DEFINE c == curr.epoch
  <2>3. c <= e - 1
    <3>1. c \in Nat /\ (c < e \/ c = 0)
      BY <2>2
    <3> HIDE DEF c
    <3> QED BY ONLY <3>1, e \in Nat, e >= 2
  <2> QED BY <2>2, <2>3
<1>2. /\ old[1] => e - 1 \in epochs /\ <<prev.epoch, e - 1>> \in pairs
      /\ old[2] => e - 2 \in epochs
      /\ old[3] => e - 3 \in epochs
  BY DEF Sound, BitsJustified, FirstBitIsLink
<1>3. t.finalized_checkpoint \in {prev, curr, fin}
  BY <1>0 DEF finalized_by
<1> DEFINE now == t.current_justified_checkpoint.epoch
<1>11. now \in Nat /\ now >= curr.epoch /\ now < e + 1
  <2> DEFINE was == curr.epoch
  <2>1. was \in Nat /\ was <= e - 1 /\ (now = e \/ now = e - 1 \/ now = was)
    BY <1>0, <1>1
  <2>2. now \in Nat /\ now >= was /\ now < e + 1
    <3> HIDE DEF now, was
    <3> QED BY ONLY <2>1, e \in Nat, e >= 2
  <2> QED BY ONLY <2>2
<1>12. /\ t.finalized_checkpoint.epoch \in Nat
       /\ t.finalized_checkpoint.epoch >= fin.epoch
       /\ t.finalized_checkpoint.epoch <= curr.epoch
  <2> DEFINE last == t.finalized_checkpoint.epoch
             a == fin.epoch
             b == prev.epoch
             c == curr.epoch
  <2>1. last = a \/ last = b \/ last = c
    BY <1>3
  <2>2. a \in Nat /\ b \in Nat /\ c \in Nat /\ a <= b /\ b <= c
    BY <1>1
  <2>3. last \in Nat /\ last >= a /\ last <= c
    <3> HIDE DEF last, a, b, c
    <3> QED BY ONLY <2>1, <2>2
  <2> QED BY ONLY <2>3
<1>4. StateOK(t)
  <2>1. t.previous_justified_checkpoint.epoch \in Nat
    BY <1>0, <1>1
  <2> QED BY <1>13, <1>11, <1>12, <2>1 DEF StateOK
<1>5. /\ t.current_justified_checkpoint.epoch >= curr.epoch
      /\ t.finalized_checkpoint.epoch >= fin.epoch
      /\ InOrder(t)
  <2>1. t.previous_justified_checkpoint.epoch = curr.epoch
    BY <1>0
  <2> HIDE DEF Weighed
  <2>2. InOrder(t)
    BY <1>11, <1>12, <2>1 DEF InOrder
  <2> QED BY ONLY <1>11, <1>12, <2>2
<1>6. BitsJustified(t, more_epochs)
  <2> SUFFICES ASSUME NEW k \in 1..4, new[k] PROVE e + 1 - k \in more_epochs
    BY DEF BitsJustified
  <2>1. CASE k = 1
    BY <1>13, <2>1
  <2>2. CASE k = 2
    BY <1>13, <1>2, <2>2
  <2>3. CASE k = 3
    BY <1>13, <1>2, <2>3
  <2>4. CASE k = 4
    BY <1>13, <1>2, <2>4
  <2> QED BY <2>1, <2>2, <2>3, <2>4
<1>7. NothingEarly(t)
  BY DEF NothingEarly
<1>8. FirstBitIsLink(t, more_pairs)
  <2>1. get_current_epoch(t) - 1 = e
    OBVIOUS
  <2>2. C => <<curr.epoch, e>> \in more_pairs
    OBVIOUS
  <2> QED BY <1>0, <1>13, <2>1, <2>2, Zenon DEF FirstBitIsLink
<1>9. FinalizedByLink(t, more_epochs, more_pairs)
  <2>1. new[2] => <<prev.epoch, e - 1>> \in more_pairs /\ e - 1 \in more_epochs
    BY <1>13, <1>2
  <2>2. new[1] => <<curr.epoch, e>> \in more_pairs
    BY <1>13
  <2>3. new[3] => e - 2 \in more_epochs
    BY <1>13, <1>2
  <2>4. ASSUME t.finalized_checkpoint = fin, fin.epoch > 0
        PROVE  Finalizes(fin.epoch, more_epochs, more_pairs)
    <3>1. Finalizes(fin.epoch, epochs, pairs)
      BY <2>4 DEF Sound, FinalizedByLink
    <3> QED BY <3>1 DEF Finalizes
  <2>5. CASE new[1] /\ new[2] /\ curr.epoch + 1 = e
    BY <1>0, <1>1, <2>2, <2>5 DEF finalized_by, FinalizedByLink, Finalizes
  <2>6. CASE new[1] /\ new[2] /\ new[3] /\ curr.epoch + 2 = e
    <3>1. t.finalized_checkpoint = curr
      BY <1>0, <2>6 DEF finalized_by
    <3>2. <<curr.epoch, e>>[1] = curr.epoch /\ <<curr.epoch, e>>[2] = curr.epoch + 2
          /\ curr.epoch + 1 = e - 1
      BY <1>1, <2>6
    <3> QED BY <2>1, <2>2, <2>6, <3>1, <3>2 DEF FinalizedByLink, Finalizes
  <2>7. CASE /\ t.finalized_checkpoint = prev
             /\ \/ new[2] /\ prev.epoch + 2 = e
                \/ new[2] /\ new[3] /\ prev.epoch + 3 = e
    <3>1. <<prev.epoch, e - 1>> \in more_pairs
      BY <2>1, <2>7
    <3>2. <<prev.epoch, e - 1>>[1] = prev.epoch
          /\ \/ <<prev.epoch, e - 1>>[2] = prev.epoch + 1
             \/ <<prev.epoch, e - 1>>[2] = prev.epoch + 2 /\ prev.epoch + 1 \in more_epochs
      BY <1>1, <2>3, <2>7
    <3> QED BY <2>7, <3>1, <3>2 DEF FinalizedByLink, Finalizes
  <2>8. \/ new[1] /\ new[2] /\ curr.epoch + 1 = e
        \/ new[1] /\ new[2] /\ new[3] /\ curr.epoch + 2 = e
        \/ /\ t.finalized_checkpoint = prev
           /\ \/ new[2] /\ prev.epoch + 2 = e
              \/ new[2] /\ new[3] /\ prev.epoch + 3 = e
        \/ t.finalized_checkpoint = fin
    BY <1>0 DEF finalized_by
  <2> QED BY <2>4, <2>5, <2>6, <2>7, <2>8 DEF FinalizedByLink
<1> QED BY <1>4, <1>5, <1>6, <1>7, <1>8, <1>9 DEF Sound

-----------------------------------------------------------------------------
(* One iteration of the loop over the slots. *)

(* Two states with the same registry and participation count the same.     *)
LEMMA SameCounts ==
  ASSUME NEW s, NEW u, NEW e, NEW indices, Keeps(s, u), KeepsParticipation(s, u)
  PROVE  /\ get_current_epoch(u) = get_current_epoch(s)
         /\ get_total_balance(u, indices) = get_total_balance(s, indices)
         /\ get_total_active_balance(u) = get_total_active_balance(s)
         /\ get_unslashed_participating_indices(u, e) = get_unslashed_participating_indices(s, e)
<1>1. get_current_epoch(u) = get_current_epoch(s)
  BY DEF Keeps, get_current_epoch
<1>2. ASSUME NEW any PROVE get_total_balance(u, any) = get_total_balance(s, any)
  BY DEF Keeps, get_total_balance
<1>3. ASSUME NEW any PROVE active_indices(u, any) = active_indices(s, any)
  BY DEF Keeps, active_indices
<1>4. get_total_active_balance(u) = get_total_active_balance(s)
  BY <1>1, <1>2, <1>3 DEF get_total_active_balance
<1>5. get_unslashed_participating_indices(u, e) = get_unslashed_participating_indices(s, e)
  <2>1. /\ u.validators = s.validators
        /\ u.previous_epoch_participation = s.previous_epoch_participation
        /\ u.current_epoch_participation = s.current_epoch_participation
    BY DEF Keeps, KeepsParticipation
  <2> QED BY <1>1, <1>3, <2>1 DEF get_unslashed_participating_indices
<1> QED BY <1>1, <1>2, <1>4, <1>5

(* A weighing has its supermajorities among the new links. *)
LEMMA WeighedLinks ==
  ASSUME NEW s, NEW u, StateOK(s), Keeps(s, u), KeepsParticipation(s, u),
         get_current_epoch(s) \in Nat, get_current_epoch(s) >= 2,
         (s.slot + 1) % SLOTS_PER_EPOCH = 0,
         ffg_process_justification_and_finalization(u).ok
  PROVE  \E total, previous, current :
           /\ ffg_process_justification_and_finalization(u)
                = weigh_justification_and_finalization(u, total, previous, current)
           /\ has_two_thirds(previous, total) =>
                <<s.previous_justified_checkpoint.epoch, get_current_epoch(s) - 1>> \in new_links(s)
           /\ has_two_thirds(current, total) =>
                <<s.current_justified_checkpoint.epoch, get_current_epoch(s)>> \in new_links(s)
<1> DEFINE e == get_current_epoch(s)
           before_it == get_unslashed_participating_indices(s, e - 1)
           of_it == get_unslashed_participating_indices(s, e)
           total == get_total_active_balance(s)
           previous == get_total_balance(s, before_it.value)
           current == get_total_balance(s, of_it.value)
<1>1. get_current_epoch(u) = e /\ get_previous_epoch(u) = e - 1
  BY SameCounts DEF get_previous_epoch
<1>2. /\ get_unslashed_participating_indices(u, e - 1) = before_it
      /\ get_unslashed_participating_indices(u, e) = of_it
      /\ get_total_active_balance(u) = total
      /\ get_total_balance(u, before_it.value) = previous
      /\ get_total_balance(u, of_it.value) = current
  BY SameCounts
<1>3. ~(e <= 1)
  OBVIOUS
<1> HIDE DEF e, before_it, of_it, total, previous, current
<1>4. /\ before_it.ok /\ of_it.ok
      /\ ffg_process_justification_and_finalization(u)
           = weigh_justification_and_finalization(u, total, previous, current)
  BY <1>1, <1>2, <1>3 DEF ffg_process_justification_and_finalization, Then
<1>5. /\ has_two_thirds(previous, total) =>
           <<s.previous_justified_checkpoint.epoch, e - 1>> \in new_links(s)
      /\ has_two_thirds(current, total) =>
           <<s.current_justified_checkpoint.epoch, e>> \in new_links(s)
  BY <1>3, <1>4 DEF new_links, e, before_it, of_it, total, previous, current
<1> QED BY <1>4, <1>5 DEF e

(* What the end of a slot leaves, up to the weighing.                      *)
LEMMA AdvanceEffect ==
  ASSUME NEW s, StateOK(s), advance_slot(s).ok
  PROVE  LET u == process_slot(s).value
             r == advance_slot(s).value
         IN  /\ Keeps(s, u) /\ KeepsParticipation(s, u)
             /\ \E v : /\ IF (s.slot + 1) % SLOTS_PER_EPOCH = 0
                          THEN /\ ffg_process_justification_and_finalization(u).ok
                               /\ ffg_process_justification_and_finalization(u).value = v
                          ELSE v = u
                       /\ has_state_fields(v) /\ v.slot = s.slot =>
                            /\ has_state_fields(r)
                            /\ r.slot = s.slot + 1
                            /\ Decided(r) = Decided(v)
<1> DEFINE u == process_slot(s).value
           r == advance_slot(s).value
<1>1. process_slot(s).ok
  BY DEF advance_slot, Then
<1>2. Keeps(s, u) /\ KeepsParticipation(s, u)
  BY <1>1, ProcessSlotKeeps DEF StateOK
<1>3. u.slot = s.slot
  BY <1>2 DEF Keeps
<1> DEFINE weighed == ffg_process_justification_and_finalization(u)
<1>4. CASE (s.slot + 1) % SLOTS_PER_EPOCH = 0
  <2>1. /\ weighed.ok
        /\ r = [process_participation_flag_updates(weighed.value) EXCEPT !.slot = @ + 1]
    <3> HIDE DEF weighed, u
    <3>1. process_slot(s) .ok /\ process_slot(s).value = u
      BY <1>1 DEF u
    <3>2. process_epoch(u).ok /\ r = [process_epoch(u).value EXCEPT !.slot = @ + 1]
      BY <1>3, <1>4, <3>1 DEF advance_slot, Then, Accept
    <3> QED BY <3>2 DEF process_epoch, Then, Accept, weighed
  <2> DEFINE v == weighed.value
  <2>3. has_state_fields(v) /\ v.slot = s.slot =>
          has_state_fields(r) /\ r.slot = s.slot + 1 /\ Decided(r) = Decided(v)
    <3> HIDE DEF v, r
    <3>1. r = [process_participation_flag_updates(v) EXCEPT !.slot = @ + 1]
      BY <2>1 DEF v
    <3> QED BY <3>1 DEF process_participation_flag_updates, has_state_fields, state_fields, Decided
  <2> QED BY <1>2, <1>4, <2>1, <2>3
<1>5. CASE (s.slot + 1) % SLOTS_PER_EPOCH # 0
  <2>1. r = [u EXCEPT !.slot = @ + 1]
    <3> HIDE DEF u
    <3>1. process_slot(s).ok /\ process_slot(s).value = u
      BY <1>1 DEF u
    <3> QED BY <1>3, <1>5, <3>1 DEF advance_slot, Then, Accept
  <2>2. has_state_fields(u) /\ u.slot = s.slot =>
          has_state_fields(r) /\ r.slot = s.slot + 1 /\ Decided(r) = Decided(u)
    <3> HIDE DEF u, r
    <3> QED BY <2>1 DEF has_state_fields, state_fields, Decided
  <2> QED BY <1>2, <1>5, <2>2
<1> QED BY <1>4, <1>5

LEMMA AdvanceSound ==
  ASSUME NEW s, NEW epochs, NEW pairs, Sound(s, epochs, pairs), advance_slot(s).ok
  PROVE  LET r == advance_slot(s).value
         IN  /\ Sound(r, epochs \cup {link[2] : link \in new_links(s)}, pairs \cup new_links(s))
             /\ r.current_justified_checkpoint.epoch >= s.current_justified_checkpoint.epoch
             /\ r.finalized_checkpoint.epoch >= s.finalized_checkpoint.epoch
<1> DEFINE u == process_slot(s).value
           r == advance_slot(s).value
           e == get_current_epoch(s)
           more_epochs == epochs \cup {link[2] : link \in new_links(s)}
           more_pairs == pairs \cup new_links(s)
<1>1. StateOK(s)
  BY DEF Sound
<1>2. Keeps(s, u) /\ KeepsParticipation(s, u)
  BY <1>1, AdvanceEffect
<1>3. PICK v : /\ IF (s.slot + 1) % SLOTS_PER_EPOCH = 0
                  THEN /\ ffg_process_justification_and_finalization(u).ok
                       /\ ffg_process_justification_and_finalization(u).value = v
                  ELSE v = u
               /\ has_state_fields(v) /\ v.slot = s.slot =>
                    /\ has_state_fields(r)
                    /\ r.slot = s.slot + 1
                    /\ Decided(r) = Decided(v)
  BY <1>1, AdvanceEffect
<1>4. s.slot \in Nat /\ e \in Nat
  BY <1>1, EpochIsNat DEF StateOK, get_current_epoch
<1>5. get_current_epoch(u) = e
  BY <1>2 DEF Keeps, get_current_epoch
<1> HIDE DEF u, r, e
<1>6. CASE Decided(v) = Decided(s) /\ has_state_fields(v) /\ v.slot = s.slot
           /\ ((s.slot + 1) % SLOTS_PER_EPOCH = 0 => e <= 1)
  <2>1. has_state_fields(r) /\ r.slot = s.slot + 1 /\ Decided(r) = Decided(s)
    BY <1>3, <1>6
  <2>2. \/ get_current_epoch(r) = e
        \/ get_current_epoch(r) = e + 1 /\ e <= 1
    BY <1>4, <1>6, <2>1, EpochStep DEF get_current_epoch, e
  <2>3. epochs \subseteq more_epochs /\ pairs \subseteq more_pairs
    OBVIOUS
  <2> HIDE DEF more_epochs, more_pairs
  <2>4. StateOK(r) /\ InOrder(r)
    BY <1>4, <2>1, <2>2 DEF Sound, StateOK, InOrder, Decided, e
  <2>5. NothingEarly(r)
    BY <1>4, <2>1, <2>2 DEF Sound, NothingEarly, Decided, e
  <2>6. /\ r.justification_bits = s.justification_bits
        /\ r.previous_justified_checkpoint = s.previous_justified_checkpoint
        /\ r.finalized_checkpoint = s.finalized_checkpoint
    BY <2>1 DEF Decided
  <2>7. BitsJustified(r, more_epochs) /\ FirstBitIsLink(r, more_pairs)
    <3>1. CASE get_current_epoch(r) = e
      BY <2>3, <2>6, <3>1 DEF Sound, BitsJustified, FirstBitIsLink, e
    <3>2. CASE e <= 1
      <4>1. \A k \in 1..4 : ~r.justification_bits[k]
        BY <1>4, <2>6, <3>2 DEF Sound, NothingEarly, e
      <4>2. 1 \in 1..4
        OBVIOUS
      <4> QED BY <4>1, <4>2 DEF BitsJustified, FirstBitIsLink
    <3> QED BY <2>2, <3>1, <3>2
  <2>8. FinalizedByLink(r, more_epochs, more_pairs)
    BY <2>3, <2>6 DEF Sound, FinalizedByLink, Finalizes
  <2>9. /\ r.current_justified_checkpoint.epoch >= s.current_justified_checkpoint.epoch
        /\ r.finalized_checkpoint.epoch >= s.finalized_checkpoint.epoch
    BY <1>1, <2>1 DEF Decided, StateOK
  <2> QED BY <2>4, <2>5, <2>7, <2>8, <2>9 DEF Sound, r, more_epochs, more_pairs
<1>7. CASE (s.slot + 1) % SLOTS_PER_EPOCH # 0
  BY <1>2, <1>3, <1>6, <1>7 DEF Keeps
<1>8. CASE (s.slot + 1) % SLOTS_PER_EPOCH = 0 /\ e <= 1
  <2>1. ffg_process_justification_and_finalization(u) = Accept(u)
    BY <1>5, <1>8 DEF ffg_process_justification_and_finalization
  <2>2. v = u
    BY <1>3, <1>8, <2>1 DEF Accept
  <2> QED BY <1>2, <1>6, <1>8, <2>2 DEF Keeps
<1>9. CASE (s.slot + 1) % SLOTS_PER_EPOCH = 0 /\ e >= 2
  <2>1. PICK total, previous, current :
          /\ ffg_process_justification_and_finalization(u)
               = weigh_justification_and_finalization(u, total, previous, current)
          /\ has_two_thirds(previous, total) =>
               <<s.previous_justified_checkpoint.epoch, e - 1>> \in new_links(s)
          /\ has_two_thirds(current, total) =>
               <<s.current_justified_checkpoint.epoch, e>> \in new_links(s)
    BY <1>1, <1>2, <1>3, <1>4, <1>9, WeighedLinks DEF e
  <2>2. StateOK(u) /\ Decided(u) = Decided(s) /\ u.slot = s.slot
    BY <1>1, <1>2 DEF Keeps, StateOK, Decided
  <2>3. /\ weigh_justification_and_finalization(u, total, previous, current).ok
        /\ weigh_justification_and_finalization(u, total, previous, current).value = v
    BY <1>3, <1>9, <2>1
  <2>4. has_state_fields(v) /\ v.slot = u.slot /\ Weighed(u, v, total, previous, current, e)
    <3>1. get_current_epoch(u) \in Nat \ {0}
      BY <1>4, <1>5, <1>9
    <3> QED BY <1>5, <2>2, <2>3, <3>1, WeighEffect
  <2>5. has_state_fields(r) /\ r.slot = s.slot + 1 /\ Decided(r) = Decided(v)
    BY <1>3, <2>2, <2>4
  <2>6. get_current_epoch(r) = e + 1 /\ r.slot \in Nat
    BY <1>4, <1>9, <2>5, EpochStep DEF get_current_epoch, e
  <2>7. /\ has_two_thirds(previous, total) =>
             /\ <<s.previous_justified_checkpoint.epoch, e - 1>> \in more_pairs
             /\ e - 1 \in more_epochs
        /\ has_two_thirds(current, total) =>
             /\ <<s.current_justified_checkpoint.epoch, e>> \in more_pairs
             /\ e \in more_epochs
        /\ epochs \subseteq more_epochs /\ pairs \subseteq more_pairs
    BY <2>1
  <2> HIDE DEF more_epochs, more_pairs
  <2>9. /\ r.justification_bits = v.justification_bits
        /\ r.previous_justified_checkpoint = v.previous_justified_checkpoint
        /\ r.current_justified_checkpoint = v.current_justified_checkpoint
        /\ r.finalized_checkpoint = v.finalized_checkpoint
        /\ u.justification_bits = s.justification_bits
        /\ u.previous_justified_checkpoint = s.previous_justified_checkpoint
        /\ u.current_justified_checkpoint = s.current_justified_checkpoint
        /\ u.finalized_checkpoint = s.finalized_checkpoint
    BY <2>2, <2>5 DEF Decided
  <2>10. Weighed(s, r, total, previous, current, e)
    BY <2>4, <2>9 DEF Weighed
  <2>11. /\ Sound(r, more_epochs, more_pairs)
         /\ r.current_justified_checkpoint.epoch >= s.current_justified_checkpoint.epoch
         /\ r.finalized_checkpoint.epoch >= s.finalized_checkpoint.epoch
    <3>1. e = get_current_epoch(s)
      BY DEF e
    <3>2. Counted(s, e, epochs, pairs, more_epochs, more_pairs, total, previous, current)
      BY <1>4, <1>9, <2>7, <3>1 DEF Counted
    <3>3. has_state_fields(r) /\ r.slot \in Nat
      BY <2>5, <2>6
    <3> HIDE DEF e, r
    <3> QED BY ONLY <2>6, <2>10, <3>2, <3>3, WeighSound
  <2> QED BY <2>11 DEF r, more_epochs, more_pairs
<1> QED BY <1>4, <1>7, <1>8, <1>9

-----------------------------------------------------------------------------
(* The specification. *)

LEMMA InitIInv == Init => IInv
<1> SUFFICES ASSUME Init PROVE IInv
  OBVIOUS
<1>1. /\ state = GENESIS /\ justified = {0} /\ links = {}
      /\ before.state = GENESIS /\ before.justified = {0} /\ before.links = {}
  BY DEF Init
<1>2. StateOK(GENESIS)
  BY GenesisAssumption DEF StateOK
<1>3. get_current_epoch(GENESIS) \in Nat
  BY GenesisAssumption, EpochIsNat DEF get_current_epoch
<1>4. InOrder(GENESIS)
  BY GenesisAssumption, <1>3 DEF InOrder
<1>5. \A k \in 1..4 : ~GENESIS.justification_bits[k]
  <2>1. GENESIS.justification_bits = <<FALSE, FALSE, FALSE, FALSE>>
    BY GenesisAssumption
  <2>2. /\ ~GENESIS.justification_bits[1] /\ ~GENESIS.justification_bits[2]
        /\ ~GENESIS.justification_bits[3] /\ ~GENESIS.justification_bits[4]
    BY <2>1
  <2>3. ASSUME NEW k \in 1..4
        PROVE  k = 1 \/ k = 2 \/ k = 3 \/ k = 4
    OBVIOUS
  <2> QED BY <2>2, <2>3, Zenon
<1>6. /\ BitsJustified(GENESIS, {0})
      /\ NothingEarly(GENESIS)
      /\ FirstBitIsLink(GENESIS, {})
  <2>1. 1 \in 1..4
    OBVIOUS
  <2> QED BY GenesisAssumption, <1>5, <2>1 DEF BitsJustified, NothingEarly, FirstBitIsLink
<1>7. FinalizedByLink(GENESIS, {0}, {})
  BY GenesisAssumption DEF FinalizedByLink
<1> QED BY <1>1, <1>2, <1>4, <1>6, <1>7 DEF IInv, Sound

(* Every step keeps the invariant, and none inside a call moves a          *)
(* checkpoint back.                                                        *)
LEMMA NextIInv ==
  IInv /\ [Next]_vars =>
    /\ IInv'
    /\ phase' # "idle" =>
         /\ state'.current_justified_checkpoint.epoch
              >= state.current_justified_checkpoint.epoch
         /\ state'.finalized_checkpoint.epoch >= state.finalized_checkpoint.epoch
<1> SUFFICES ASSUME IInv, [Next]_vars
             PROVE  /\ IInv'
                    /\ phase' # "idle" =>
                         /\ state'.current_justified_checkpoint.epoch
                              >= state.current_justified_checkpoint.epoch
                         /\ state'.finalized_checkpoint.epoch >= state.finalized_checkpoint.epoch
  OBVIOUS
<1>1. /\ Sound(state, justified, links)
      /\ Sound(before.state, before.justified, before.links)
      /\ has_state_fields(state)
      /\ state.current_justified_checkpoint.epoch \in Nat
      /\ state.finalized_checkpoint.epoch \in Nat
  BY DEF IInv, Sound, StateOK
<1>2. ASSUME NEW t, state' = t, Keeps(state, t), UNCHANGED <<before, justified, links>>
      PROVE  /\ IInv'
             /\ state'.current_justified_checkpoint.epoch
                  >= state.current_justified_checkpoint.epoch
             /\ state'.finalized_checkpoint.epoch >= state.finalized_checkpoint.epoch
  <2>1. Sound(t, justified, links)
    BY <1>1, <1>2, KeepsSound
  <2> QED BY <1>1, <1>2, <2>1 DEF IInv, Keeps, Decided
<1>3. ASSUME NEW new_block, BeginCall(new_block)
      PROVE  IInv' /\ state' = state
  BY <1>1, <1>3 DEF BeginCall, IInv
<1>4. CASE AdvanceSlot
  <2>1. /\ advance_slot(state).ok
        /\ state' = advance_slot(state).value
        /\ links' = links \cup new_links(state)
        /\ justified' = justified \cup {link[2] : link \in new_links(state)}
        /\ before' = before
    BY <1>4 DEF AdvanceSlot
  <2>2. /\ Sound(state', justified', links')
        /\ state'.current_justified_checkpoint.epoch
             >= state.current_justified_checkpoint.epoch
        /\ state'.finalized_checkpoint.epoch >= state.finalized_checkpoint.epoch
    BY <1>1, <2>1, AdvanceSound
  <2> QED BY <1>1, <2>1, <2>2 DEF IInv
<1>5. CASE BeginBlock
  BY <1>1, <1>2, <1>5, BeginBlockKeeps DEF BeginBlock
<1>6. CASE NextAttestation
  BY <1>1, <1>2, <1>6, ProcessAttestationKeeps DEF NextAttestation, next_attestation
<1>7. CASE Return
  BY <1>1, <1>7 DEF Return, IInv
<1>8. CASE Raise
  BY <1>1, <1>8 DEF Raise, IInv
<1>9. CASE UNCHANGED vars
  BY <1>1, <1>9 DEF vars, IInv
<1> QED BY <1>1, <1>3, <1>4, <1>5, <1>6, <1>7, <1>8, <1>9 DEF Next

(* The inductive invariant of every chain.                                 *)
THEOREM ChainInvariant == Spec => []IInv
<1> QED BY InitIInv, NextIInv, PTL DEF Spec

(* The three checkpoints of a state stay in order, whatever votes reach    *)
(* two thirds at the end of whatever epoch.                                *)
THEOREM EpochsStayInOrder == Spec => []EpochsInOrder
<1>1. IInv => EpochsInOrder
  BY DEF IInv, Sound, InOrder, EpochsInOrder, epoch
<1> QED BY <1>1, ChainInvariant, PTL

(* A set justification bit always names an epoch whose votes reached two   *)
(* thirds.                                                                 *)
THEOREM BitsAreJustified == Spec => []BitsTellJustifiedEpochs
<1>1. IInv => BitsTellJustifiedEpochs
  BY DEF IInv, Sound, BitsJustified, BitsTellJustifiedEpochs, epoch
<1> QED BY <1>1, ChainInvariant, PTL

(* The four bit patterns finalize by k-finality only: there is a           *)
(* supermajority link from the finalized epoch over at most one epoch,     *)
(* which is itself justified.                                              *)
THEOREM FinalityIsLinked == Spec => []FinalityHasLink
<1>1. IInv => FinalityHasLink
  BY DEF IInv, Sound, FinalizedByLink, Finalizes, FinalityHasLink
<1> QED BY <1>1, ChainInvariant, PTL

(* No step inside a call moves the justified or the finalized checkpoint   *)
(* to an earlier epoch.                                                    *)
THEOREM CheckpointsNeverReturn == Spec => CheckpointsMoveForward
<1>1. IInv /\ [Next]_vars =>
        [phase' # "idle" =>
           /\ state'.current_justified_checkpoint.epoch
                >= state.current_justified_checkpoint.epoch
           /\ state'.finalized_checkpoint.epoch >= state.finalized_checkpoint.epoch]_vars
  BY NextIInv
<1> QED BY <1>1, ChainInvariant, PTL DEF Spec, CheckpointsMoveForward

-----------------------------------------------------------------------------
(* The roots of the justified checkpoints.  The ring position of the start *)
(* of the justified epoch is not written again before the ring has gone    *)
(* round, which is when get_block_root stops answering.                    *)

OnChain(s) ==
  LET checkpoint == s.current_justified_checkpoint
      root == get_block_root(s, checkpoint.epoch)
  IN  checkpoint.epoch > 0 /\ root.ok => root.value = checkpoint.root

(* The checkpoint is one that get_block_root still answers for. *)
Rooted(s) ==
  LET checkpoint == s.current_justified_checkpoint
      root == get_block_root(s, checkpoint.epoch)
  IN  checkpoint.epoch \in Nat /\ root.ok /\ root.value = checkpoint.root

KeepsRoots(s, t) == t.slot = s.slot /\ t.block_roots = s.block_roots

RootInv == OnChain(state) /\ OnChain(before.state)

LEMMA SameRoots ==
  ASSUME NEW s, NEW t, KeepsRoots(s, t), NEW e
  PROVE  get_block_root(t, e) = get_block_root(s, e)
BY DEF KeepsRoots, get_block_root, get_block_root_at_slot

LEMMA KeepsOnChain ==
  ASSUME NEW s, NEW t, OnChain(s), KeepsRoots(s, t),
         t.current_justified_checkpoint = s.current_justified_checkpoint
  PROVE  OnChain(t)
BY SameRoots DEF OnChain

LEMMA BeginBlockKeepsRoots ==
  ASSUME NEW s, NEW b, has_state_fields(s), begin_block(s, b).ok
  PROVE  KeepsRoots(s, begin_block(s, b).value)
<1> DEFINE paid == process_parent_execution_payload(s, b)
           headed == process_block_header(paid.value, b)
<1>1. paid.ok /\ headed.ok
      /\ begin_block(s, b).value = process_execution_payload_bid(headed.value, b)
  BY DEF begin_block, Then, Accept
<1>2. has_state_fields(paid.value) /\ KeepsRoots(s, paid.value)
  BY <1>1 DEF has_state_fields, state_fields, process_parent_execution_payload, Accept,
              Reject, KeepsRoots
<1>3. has_state_fields(headed.value) /\ KeepsRoots(s, headed.value)
  <2>1. process_block_header(paid.value, b).ok
    BY <1>1
  <2> HIDE DEF paid
  <2> QED BY <1>2, <2>1 DEF has_state_fields, state_fields, process_block_header, Accept,
                            Reject, KeepsRoots
<1>4. ASSUME NEW t, has_state_fields(t), KeepsRoots(s, t)
      PROVE  KeepsRoots(s, process_execution_payload_bid(t, b))
  BY <1>4 DEF has_state_fields, state_fields, process_execution_payload_bid, KeepsRoots
<1> QED BY <1>1, <1>3, <1>4

LEMMA ProcessAttestationKeepsRoots ==
  ASSUME NEW s, NEW vote, NEW parent_slot, has_state_fields(s),
         process_attestation(s, vote, parent_slot).ok
  PROVE  KeepsRoots(s, process_attestation(s, vote, parent_slot).value)
<1>1. ASSUME NEW flags, set_participation(s, vote, flags).ok
      PROVE  KeepsRoots(s, set_participation(s, vote, flags).value)
  BY <1>1 DEF has_state_fields, state_fields, set_participation, Accept, Reject, KeepsRoots
<1> QED BY <1>1 DEF process_attestation, Then, Accept, Reject

(* The checkpoint that a supermajority justifies is on the chain.          *)
LEMMA JustifyRoots ==
  ASSUME NEW s, NEW e \in Nat, NEW p, has_state_fields(s), justify(s, e, p).ok
  PROVE  LET t == justify(s, e, p).value
         IN  /\ has_state_fields(t)
             /\ KeepsRoots(s, t)
             /\ get_block_root(s, e).ok
             /\ t.current_justified_checkpoint = [epoch |-> e, root |-> get_block_root(s, e).value]
<1> DEFINE root == get_block_root(s, e)
           bits == [s.justification_bits EXCEPT ![p] = TRUE]
           t == justify(s, e, p).value
<1>1. /\ root.ok
      /\ t = [s EXCEPT !.current_justified_checkpoint = [epoch |-> e, root |-> root.value],
                       !.justification_bits = bits]
  BY DEF justify, Then, Accept, Reject
<1> HIDE DEF bits, t, root
<1>2. /\ has_state_fields(t)
      /\ KeepsRoots(s, t)
      /\ t.current_justified_checkpoint = [epoch |-> e, root |-> root.value]
  BY <1>1 DEF has_state_fields, state_fields, KeepsRoots
<1> QED BY <1>1, <1>2 DEF t, root

(* The weighing writes no block root, and the current justified checkpoint *)
(* it leaves is the old one or a block of the chain.                       *)
LEMMA WeighRoots ==
  ASSUME NEW s, NEW total, NEW previous, NEW current, StateOK(s),
         get_current_epoch(s) \in Nat \ {0},
         weigh_justification_and_finalization(s, total, previous, current).ok
  PROVE  LET t == weigh_justification_and_finalization(s, total, previous, current).value
         IN  /\ KeepsRoots(s, t)
             /\ \/ t.current_justified_checkpoint = s.current_justified_checkpoint
                \/ Rooted(t)
<1> DEFINE e == get_current_epoch(s)
           before_it == get_previous_epoch(s)
           P == has_two_thirds(previous, total)
           C == has_two_thirds(current, total)
           shifted == shift_justification(s)
           first == IF P THEN justify(shifted, before_it, 2) ELSE Accept(shifted)
           second == IF C THEN justify(first.value, e, 1) ELSE Accept(first.value)
           t == weigh_justification_and_finalization(s, total, previous, current).value
           OnIt(u) == /\ has_state_fields(u)
                      /\ KeepsRoots(s, u)
                      /\ \/ u.current_justified_checkpoint = s.current_justified_checkpoint
                         \/ Rooted(u)
<1>1. e \in Nat /\ before_it \in Nat
  BY DEF get_previous_epoch
<1>2. /\ first.ok /\ second.ok
      /\ \E checkpoint : t = [second.value EXCEPT !.finalized_checkpoint = checkpoint]
  <2> HIDE DEF shifted, e, before_it, P, C
  <2> USE DEF Accept
  <2>1. Len(s.justification_bits) = 4
    BY DEF StateOK
  <2>2. first.ok
    BY <2>1 DEF weigh_justification_and_finalization, Then, shifted, before_it, P
  <2>3. second.ok
    BY <2>1, <2>2 DEF weigh_justification_and_finalization, Then, shifted, before_it, P, C, e
  <2> QED BY <2>1, <2>2, <2>3
          DEF weigh_justification_and_finalization, Then, shifted, before_it, P, C, e
<1>3. OnIt(shifted)
  BY DEF StateOK, shift_justification, has_state_fields, state_fields, KeepsRoots
<1>4. ASSUME NEW u, NEW k \in Nat, NEW p, OnIt(u), justify(u, k, p).ok
      PROVE  OnIt(justify(u, k, p).value)
  <2> DEFINE w == justify(u, k, p).value
  <2>1. /\ has_state_fields(w) /\ KeepsRoots(u, w) /\ get_block_root(u, k).ok
        /\ w.current_justified_checkpoint = [epoch |-> k, root |-> get_block_root(u, k).value]
    BY <1>4, JustifyRoots
  <2> HIDE DEF w
  <2>2. get_block_root(w, k) = get_block_root(u, k)
    BY <2>1, SameRoots
  <2>3. Rooted(w)
    BY <2>1, <2>2 DEF Rooted
  <2> QED BY <1>4, <2>1, <2>3 DEF KeepsRoots, w
<1>5. OnIt(first.value)
  <2>1. CASE P
    <3>1. justify(shifted, before_it, 2).ok /\ first.value = justify(shifted, before_it, 2).value
      BY <1>2, <2>1
    <3> HIDE DEF shifted, before_it, OnIt
    <3> QED BY <1>1, <1>3, <1>4, <3>1
  <2>2. CASE ~P
    BY <1>3, <2>2 DEF Accept
  <2> QED BY <2>1, <2>2
<1>6. OnIt(second.value)
  <2> HIDE DEF first
  <2>1. CASE C
    <3>1. justify(first.value, e, 1).ok /\ second.value = justify(first.value, e, 1).value
      BY <1>2, <2>1
    <3> HIDE DEF e, OnIt
    <3> QED BY <1>1, <1>4, <1>5, <3>1
  <2>2. CASE ~C
    BY <1>5, <2>2 DEF Accept
  <2> QED BY <2>1, <2>2
<1> HIDE DEF second
<1>7. PICK checkpoint : t = [second.value EXCEPT !.finalized_checkpoint = checkpoint]
  BY <1>2
<1> HIDE DEF t
<1>8. /\ KeepsRoots(second.value, t)
      /\ t.current_justified_checkpoint = second.value.current_justified_checkpoint
  BY <1>6, <1>7 DEF has_state_fields, state_fields, KeepsRoots
<1>9. Rooted(second.value) => Rooted(t)
  BY <1>8, SameRoots DEF Rooted
<1> QED BY <1>6, <1>8, <1>9 DEF KeepsRoots, t

LEMMA RingPositionsDiffer ==
  ASSUME NEW R \in Nat \ {0}, NEW a \in Nat, NEW b \in Nat, a < b, b < a + R
  PROVE  a % R # b % R
<1> SUFFICES ASSUME a % R = b % R PROVE FALSE
  OBVIOUS
<1> DEFINE k == (b \div R) - (a \div R)
<1>1. /\ a = R * (a \div R) + (a % R) /\ a \div R \in Int /\ a % R \in Int
      /\ b = R * (b \div R) + (b % R) /\ b \div R \in Int
  OBVIOUS
<1>2. k \in Int /\ b - a = R * (b \div R) - R * (a \div R)
  BY <1>1
<1>3. R * (b \div R) - R * (a \div R) = R * k
  BY <1>1
<1>4. 0 < R * k /\ R * k < R
  BY <1>2, <1>3
<1> HIDE DEF k
<1>5. k <= 0 => R * k <= 0
  BY <1>2
<1>6. k >= 1 => R * k >= R
  BY <1>2
<1> QED BY <1>2, <1>4, <1>5, <1>6

(* The end of a slot keeps it, whether or not it ends an epoch.            *)
LEMMA AdvanceKeepsOnChain ==
  ASSUME NEW s, NEW epochs, NEW pairs, Sound(s, epochs, pairs), OnChain(s),
         advance_slot(s).ok
  PROVE  OnChain(advance_slot(s).value) /\ advance_slot(s).value.slot = s.slot + 1
<1> DEFINE u == process_slot(s).value
           r == advance_slot(s).value
           ended == (s.slot + 1) % SLOTS_PER_EPOCH = 0
           weighed == ffg_process_justification_and_finalization(u)
           v == IF ended THEN weighed.value ELSE u
           e == s.current_justified_checkpoint.epoch
           start == e * SLOTS_PER_EPOCH
           position == s.slot % SLOTS_PER_HISTORICAL_ROOT
<1>1. StateOK(s)
  BY DEF Sound
<1>2. process_slot(s).ok
  BY DEF advance_slot, Then
<1>3. Keeps(s, u)
  BY <1>1, <1>2, ProcessSlotKeeps DEF StateOK
<1>4. /\ DOMAIN s.block_roots = Ring
      /\ u.block_roots = [s.block_roots EXCEPT ![position] = s.latest_block_header.root]
      /\ u.slot = s.slot
      /\ has_state_fields(u)
      /\ u.current_justified_checkpoint = s.current_justified_checkpoint
  BY <1>1, <1>2 DEF StateOK, has_state_fields, state_fields, process_slot, Accept, Reject
<1>5. s.slot \in Nat /\ e \in Nat /\ SLOTS_PER_EPOCH \in Nat \ {0}
      /\ SLOTS_PER_HISTORICAL_ROOT \in Nat \ {0} /\ start \in Nat
  BY <1>1, PresetAssumption DEF StateOK
<1>6. InOrder(s) => e = 0 \/ start < s.slot
  <2>1. ASSUME NEW a \in Nat, NEW k \in Nat, k < epoch_at(a) PROVE k * SLOTS_PER_EPOCH < a
    <3>1. epoch_at(a) \in Nat /\ SLOTS_PER_EPOCH * epoch_at(a) <= a
      BY <1>5, SMTT(30) DEF epoch_at
    <3>2. SLOTS_PER_EPOCH * (k + 1) <= SLOTS_PER_EPOCH * epoch_at(a)
      BY <1>5, <2>1, <3>1
    <3>3. SLOTS_PER_EPOCH * (k + 1) = k * SLOTS_PER_EPOCH + SLOTS_PER_EPOCH
      BY <1>5, <2>1
    <3> QED BY <1>5, <2>1, <3>1, <3>2, <3>3
  <2> QED BY <1>5, <2>1 DEF InOrder, get_current_epoch
<1>7. u.block_roots[start % SLOTS_PER_HISTORICAL_ROOT]
        = s.block_roots[start % SLOTS_PER_HISTORICAL_ROOT]
      \/ ~(start < s.slot /\ s.slot < start + SLOTS_PER_HISTORICAL_ROOT)
  <2>1. ASSUME start < s.slot, s.slot < start + SLOTS_PER_HISTORICAL_ROOT
        PROVE  start % SLOTS_PER_HISTORICAL_ROOT # position
    <3> HIDE DEF start
    <3> QED BY <1>5, <2>1, RingPositionsDiffer
  <2>2. start % SLOTS_PER_HISTORICAL_ROOT \in Ring
    <3> HIDE DEF start
    <3> QED BY <1>5 DEF Ring
  <2> HIDE DEF position, start
  <2> QED BY <1>4, <2>1, <2>2
<1>8. DOMAIN u.block_roots = Ring
  BY <1>4
(* What the epoch left behind is kept by the slot after it. *)
<1>9. /\ r.slot = s.slot + 1
      /\ r.block_roots = v.block_roots
      /\ r.current_justified_checkpoint = v.current_justified_checkpoint
      /\ KeepsRoots(u, v)
      /\ v.current_justified_checkpoint = u.current_justified_checkpoint \/ Rooted(v)
  <2>1. CASE ~ended
    <3>1. r = [u EXCEPT !.slot = @ + 1]
      <4> HIDE DEF u
      <4>1. process_slot(s).ok /\ process_slot(s).value = u
        BY <1>2 DEF u
      <4> QED BY <1>4, <2>1, <4>1 DEF advance_slot, Then, Accept
    <3> HIDE DEF u, r
    <3>2. v = u
      BY <2>1
    <3>3. /\ r.slot = s.slot + 1 /\ r.block_roots = u.block_roots
          /\ r.current_justified_checkpoint = u.current_justified_checkpoint
      BY <1>4, <1>5, <3>1 DEF has_state_fields, state_fields
    <3> QED BY <3>2, <3>3 DEF KeepsRoots
  <2>2. CASE ended
    <3>1. /\ weighed.ok
          /\ r = [process_participation_flag_updates(weighed.value) EXCEPT !.slot = @ + 1]
      <4> HIDE DEF weighed, u
      <4>1. process_slot(s).ok /\ process_slot(s).value = u
        BY <1>2 DEF u
      <4>2. process_epoch(u).ok /\ r = [process_epoch(u).value EXCEPT !.slot = @ + 1]
        BY <1>4, <2>2, <4>1 DEF advance_slot, Then, Accept
      <4> QED BY <4>2 DEF process_epoch, Then, Accept, weighed
    <3>2. /\ has_state_fields(weighed.value) /\ KeepsRoots(u, weighed.value)
          /\ \/ weighed.value.current_justified_checkpoint = u.current_justified_checkpoint
             \/ Rooted(weighed.value)
      <4>1. get_current_epoch(s) \in Nat /\ get_current_epoch(u) = get_current_epoch(s)
        BY <1>4, <1>5, EpochIsNat DEF get_current_epoch
      <4>2. CASE get_current_epoch(s) <= 1
        <5>1. weighed = Accept(u)
          BY <4>1, <4>2 DEF ffg_process_justification_and_finalization
        <5> QED BY <1>4, <5>1 DEF Accept, KeepsRoots
      <4>3. CASE get_current_epoch(s) >= 2
        <5>1. KeepsParticipation(s, u)
          BY <1>1, <1>2, ProcessSlotKeeps DEF StateOK
        <5>2. PICK total, previous, current :
                weighed = weigh_justification_and_finalization(u, total, previous, current)
          <6> HIDE DEF u
          <6> QED BY <1>1, <1>3, <2>2, <3>1, <4>1, <4>3, <5>1, WeighedLinks
        <5>3. StateOK(u)
          BY <1>1, <1>3 DEF Keeps, StateOK, Decided
        <5> HIDE DEF u
        <5>4. get_current_epoch(u) \in Nat \ {0}
          BY <4>1, <4>3
        <5>5. weigh_justification_and_finalization(u, total, previous, current).ok
          BY <3>1, <5>2
        <5> QED BY <5>2, <5>3, <5>4, <5>5, WeighEffect, WeighRoots
      <4> QED BY <4>1, <4>2, <4>3
    <3> DEFINE w == weighed.value
    <3> HIDE DEF w, r, u
    <3>3. r = [process_participation_flag_updates(w) EXCEPT !.slot = @ + 1]
      BY <3>1 DEF w
    <3>4. /\ has_state_fields(w) /\ KeepsRoots(u, w)
          /\ w.current_justified_checkpoint = u.current_justified_checkpoint \/ Rooted(w)
      BY <3>2 DEF w
    <3>5. v = w
      BY <2>2 DEF w
    <3>6. /\ r.slot = w.slot + 1 /\ r.block_roots = w.block_roots
          /\ r.current_justified_checkpoint = w.current_justified_checkpoint
      BY <3>3, <3>4 DEF process_participation_flag_updates, has_state_fields, state_fields
    <3> QED BY <1>4, <3>4, <3>5, <3>6 DEF KeepsRoots
  <2> QED BY <2>1, <2>2
<1> HIDE DEF u, r, v
<1> SUFFICES OnChain(r)
  BY <1>9 DEF r
<1>10. ASSUME NEW x, get_block_root(r, x).ok, x \in Nat, x * SLOTS_PER_EPOCH < s.slot
       PROVE  /\ get_block_root(v, x).ok
              /\ get_block_root(r, x).value = get_block_root(v, x).value
  <2> DEFINE begin == x * SLOTS_PER_EPOCH
  <2>1. begin \in Nat /\ begin < s.slot
    BY <1>5, <1>10
  <2>2. v.slot = s.slot
    BY <1>4, <1>9 DEF KeepsRoots
  <2> HIDE DEF begin
  <2>3. /\ begin <= UINT64_MAX
        /\ get_block_root_at_slot(r, begin).ok
        /\ get_block_root(r, x) = get_block_root_at_slot(r, begin)
        /\ get_block_root(v, x) = get_block_root_at_slot(v, begin)
    BY <1>10 DEF get_block_root, Reject, begin
  <2>4. /\ begin + SLOTS_PER_HISTORICAL_ROOT <= UINT64_MAX
        /\ r.slot <= begin + SLOTS_PER_HISTORICAL_ROOT
        /\ DOMAIN r.block_roots = Ring
    BY <2>3 DEF get_block_root_at_slot, Reject
  <2>5. begin < v.slot /\ v.slot <= begin + SLOTS_PER_HISTORICAL_ROOT
    BY <1>5, <1>9, <2>1, <2>2, <2>4
  <2>6. get_block_root_at_slot(v, begin) = Accept(v.block_roots[begin % SLOTS_PER_HISTORICAL_ROOT])
    BY <1>9, <2>4, <2>5 DEF get_block_root_at_slot
  <2>7. get_block_root_at_slot(r, begin) = Accept(r.block_roots[begin % SLOTS_PER_HISTORICAL_ROOT])
    BY <2>3, <2>4 DEF get_block_root_at_slot, Reject
  <2> QED BY <1>9, <2>3, <2>6, <2>7 DEF Accept
<1>11. CASE Rooted(v)
  <2> DEFINE x == v.current_justified_checkpoint.epoch
  <2>1. /\ get_block_root(v, x).ok
        /\ get_block_root(v, x).value = v.current_justified_checkpoint.root
        /\ x \in Nat
    BY <1>11 DEF Rooted
  <2>2. x * SLOTS_PER_EPOCH < v.slot
    BY <2>1 DEF get_block_root, get_block_root_at_slot, Reject
  <2>3. x * SLOTS_PER_EPOCH < s.slot
    BY <1>4, <1>9, <2>2 DEF KeepsRoots
  <2>4. r.current_justified_checkpoint = v.current_justified_checkpoint
    BY <1>9
  <2>5. get_block_root(r, x).ok =>
          get_block_root(r, x).value = v.current_justified_checkpoint.root
    BY <1>10, <2>1, <2>3
  <2> QED BY <2>4, <2>5 DEF OnChain
<1>12. CASE v.current_justified_checkpoint = s.current_justified_checkpoint
  <2> SUFFICES ASSUME e > 0, get_block_root(r, e).ok
               PROVE  get_block_root(r, e).value = s.current_justified_checkpoint.root
    <3>1. r.current_justified_checkpoint = s.current_justified_checkpoint
      BY <1>9, <1>12
    <3> QED BY <3>1 DEF OnChain
  <2>1. start < s.slot
    BY <1>6 DEF Sound
  <2>2. /\ get_block_root(v, e).ok
        /\ get_block_root(r, e).value = get_block_root(v, e).value
    BY <1>5, <1>10, <2>1
  <2>3. /\ start <= UINT64_MAX
        /\ start + SLOTS_PER_HISTORICAL_ROOT <= UINT64_MAX
        /\ r.slot <= start + SLOTS_PER_HISTORICAL_ROOT
        /\ DOMAIN r.block_roots = Ring
    BY DEF get_block_root, get_block_root_at_slot, Reject
  <2>4. get_block_root(v, e) = Accept(v.block_roots[start % SLOTS_PER_HISTORICAL_ROOT])
    BY <2>2, <2>3 DEF get_block_root, get_block_root_at_slot, Reject
  <2> HIDE DEF start
  <2>5. s.slot < start + SLOTS_PER_HISTORICAL_ROOT
    BY <1>5, <1>9, <2>3
  <2>6. get_block_root_at_slot(s, start)
          = Accept(s.block_roots[start % SLOTS_PER_HISTORICAL_ROOT])
    BY <1>4, <1>5, <2>1, <2>3, <2>5 DEF get_block_root_at_slot
  <2>7. get_block_root(s, e) = Accept(s.block_roots[start % SLOTS_PER_HISTORICAL_ROOT])
    BY <2>3, <2>6 DEF get_block_root, start
  <2>8. v.block_roots[start % SLOTS_PER_HISTORICAL_ROOT]
          = s.block_roots[start % SLOTS_PER_HISTORICAL_ROOT]
    BY <1>7, <1>9, <2>1, <2>5 DEF KeepsRoots
  <2>9. get_block_root(s, e).value = s.current_justified_checkpoint.root
    BY <2>7 DEF OnChain, Accept
  <2> QED BY <2>2, <2>4, <2>7, <2>8, <2>9 DEF Accept
<1> QED BY <1>4, <1>9, <1>11, <1>12

LEMMA InitRootInv == Init => RootInv
BY GenesisAssumption DEF Init, RootInv, OnChain

LEMMA NextRootInv == IInv /\ RootInv /\ [Next]_vars => RootInv'
<1> SUFFICES ASSUME IInv, RootInv, [Next]_vars PROVE RootInv'
  OBVIOUS
<1>1. /\ Sound(state, justified, links)
      /\ has_state_fields(state)
      /\ OnChain(state) /\ OnChain(before.state)
  BY DEF IInv, Sound, StateOK, RootInv
<1>2. ASSUME NEW new_block, BeginCall(new_block) PROVE RootInv'
  BY <1>1, <1>2 DEF BeginCall, RootInv
<1>3. CASE AdvanceSlot
  <2>1. /\ advance_slot(state).ok /\ state' = advance_slot(state).value /\ before' = before
    BY <1>3 DEF AdvanceSlot
  <2>2. OnChain(state')
    BY <1>1, <2>1, AdvanceKeepsOnChain
  <2> QED BY <1>1, <2>1, <2>2 DEF RootInv
<1>4. CASE BeginBlock
  <2>1. /\ begin_block(state, block).ok /\ state' = begin_block(state, block).value
        /\ before' = before
    BY <1>4 DEF BeginBlock
  <2>2. KeepsRoots(state, state') /\ Keeps(state, state')
    BY <1>1, <2>1, BeginBlockKeepsRoots, BeginBlockKeeps
  <2>3. OnChain(state')
    BY <1>1, <2>2, KeepsOnChain DEF Keeps, Decided
  <2> QED BY <1>1, <2>1, <2>3 DEF RootInv
<1>5. CASE NextAttestation
  <2>1. next_attestation.ok /\ state' = next_attestation.value /\ before' = before
    BY <1>5 DEF NextAttestation
  <2>2. KeepsRoots(state, state') /\ Keeps(state, state')
    BY <1>1, <2>1, ProcessAttestationKeepsRoots, ProcessAttestationKeeps DEF next_attestation
  <2>3. OnChain(state')
    BY <1>1, <2>2, KeepsOnChain DEF Keeps, Decided
  <2> QED BY <1>1, <2>1, <2>3 DEF RootInv
<1>6. CASE Return
  BY <1>1, <1>6 DEF Return, RootInv
<1>7. CASE Raise
  BY <1>1, <1>7 DEF Raise, RootInv
<1>8. CASE UNCHANGED vars
  BY <1>1, <1>8 DEF vars, RootInv
<1> QED BY <1>2, <1>3, <1>4, <1>5, <1>6, <1>7, <1>8 DEF Next

(* A justified checkpoint is a block of the state's own chain for as long  *)
(* as the ring of block roots reaches back to it.                          *)
THEOREM JustifiedIsOnChain == Spec => []JustifiedRootOnChain
<1>1. RootInv => JustifiedRootOnChain
  BY DEF RootInv, OnChain, JustifiedRootOnChain
<1>2. Spec => []RootInv
  BY InitRootInv, NextRootInv, ChainInvariant, PTL DEF Spec
<1> QED BY <1>1, <1>2, PTL

-----------------------------------------------------------------------------
(* The loops of process_slots and process_operations, and of the table of  *)
(* labels.  FoldLeft recurses over the sets of positions still to process, *)
(* so what a loop gives after its first k iterations is the value of that  *)
(* recursion at 1..k.                                                      *)

LoopStep(loop, parent_slot, result, item) ==
  IF loop = "slots" THEN Then(result, advance_slot)
  ELSE IF loop = "labels"
  THEN IF item \in Range(result) THEN result ELSE Append(result, item)
  ELSE IF loop = "votes" THEN with_labels(result, roots_of_vote(item))
  ELSE Then(result, LAMBDA s : process_attestation(s, item, parent_slot))

Loops(loop, parent_slot, base, seq, n, iter) ==
  iter = [S \in SUBSET (1..n) |->
            IF S = {} THEN base
            ELSE LoopStep(loop, parent_slot, iter[S \ {Max(S)}], seq[Max(S)])]

LEMMA LoopExists ==
  ASSUME NEW loop, NEW parent_slot, NEW base, NEW seq, NEW n \in Nat
  PROVE  \E iter : Loops(loop, parent_slot, base, seq, n, iter)
<1> DEFINE Has(k) == \E iter : Loops(loop, parent_slot, base, seq, k, iter)
           missing == {k \in Nat : ~ Has(k)}
<1> SUFFICES missing = {}
  OBVIOUS
<1> SUFFICES ASSUME missing # {} PROVE FALSE
  OBVIOUS
<1>1. PICK m \in missing : \A k \in missing : m <= k
  BY LeastNatural
<1>2. m # 0
  <2> DEFINE iter == [S \in SUBSET (1..0) |-> base]
  <2>1. 1..0 = {}
    OBVIOUS
  <2>2. Loops(loop, parent_slot, base, seq, 0, iter)
    BY <2>1 DEF Loops
  <2> QED BY <2>2
<1>3. m - 1 \in Nat /\ Has(m - 1)
  BY <1>1, <1>2
<1>4. PICK g : Loops(loop, parent_slot, base, seq, m - 1, g)
  BY <1>3
<1> DEFINE iter == [S \in SUBSET (1..m) |->
                      IF m \in S
                      THEN LoopStep(loop, parent_slot, g[S \ {m}], seq[m]) ELSE g[S]]
<1>5. ASSUME NEW S \in SUBSET (1..m)
      PROVE  iter[S] = IF S = {} THEN base
                       ELSE LoopStep(loop, parent_slot, iter[S \ {Max(S)}], seq[Max(S)])
  <2>1. CASE m \in S
    <3>1. Max(S) = m
      BY <2>1, MaxIsLast
    <3>2. S \ {m} \in SUBSET (1..m) /\ m \notin S \ {m}
      OBVIOUS
    <3>3. iter[S \ {m}] = g[S \ {m}]
      BY <3>2
    <3> QED BY <2>1, <3>1, <3>3
  <2>2. CASE m \notin S
    <3>1. S \in SUBSET (1..(m - 1))
      BY <1>3, <2>2
    <3>2. g[S] = IF S = {} THEN base
                 ELSE LoopStep(loop, parent_slot, g[S \ {Max(S)}], seq[Max(S)])
      BY <1>4, <3>1 DEF Loops
    <3>3. iter[S] = g[S] /\ iter[S \ {Max(S)}] = g[S \ {Max(S)}]
      BY <2>2
    <3> QED BY <3>2, <3>3
  <2> QED BY <2>1, <2>2
<1>6. Loops(loop, parent_slot, base, seq, m, iter)
  <2> DEFINE body == [S \in SUBSET (1..m) |->
                        IF S = {} THEN base
                        ELSE LoopStep(loop, parent_slot, iter[S \ {Max(S)}], seq[Max(S)])]
  <2>1. DOMAIN iter = DOMAIN body /\ \A S \in SUBSET (1..m) : iter[S] = body[S]
    BY <1>5
  <2>2. iter = [S \in SUBSET (1..m) |-> iter[S]] /\ body = [S \in SUBSET (1..m) |-> body[S]]
    OBVIOUS
  <2>3. iter = body
    BY <2>1, <2>2
  <2> QED BY <2>3 DEF Loops
<1> HIDE DEF iter
<1>7. Has(m)
  BY <1>6
<1> QED BY <1>1, <1>7

(* Before the first iteration, and the first k iterations one at a time. *)
LEMMA LoopStarts ==
  ASSUME NEW loop, NEW parent_slot, NEW base, NEW seq, NEW n \in Nat, NEW iter, NEW k,
         Loops(loop, parent_slot, base, seq, n, iter), k = 0
  PROVE  iter[1..k] = base
<1>1. 1..k = {} /\ {} \in SUBSET (1..n)
  OBVIOUS
<1> QED BY <1>1 DEF Loops

LEMMA LoopUnfolds ==
  ASSUME NEW loop, NEW parent_slot, NEW base, NEW seq, NEW n \in Nat, NEW iter,
         Loops(loop, parent_slot, base, seq, n, iter)
  PROVE  \A k \in 1..n : iter[1..k] = LoopStep(loop, parent_slot, iter[1..(k - 1)], seq[k])
<1>1. ASSUME NEW k \in 1..n
      PROVE  iter[1..k] = LoopStep(loop, parent_slot, iter[1..(k - 1)], seq[k])
  <2>1. 1..k \in SUBSET (1..n) /\ 1..k # {} /\ k \in 1..k
    OBVIOUS
  <2>2. Max(1..k) = k
    BY MaxIsLast
  <2>3. (1..k) \ {k} = 1..(k - 1)
    OBVIOUS
  <2> QED BY <2>1, <2>2, <2>3 DEF Loops
<1> QED BY <1>1

(* Iteration m + 1 takes the result of the first m, and the item at m + 1. *)
Steps(loop, parent_slot, iter, seq, m) ==
  iter[1..(m + 1)] = LoopStep(loop, parent_slot, iter[1..m], seq[m + 1])

LEMMA LoopNext ==
  ASSUME NEW loop, NEW parent_slot, NEW base, NEW seq, NEW n \in Nat, NEW iter,
         Loops(loop, parent_slot, base, seq, n, iter), NEW m \in Nat, m + 1 <= n
  PROVE  Steps(loop, parent_slot, iter, seq, m)
<1>1. 1..(m + 1) \in SUBSET (1..n) /\ 1..(m + 1) # {} /\ m + 1 \in 1..(m + 1)
  OBVIOUS
<1>2. Max(1..(m + 1)) = m + 1
  BY MaxIsLast
<1>3. (1..(m + 1)) \ {m + 1} = 1..m
  OBVIOUS
<1> QED BY <1>1, <1>2, <1>3 DEF Loops, Steps

(* Once an iteration has failed, so has the whole loop. *)
LEMMA LoopStaysFailed ==
  ASSUME NEW loop, NEW parent_slot, NEW base, NEW seq, NEW n \in Nat, NEW iter,
         Loops(loop, parent_slot, base, seq, n, iter), loop \in {"slots", "operations"},
         NEW k \in 0..n, ~ iter[1..k].ok
  PROVE  ~ iter[1..n].ok
<1> DEFINE recovered == {j \in Nat : j >= k /\ j <= n /\ iter[1..j].ok}
<1> SUFFICES ASSUME recovered # {} PROVE FALSE
  OBVIOUS
<1>1. PICK m \in recovered : \A j \in recovered : m <= j
  BY LeastNatural
<1>2. m - 1 \in Nat /\ m - 1 >= k /\ m \in 1..n
  BY <1>1
<1>3. ~ iter[1..(m - 1)].ok
  BY <1>1, <1>2
<1>4. iter[1..m] = LoopStep(loop, parent_slot, iter[1..(m - 1)], seq[m])
  BY <1>2, LoopUnfolds
<1> QED BY <1>1, <1>3, <1>4 DEF LoopStep, Then

-----------------------------------------------------------------------------
(* The calls against state_transition as one function.                     *)

Slots(from, to) == [n \in 1..(to - from) |-> n]

SlotLoop(from, to, iter) ==
  Loops("slots", 0, Accept(from), Slots(from.slot, to), to - from.slot, iter)

VoteLoop(reached, b, iter) ==
  Loops("operations", reached.latest_block_header.slot, Accept(begin_block(reached, b).value),
        b.attestations, Len(b.attestations), iter)

LEMMA ProcessSlotsIsLoop ==
  ASSUME NEW from, NEW to \in Nat, from.slot \in Nat, from.slot < to, to <= UINT64_MAX
  PROVE  \E iter : /\ SlotLoop(from, to, iter)
                   /\ ffg_process_slots(from, to) = iter[1..(to - from.slot)]
<1> DEFINE n == to - from.slot
           seq == Slots(from.slot, to)
           body(iter) == [S \in SUBSET (1..n) |->
                            IF S = {} THEN Accept(from)
                            ELSE Then(iter[S \ {Max(S)}], advance_slot)]
           result == CHOOSE iter : iter = body(iter)
<1>1. n \in Nat /\ DOMAIN seq = 1..n
  BY DEF Slots
<1>2. \A iter : SlotLoop(from, to, iter) <=> iter = body(iter)
  BY DEF SlotLoop, Loops, LoopStep
<1>3. \E iter : SlotLoop(from, to, iter)
  BY <1>1, LoopExists DEF SlotLoop
<1>4. result = body(result)
  BY <1>2, <1>3
<1>5. ffg_process_slots(from, to) = result[1..n]
  <2>1. ~ (to > UINT64_MAX \/ from.slot >= to)
    BY PresetAssumption
  <2> QED BY <1>1, <2>1 DEF ffg_process_slots, FoldLeft, MapThenFoldSet, Slots
<1> QED BY <1>2, <1>4, <1>5

LEMMA ProcessOperationsIsLoop ==
  ASSUME NEW reached, NEW b, is_block(b), operations_within_limits(b)
  PROVE  \E iter : /\ VoteLoop(reached, b, iter)
                   /\ process_operations(begin_block(reached, b).value, b, reached.latest_block_header.slot)
                        = iter[1..Len(b.attestations)]
<1> DEFINE n == Len(b.attestations)
           seq == b.attestations
           parent_slot == reached.latest_block_header.slot
           begun == begin_block(reached, b).value
           body(iter) == [S \in SUBSET (1..n) |->
                            IF S = {} THEN Accept(begun)
                            ELSE Then(iter[S \ {Max(S)}],
                                      LAMBDA s : process_attestation(s, seq[Max(S)], parent_slot))]
           result == CHOOSE iter : iter = body(iter)
<1>1. n \in Nat /\ DOMAIN seq = 1..n
  BY DEF is_block
<1>2. \A iter : VoteLoop(reached, b, iter) <=> iter = body(iter)
  BY DEF VoteLoop, Loops, LoopStep
<1>3. \E iter : VoteLoop(reached, b, iter)
  BY <1>1, LoopExists DEF VoteLoop
<1>4. result = body(result)
  BY <1>2, <1>3
<1>5. process_operations(begun, b, parent_slot) = result[1..n]
  BY <1>1 DEF process_operations, FoldLeft, MapThenFoldSet
<1> QED BY <1>2, <1>4, <1>5

(* Where a call stands, in the terms of the whole function.                *)
InSlots ==
  /\ state.slot \in before.state.slot..block.slot
  /\ \A iter : SlotLoop(before.state, block.slot, iter) =>
       iter[1..(state.slot - before.state.slot)] = Accept(state)

InOperations ==
  /\ ffg_process_slots(before.state, block.slot) = Accept(at_slot)
  /\ begin_block(at_slot, block).ok
  /\ operations_within_limits(block)
  /\ done \in 0..Len(block.attestations)
  /\ \A iter : VoteLoop(at_slot, block, iter) => iter[1..done] = Accept(state)

CallInv ==
  /\ phase \in {"idle", "slots", "operations"}
  /\ phase # "idle" =>
       /\ is_block(block)
       /\ before.state.slot < block.slot /\ block.slot <= UINT64_MAX
       /\ IsWellFormed(before.state)
       /\ in_fixed_scope(block)
  /\ phase = "slots" => InSlots
  /\ phase = "operations" => InOperations

LEMMA InSlotsStep ==
  ASSUME CallInv, phase = "slots", StateOK(state), StateOK(before.state),
         state.slot < block.slot
  PROVE  /\ \A iter : SlotLoop(before.state, block.slot, iter) =>
              iter[1..(state.slot + 1 - before.state.slot)] = advance_slot(state)
         /\ ~advance_slot(state).ok => ~ffg_process_slots(before.state, block.slot).ok
<1> DEFINE k == state.slot - before.state.slot
           n == block.slot - before.state.slot
<1>1. /\ InSlots /\ is_block(block)
      /\ before.state.slot < block.slot /\ block.slot <= UINT64_MAX
  BY DEF CallInv
<1>2. /\ k \in Nat /\ n \in Nat /\ k + 1 \in 1..n /\ k + 1 \in 0..n
      /\ state.slot + 1 - before.state.slot = k + 1
      /\ block.slot \in Nat /\ before.state.slot \in Nat
  <2>1. /\ block.slot \in Nat /\ before.state.slot \in Nat /\ state.slot \in Nat
        /\ state.slot >= before.state.slot
    BY <1>1 DEF InSlots, is_block, StateOK
  <2> QED BY <2>1
<1>3. ASSUME NEW iter, SlotLoop(before.state, block.slot, iter)
      PROVE  /\ iter[1..(k + 1)] = advance_slot(state)
             /\ ~advance_slot(state).ok => ~iter[1..n].ok
  <2>1. iter[1..k] = Accept(state)
    BY <1>1, <1>3 DEF InSlots
  <2> DEFINE seq == Slots(before.state.slot, block.slot)
             base == Accept(before.state)
  <2> HIDE DEF k, n, seq, base
  <2>2. Loops("slots", 0, base, seq, n, iter)
    BY <1>3 DEF SlotLoop, n, seq, base
  <2>3. iter[1..(k + 1)] = LoopStep("slots", 0, iter[1..(k + 1 - 1)], seq[k + 1])
    <3>1. \A j \in 1..n : iter[1..j] = LoopStep("slots", 0, iter[1..(j - 1)], seq[j])
      <4>1. n \in Nat
        BY <1>2
      <4> QED BY ONLY <2>2, <4>1, LoopUnfolds
    <3> QED BY ONLY <1>2, <3>1
  <2>4. k + 1 - 1 = k
    BY <1>2
  <2>5. iter[1..(k + 1)] = advance_slot(state)
    BY <2>1, <2>3, <2>4 DEF LoopStep, Then, Accept
  <2>6. ~advance_slot(state).ok => ~iter[1..n].ok
    BY <1>2, <2>2, <2>5, LoopStaysFailed
  <2> QED BY <2>5, <2>6
<1>4. PICK iter : /\ SlotLoop(before.state, block.slot, iter)
                  /\ ffg_process_slots(before.state, block.slot) = iter[1..n]
  BY <1>1, <1>2, ProcessSlotsIsLoop
<1> QED BY <1>2, <1>3, <1>4

LEMMA InOperationsStep ==
  ASSUME CallInv, phase = "operations", done < Len(block.attestations)
  PROVE  /\ \A iter : VoteLoop(at_slot, block, iter) => iter[1..(done + 1)] = next_attestation
         /\ ~next_attestation.ok =>
              ~process_operations(begin_block(at_slot, block).value, block,
                                  at_slot.latest_block_header.slot).ok
<1> DEFINE n == Len(block.attestations)
           parent_slot == at_slot.latest_block_header.slot
           base == Accept(begin_block(at_slot, block).value)
           seq == block.attestations
<1>1. InOperations /\ is_block(block)
  BY DEF CallInv
<1>2. done \in Nat /\ n \in Nat /\ done + 1 \in 1..n /\ done + 1 \in 0..n
  BY <1>1 DEF InOperations, is_block
<1>3. ASSUME NEW iter, VoteLoop(at_slot, block, iter)
      PROVE  /\ iter[1..(done + 1)] = next_attestation
             /\ ~next_attestation.ok => ~iter[1..n].ok
  <2>1. iter[1..done] = Accept(state)
    BY <1>1, <1>3 DEF InOperations
  <2> HIDE DEF n, parent_slot, base, seq
  <2>2. Loops("operations", parent_slot, base, seq, n, iter)
    BY <1>3 DEF VoteLoop, n, parent_slot, base, seq
  <2>3. iter[1..(done + 1)]
          = LoopStep("operations", parent_slot, iter[1..(done + 1 - 1)], seq[done + 1])
    <3>1. \A j \in 1..n : iter[1..j] = LoopStep("operations", parent_slot, iter[1..(j - 1)], seq[j])
      BY <1>2, <2>2, LoopUnfolds
    <3> QED BY ONLY <1>2, <3>1
  <2>4. done + 1 - 1 = done
    BY <1>2
  <2>5. iter[1..(done + 1)] = next_attestation
    BY <2>1, <2>3, <2>4 DEF LoopStep, Then, Accept, next_attestation, parent_slot, seq
  <2>6. ~next_attestation.ok => ~iter[1..n].ok
    BY <1>2, <2>2, <2>5, LoopStaysFailed
  <2> QED BY <2>5, <2>6
<1>4. PICK iter : /\ VoteLoop(at_slot, block, iter)
                  /\ process_operations(begin_block(at_slot, block).value, block, parent_slot)
                       = iter[1..n]
  BY <1>1, ProcessOperationsIsLoop DEF InOperations
<1> QED BY <1>3, <1>4

LEMMA InitCallInv == Init => CallInv
BY DEF Init, CallInv

LEMMA NextCallInv == IInv /\ RootInv /\ CallInv /\ [Next]_vars => CallInv'
<1> SUFFICES ASSUME IInv, RootInv, CallInv, [Next]_vars PROVE CallInv'
  OBVIOUS
<1>1. /\ Sound(state, justified, links) /\ OnChain(state)
      /\ StateOK(state) /\ StateOK(before.state)
  BY DEF IInv, Sound, RootInv
<1>2. ASSUME NEW new_block, BeginCall(new_block) PROVE CallInv'
  <2>1. /\ phase' = "slots" /\ block' = new_block /\ state' = state /\ before'.state = state
        /\ is_block(new_block) /\ new_block.slot <= UINT64_MAX /\ state.slot < new_block.slot
        /\ IsWellFormed(state) /\ in_fixed_scope(new_block)
    BY <1>2 DEF BeginCall
  <2>2. /\ state.slot \in Nat /\ new_block.slot \in Nat
        /\ state.slot - state.slot = 0 /\ new_block.slot - state.slot \in Nat
        /\ state.slot \in state.slot..new_block.slot
    <3>1. state.slot \in Nat /\ new_block.slot \in Nat
      BY <1>1, <2>1 DEF StateOK, is_block
    <3> QED BY <2>1, <3>1
  <2>3. ASSUME NEW iter, SlotLoop(state, new_block.slot, iter)
        PROVE  iter[1..0] = Accept(state)
    <3> DEFINE n == new_block.slot - state.slot
               seq == Slots(state.slot, new_block.slot)
               base == Accept(state)
    <3>1. n \in Nat
      BY <2>2
    <3> HIDE DEF n, seq, base
    <3>2. Loops("slots", 0, base, seq, n, iter)
      BY <2>3 DEF SlotLoop, n, seq, base
    <3>3. iter[1..0] = base
      BY <3>1, <3>2, LoopStarts
    <3> QED BY <3>3 DEF base
  <2>4. InSlots'
    BY <2>1, <2>2, <2>3 DEF InSlots
  <2> QED BY <2>1, <2>4 DEF CallInv
<1>3. CASE AdvanceSlot
  <2>1. /\ phase = "slots" /\ state.slot < block.slot /\ advance_slot(state).ok
        /\ state' = advance_slot(state).value
        /\ phase' = phase /\ block' = block /\ before' = before
    BY <1>3 DEF AdvanceSlot
  <2>2. state'.slot = state.slot + 1
    BY <1>1, <2>1, AdvanceKeepsOnChain
  <2>3. \A iter : SlotLoop(before.state, block.slot, iter) =>
          iter[1..(state.slot + 1 - before.state.slot)] = advance_slot(state)
    BY <1>1, <2>1, InSlotsStep
  <2>4. advance_slot(state) = Accept(state')
    BY <2>1 DEF advance_slot, Then, Accept
  <2>5. InSlots'
    <3>1. state'.slot \in before.state.slot..block.slot
      <4>1. is_block(block) /\ InSlots
        BY <2>1 DEF CallInv
      <4>2. /\ state.slot \in Nat /\ before.state.slot \in Nat /\ block.slot \in Nat
            /\ state.slot \in before.state.slot..block.slot
        BY <1>1, <4>1 DEF StateOK, InSlots, is_block
      <4>3. state.slot < block.slot
        BY <2>1
      <4> QED BY ONLY <2>2, <4>2, <4>3
    <3>2. ASSUME NEW iter, SlotLoop(before.state, block.slot, iter)
          PROVE  iter[1..(state'.slot - before.state.slot)] = Accept(state')
      <4>1. iter[1..(state.slot + 1 - before.state.slot)] = Accept(state')
        BY <2>3, <2>4, <3>2
      <4>2. state'.slot - before.state.slot = state.slot + 1 - before.state.slot
        <5>1. state.slot \in Nat /\ before.state.slot \in Nat
          BY <1>1 DEF StateOK
        <5> QED BY ONLY <2>2, <5>1
      <4> QED BY <4>1, <4>2, Zenon
    <3> QED BY <2>1, <3>1, <3>2 DEF InSlots
  <2> QED BY <2>1, <2>5 DEF CallInv
<1>4. CASE BeginBlock
  <2>1. /\ phase = "slots" /\ state.slot = block.slot
        /\ begin_block(state, block).ok /\ operations_within_limits(block)
        /\ state' = begin_block(state, block).value
        /\ at_slot' = state /\ phase' = "operations" /\ done' = 0
        /\ before' = before /\ block' = block
    BY <1>4 DEF BeginBlock
  <2>2. /\ InSlots /\ is_block(block)
        /\ before.state.slot < block.slot /\ block.slot <= UINT64_MAX
    BY <2>1 DEF CallInv
  <2>3. ffg_process_slots(before.state, block.slot) = Accept(state)
    <3>1. before.state.slot \in Nat /\ block.slot \in Nat
      BY <1>1, <2>2 DEF StateOK, is_block
    <3>2. PICK iter : /\ SlotLoop(before.state, block.slot, iter)
                      /\ ffg_process_slots(before.state, block.slot)
                           = iter[1..(block.slot - before.state.slot)]
      BY <2>2, <3>1, ProcessSlotsIsLoop
    <3> QED BY <2>1, <2>2, <3>2 DEF InSlots
  <2>4. ASSUME NEW iter, VoteLoop(state, block, iter)
        PROVE  iter[1..0] = Accept(begin_block(state, block).value)
    <3>1. Len(block.attestations) \in Nat
      BY <2>2 DEF is_block
    <3> DEFINE n == Len(block.attestations)
               parent_slot == state.latest_block_header.slot
               base == Accept(begin_block(state, block).value)
    <3> HIDE DEF n, parent_slot, base
    <3>2. Loops("operations", parent_slot, base, block.attestations, n, iter)
      BY <2>4 DEF VoteLoop, n, parent_slot, base
    <3>3. n \in Nat
      BY <3>1 DEF n
    <3>4. iter[1..0] = base
      BY <3>2, <3>3, LoopStarts
    <3> QED BY <3>4 DEF base
  <2>5. 0 \in 0..Len(block.attestations)
    BY <2>2 DEF is_block
  <2>6. InOperations'
    BY <2>1, <2>3, <2>4, <2>5 DEF InOperations
  <2> QED BY <2>1, <2>6 DEF CallInv
<1>5. CASE NextAttestation
  <2>1. /\ phase = "operations" /\ done < Len(block.attestations) /\ next_attestation.ok
        /\ state' = next_attestation.value /\ done' = done + 1
        /\ phase' = phase /\ block' = block /\ before' = before /\ at_slot' = at_slot
    BY <1>5 DEF NextAttestation
  <2>2. \A iter : VoteLoop(at_slot, block, iter) => iter[1..(done + 1)] = next_attestation
    BY <2>1, InOperationsStep
  <2>3. next_attestation = Accept(state')
    <3>1. ASSUME NEW s, NEW vote, NEW parent_slot, process_attestation(s, vote, parent_slot).ok
          PROVE  process_attestation(s, vote, parent_slot)
                   = Accept(process_attestation(s, vote, parent_slot).value)
      <4>1. ASSUME NEW flags, set_participation(s, vote, flags).ok
            PROVE  set_participation(s, vote, flags)
                     = Accept(set_participation(s, vote, flags).value)
        BY <4>1 DEF set_participation, Accept, Reject
      <4> QED BY <3>1, <4>1 DEF process_attestation, Then, Accept, Reject
    <3> QED BY <2>1, <3>1 DEF next_attestation
  <2>4. InOperations /\ done + 1 \in 0..Len(block.attestations)
    BY <2>1 DEF CallInv, InOperations, is_block
  <2>5. InOperations'
    BY <2>1, <2>2, <2>3, <2>4 DEF InOperations
  <2> QED BY <2>1, <2>5 DEF CallInv
<1>6. CASE Return
  BY <1>6 DEF Return, CallInv
<1>7. CASE Raise
  BY <1>7 DEF Raise, CallInv
<1>8. CASE UNCHANGED vars
  <2>1. UNCHANGED <<state, before, at_slot, block, phase, done>>
    BY <1>8 DEF vars
  <2>2. (InSlots' <=> InSlots) /\ (InOperations' <=> InOperations)
    BY <2>1 DEF InSlots, InOperations
  <2> QED BY <2>1, <2>2 DEF CallInv
<1> QED BY <1>2, <1>3, <1>4, <1>5, <1>6, <1>7, <1>8 DEF Next

(* A call that ends has returned what state_transition accepts, or raised   *)
(* where state_transition rejects and given the state back.                 *)
LEMMA CallEnds ==
  ASSUME IInv, RootInv, CallInv, [Next]_vars, phase # "idle", phase' = "idle"
  PROVE  LET whole == ffg_state_transition(before.state, block)
         IN  \/ whole = Accept(state')
             \/ ~whole.ok /\ state' = before.state
<1> DEFINE whole == ffg_state_transition(before.state, block)
<1>1. /\ is_block(block) /\ IsWellFormed(before.state) /\ in_fixed_scope(block)
      /\ before.state.slot < block.slot /\ block.slot <= UINT64_MAX
      /\ StateOK(state) /\ StateOK(before.state)
  BY DEF CallInv, IInv, Sound
<1> DEFINE slots == ffg_process_slots(before.state, block.slot)
           begun == begin_block(at_slot, block)
           voted == process_operations(begun.value, block, at_slot.latest_block_header.slot)
<1>2. whole = Then(slots, LAMBDA reached : Then(process_block(reached, block), LAMBDA result :
                IF oracle_accepts(reached, block, result) THEN Accept(result) ELSE Reject("oracle")))
  <2>1. ~(before.state.slot > UINT64_MAX \/ block.slot > UINT64_MAX)
    <3>1. before.state.slot \in Nat /\ block.slot \in Nat /\ UINT64_MAX \in Nat
      BY <1>1, PresetAssumption DEF StateOK, is_block
    <3>2. before.state.slot < block.slot /\ block.slot <= UINT64_MAX
      BY <1>1
    <3> QED BY ONLY <3>1, <3>2
  <2> QED BY <1>1, <2>1 DEF ffg_state_transition
<1>3. phase = "slots" \/ phase = "operations"
  BY DEF CallInv
<1>4. ~(\E new_block : BeginCall(new_block)) /\ ~BeginBlock /\ ~AdvanceSlot
      /\ ~NextAttestation /\ ~UNCHANGED vars
  BY DEF BeginCall, BeginBlock, AdvanceSlot, NextAttestation, vars
<1>5. Return \/ Raise
  BY <1>4 DEF Next
<1>6. ASSUME phase = "operations"
      PROVE  /\ whole = Then(voted, LAMBDA result :
                          IF oracle_accepts(at_slot, block, result)
                          THEN Accept(result) ELSE Reject("oracle"))
             /\ done = Len(block.attestations) => voted = Accept(state)
  <2>1. InOperations
    BY <1>6 DEF CallInv
  <2>2. slots = Accept(at_slot) /\ begun.ok /\ operations_within_limits(block)
    BY <2>1 DEF InOperations
  <2>3. PICK iter : VoteLoop(at_slot, block, iter) /\ voted = iter[1..Len(block.attestations)]
    BY <1>1, <2>2, ProcessOperationsIsLoop
  <2>4. done = Len(block.attestations) => voted = Accept(state)
    BY <2>1, <2>3 DEF InOperations
  <2> HIDE DEF slots, begun, voted, whole
  <2>5. process_block(at_slot, block) = voted
    BY <2>2 DEF process_block, Then, begun, voted
  <2>6. whole = Then(process_block(at_slot, block), LAMBDA result :
                  IF oracle_accepts(at_slot, block, result)
                  THEN Accept(result) ELSE Reject("oracle"))
    BY <1>2, <2>2 DEF Then, Accept
  <2> QED BY <2>4, <2>5, <2>6
<1>7. CASE Return
  <2>1. /\ phase = "operations" /\ done = Len(block.attestations)
        /\ oracle_accepts(at_slot, block, state) /\ state' = state
    BY <1>7 DEF Return
  <2>2. whole = Accept(state)
    <3> HIDE DEF whole
    <3> QED BY <1>6, <2>1 DEF Then, Accept
  <2> QED BY <2>1, <2>2
<1>8. CASE Raise
  <2>1. step_fails /\ state' = before.state
    BY <1>8 DEF Raise
  <2> SUFFICES ~whole.ok
    BY <2>1
  <2>2. CASE phase = "slots" /\ state.slot < block.slot
    <3>1. ~slots.ok
      BY <1>1, <2>1, <2>2, InSlotsStep DEF step_fails
    <3> HIDE DEF slots, whole
    <3> QED BY <1>2, <3>1 DEF Then
  <2>3. CASE phase = "slots" /\ ~(state.slot < block.slot)
    <3>1. InSlots
      BY <2>3 DEF CallInv
    <3>2. /\ state.slot = block.slot
          /\ before.state.slot \in Nat /\ block.slot \in Nat
      BY <1>1, <2>3, <3>1 DEF InSlots, StateOK, is_block
    <3>3. PICK iter : /\ SlotLoop(before.state, block.slot, iter)
                      /\ slots = iter[1..(block.slot - before.state.slot)]
      BY <1>1, <3>2, ProcessSlotsIsLoop
    <3>4. slots = Accept(state)
      BY <3>1, <3>2, <3>3 DEF InSlots
    <3>5. ~(begin_block(state, block).ok /\ operations_within_limits(block))
      BY <2>1, <2>3 DEF step_fails
    <3> HIDE DEF slots, whole
    <3>6. ~process_block(state, block).ok
      BY <3>5 DEF process_block, process_operations, Then, Reject
    <3> QED BY <1>2, <3>4, <3>6 DEF Then, Accept
  <2>4. CASE phase = "operations" /\ done < Len(block.attestations)
    <3>1. ~voted.ok
      BY <2>1, <2>4, InOperationsStep DEF step_fails
    <3> HIDE DEF voted, whole
    <3> QED BY <1>6, <2>4, <3>1 DEF Then
  <2>5. CASE phase = "operations" /\ ~(done < Len(block.attestations))
    <3>1. InOperations
      BY <2>5 DEF CallInv
    <3>2. done = Len(block.attestations) /\ ~oracle_accepts(at_slot, block, state)
      BY <1>1, <2>1, <2>5, <3>1 DEF InOperations, is_block, step_fails
    <3> HIDE DEF voted, whole
    <3> QED BY <1>6, <2>5, <3>2 DEF Then, Accept, Reject
  <2> QED BY <1>3, <2>2, <2>3, <2>4, <2>5
<1> QED BY <1>5, <1>7, <1>8

(* The calls refine the function: what a call returns, or gives back when  *)
(* it raises, is what state_transition as a whole gives for its block.     *)
THEOREM CallsAreTransitions == Spec => CallsMatchTransition
<1> DEFINE whole == ffg_state_transition(before.state, block)
           Matches == IF whole.ok THEN state' = whole.value ELSE state' = before.state
<1>1. ASSUME IInv, RootInv, CallInv, [Next]_vars, phase # "idle", phase' = "idle"
      PROVE  Matches
  <2>1. \/ whole = Accept(state')
        \/ ~whole.ok /\ state' = before.state
    BY <1>1, CallEnds
  <2> HIDE DEF whole
  <2> QED BY <2>1 DEF Accept
<1>2. IInv /\ RootInv /\ CallInv /\ [Next]_vars
        => [phase # "idle" /\ phase' = "idle" => Matches]_vars
  BY <1>1
<1>3. Spec => []RootInv
  BY InitRootInv, NextRootInv, ChainInvariant, PTL DEF Spec
<1>4. Spec => []CallInv
  BY <1>3, InitCallInv, NextCallInv, ChainInvariant, PTL DEF Spec
<1> QED BY <1>2, <1>3, <1>4, ChainInvariant, PTL DEF Spec, CallsMatchTransition

-----------------------------------------------------------------------------
(* The slots after a call.  What the bundle supposes of them is read off    *)
(* the loop of process_slots: its states up to three boundaries on.         *)

(* t is s but for the fields that the weighing decides. *)
Frame(s, t) ==
  /\ has_state_fields(t)
  /\ t.slot = s.slot
  /\ t.validators = s.validators
  /\ KeepsParticipation(s, t)
  /\ t.block_roots = s.block_roots
  /\ t.latest_block_header = s.latest_block_header
  /\ t.execution_payload_availability = s.execution_payload_availability
  /\ t.latest_block_hash = s.latest_block_hash
  /\ t.latest_bid_block_hash = s.latest_bid_block_hash

(* A justification that finds its root sets the checkpoint and the bit.     *)
LEMMA JustifyExact ==
  ASSUME NEW s, NEW e, NEW p, has_state_fields(s)
  PROVE  LET root == get_block_root(s, e)
             t == justify(s, e, p).value
         IN  /\ justify(s, e, p).ok <=> root.ok
             /\ root.ok => /\ Frame(s, t)
                           /\ t.current_justified_checkpoint = [epoch |-> e, root |-> root.value]
<1> DEFINE root == get_block_root(s, e)
           bits == [s.justification_bits EXCEPT ![p] = TRUE]
           t == justify(s, e, p).value
<1>1. justify(s, e, p).ok <=> root.ok
  BY DEF justify, Then, Accept, Reject
<1>2. ASSUME root.ok
      PROVE  t = [s EXCEPT !.current_justified_checkpoint = [epoch |-> e, root |-> root.value],
                           !.justification_bits = bits]
  BY <1>2 DEF justify, Then, Accept, Reject
<1> HIDE DEF bits, t, root
<1>3. ASSUME root.ok
      PROVE  /\ Frame(s, t)
             /\ t.current_justified_checkpoint = [epoch |-> e, root |-> root.value]
  BY <1>2, <1>3 DEF has_state_fields, state_fields, Frame, KeepsParticipation
<1> QED BY <1>1, <1>3 DEF t, root

(* The roots a state still holds do not depend on what it has decided.      *)
LEMMA SameFrameRoots ==
  ASSUME NEW s, NEW t, Frame(s, t), NEW e
  PROVE  get_block_root(t, e) = get_block_root(s, e)
BY SameRoots DEF Frame, KeepsRoots

(* The weighing fails only where a checkpoint it justifies has no root, and *)
(* leaves the later one of those it justifies.                              *)
LEMMA WeighExact ==
  ASSUME NEW s, NEW total, NEW previous, NEW current, StateOK(s),
         get_current_epoch(s) \in Nat \ {0}
  PROVE  LET e == get_current_epoch(s)
             P == has_two_thirds(previous, total)
             C == has_two_thirds(current, total)
             r == weigh_justification_and_finalization(s, total, previous, current)
         IN  /\ r.ok <=> /\ P => get_block_root(s, e - 1).ok
                         /\ C => get_block_root(s, e).ok
             /\ r.ok =>
                  /\ Frame(s, r.value)
                  /\ r.value.current_justified_checkpoint =
                       IF C THEN [epoch |-> e, root |-> get_block_root(s, e).value]
                       ELSE IF P THEN [epoch |-> e - 1, root |-> get_block_root(s, e - 1).value]
                       ELSE s.current_justified_checkpoint
<1> DEFINE e == get_current_epoch(s)
           P == has_two_thirds(previous, total)
           C == has_two_thirds(current, total)
           shifted == shift_justification(s)
           first == IF P THEN justify(shifted, e - 1, 2) ELSE Accept(shifted)
           second == IF C THEN justify(first.value, e, 1) ELSE Accept(first.value)
           r == weigh_justification_and_finalization(s, total, previous, current)
           root(k) == get_block_root(s, k)
           ended(u) == [u EXCEPT !.finalized_checkpoint =
                          finalized_by(u.justification_bits, s.previous_justified_checkpoint,
                                       s.current_justified_checkpoint, @, e)]
<1>1. get_previous_epoch(s) = e - 1
  BY DEF get_previous_epoch
<1>2. Len(s.justification_bits) = 4
  BY DEF StateOK
<1>3. /\ r.ok <=> first.ok /\ second.ok
      /\ r.ok => r.value = ended(second.value)
  <2> HIDE DEF shifted, P, C
  <2> USE DEF Accept
  <2>1. CASE ~ first.ok
    <3>1. r = first
      BY <1>1, <1>2, <2>1 DEF weigh_justification_and_finalization, Then, shifted, P
    <3> QED BY <2>1, <3>1
  <2>2. CASE first.ok
    <3>1. r = Then(second, LAMBDA u : Accept(ended(u)))
      BY <1>1, <1>2, <2>2 DEF weigh_justification_and_finalization, Then, shifted, P, C
    <3> HIDE DEF second, r, ended
    <3> QED BY <2>2, <3>1 DEF Then
  <2> QED BY <2>1, <2>2
<1>4. Frame(s, shifted) /\ shifted.current_justified_checkpoint = s.current_justified_checkpoint
  BY DEF StateOK, shift_justification, has_state_fields, state_fields, Frame, KeepsParticipation
<1>5. /\ first.ok <=> (P => root(e - 1).ok)
      /\ first.ok =>
           /\ Frame(s, first.value)
           /\ first.value.current_justified_checkpoint =
                IF P THEN [epoch |-> e - 1, root |-> root(e - 1).value]
                ELSE s.current_justified_checkpoint
  <2> HIDE DEF shifted, P
  <2>1. has_state_fields(shifted) /\ get_block_root(shifted, e - 1) = root(e - 1)
    BY <1>4, SameFrameRoots DEF Frame
  <2> HIDE DEF e
  <2>2. CASE P
    <3>1. first = justify(shifted, e - 1, 2)
      BY <2>2
    <3>2. \A u : Frame(shifted, u) => Frame(s, u)
      BY <1>4 DEF Frame, KeepsParticipation
    <3> HIDE DEF first, root
    <3> QED BY <2>1, <2>2, <3>1, <3>2, JustifyExact
  <2>3. CASE ~P
    <3>1. first.ok /\ first.value = shifted
      BY <2>3 DEF Accept
    <3> QED BY <1>4, <2>3, <3>1
  <2> QED BY <2>2, <2>3
<1>6. first.ok =>
        /\ second.ok <=> (C => root(e).ok)
        /\ second.ok =>
             /\ Frame(s, second.value)
             /\ second.value.current_justified_checkpoint =
                  IF C THEN [epoch |-> e, root |-> root(e).value]
                  ELSE first.value.current_justified_checkpoint
  <2> SUFFICES ASSUME first.ok
               PROVE  /\ second.ok <=> (C => root(e).ok)
                      /\ second.ok =>
                           /\ Frame(s, second.value)
                           /\ second.value.current_justified_checkpoint =
                                IF C THEN [epoch |-> e, root |-> root(e).value]
                                ELSE first.value.current_justified_checkpoint
    OBVIOUS
  <2> HIDE DEF first, C
  <2>1. has_state_fields(first.value) /\ get_block_root(first.value, e) = root(e)
    BY <1>5, SameFrameRoots DEF Frame
  <2> HIDE DEF e
  <2>2. CASE C
    <3>1. second = justify(first.value, e, 1)
      BY <2>2
    <3>2. \A u : Frame(first.value, u) => Frame(s, u)
      BY <1>5 DEF Frame, KeepsParticipation
    <3> HIDE DEF second, root
    <3> QED BY <2>1, <2>2, <3>1, <3>2, JustifyExact
  <2>3. CASE ~C
    <3>1. second.ok /\ second.value = first.value
      BY <2>3 DEF Accept
    <3> QED BY <1>5, <2>3, <3>1
  <2> QED BY <2>2, <2>3
<1>7. ASSUME NEW u, Frame(s, u)
      PROVE  /\ Frame(s, ended(u))
             /\ ended(u).current_justified_checkpoint = u.current_justified_checkpoint
  BY <1>7 DEF Frame, KeepsParticipation, has_state_fields, state_fields
<1> HIDE DEF first, second, r, ended, P, C, e
<1>8. r.ok => /\ Frame(s, r.value)
              /\ r.value.current_justified_checkpoint = second.value.current_justified_checkpoint
  BY <1>3, <1>6, <1>7
<1>9. /\ r.ok <=> /\ P => root(e - 1).ok
                  /\ C => root(e).ok
      /\ r.ok =>
           /\ Frame(s, r.value)
           /\ r.value.current_justified_checkpoint =
                IF C THEN [epoch |-> e, root |-> root(e).value]
                ELSE IF P THEN [epoch |-> e - 1, root |-> root(e - 1).value]
                ELSE s.current_justified_checkpoint
  BY <1>3, <1>5, <1>6, <1>8
<1> QED BY <1>9 DEF r, P, C, e

-----------------------------------------------------------------------------
(* Epochs and the votes of an epoch.                                        *)
(* The slots of an epoch, and its votes.                                    *)
LEMMA EpochSpan ==
  ASSUME NEW a \in Nat
  PROVE  /\ epoch_at(a) \in Nat
         /\ epoch_at(a) * SLOTS_PER_EPOCH \in Nat
         /\ epoch_at(a) * SLOTS_PER_EPOCH <= a
         /\ a < epoch_at(a) * SLOTS_PER_EPOCH + SLOTS_PER_EPOCH
         /\ a % SLOTS_PER_EPOCH = a - epoch_at(a) * SLOTS_PER_EPOCH
<1>1. SLOTS_PER_EPOCH \in Nat \ {0}
  BY PresetAssumption
<1>2. /\ a = SLOTS_PER_EPOCH * (a \div SLOTS_PER_EPOCH) + (a % SLOTS_PER_EPOCH)
      /\ a % SLOTS_PER_EPOCH \in 0..SLOTS_PER_EPOCH-1
      /\ a \div SLOTS_PER_EPOCH \in Nat
  BY <1>1, SMTT(30)
<1> DEFINE q == a \div SLOTS_PER_EPOCH
           rest == a % SLOTS_PER_EPOCH
<1> HIDE DEF q, rest
<1>3. q \in Nat /\ rest \in 0..SLOTS_PER_EPOCH-1 /\ a = SLOTS_PER_EPOCH * q + rest
  BY <1>2 DEF q, rest
<1>4. q * SLOTS_PER_EPOCH \in Nat /\ SLOTS_PER_EPOCH * q = q * SLOTS_PER_EPOCH
  BY <1>1, <1>3
<1>5. /\ q * SLOTS_PER_EPOCH <= a
      /\ a < q * SLOTS_PER_EPOCH + SLOTS_PER_EPOCH
      /\ rest = a - q * SLOTS_PER_EPOCH
  BY <1>1, <1>3, <1>4
<1> QED BY <1>3, <1>4, <1>5 DEF epoch_at, q, rest

(* A slot lies in its epoch.                                                *)
LEMMA EpochOf ==
  ASSUME NEW a \in Nat, NEW e \in Nat, e * SLOTS_PER_EPOCH <= a,
         a < e * SLOTS_PER_EPOCH + SLOTS_PER_EPOCH
  PROVE  epoch_at(a) = e
<1>1. SLOTS_PER_EPOCH \in Nat \ {0}
  BY PresetAssumption
<1> DEFINE q == epoch_at(a)
           n == SLOTS_PER_EPOCH
<1>2. q \in Nat /\ q * n \in Nat /\ e * n \in Nat /\ q * n <= a /\ a < q * n + n
  BY <1>1, EpochSpan
<1> HIDE DEF q, n
<1>3. n \in Nat \ {0} /\ e * n <= a /\ a < e * n + n
  BY <1>1 DEF n
<1>4. q <= e - 1 => q * n + n <= e * n
  BY <1>2, <1>3
<1>5. e <= q - 1 => e * n + n <= q * n
  BY <1>2, <1>3
<1>6. q = e
  BY <1>2, <1>3, <1>4, <1>5
<1> QED BY <1>6 DEF q

(* A whole number of epochs later.                                          *)
LEMMA EpochsAdd ==
  ASSUME NEW e \in Nat, NEW k \in Nat
  PROVE  /\ e * SLOTS_PER_EPOCH \in Nat
         /\ k * SLOTS_PER_EPOCH \in Nat
         /\ (e + k) * SLOTS_PER_EPOCH = e * SLOTS_PER_EPOCH + k * SLOTS_PER_EPOCH
<1>1. SLOTS_PER_EPOCH \in Nat
  BY PresetAssumption
<1> QED BY <1>1

(* A later slot is in no earlier epoch.                                     *)
LEMMA EpochsOrdered ==
  ASSUME NEW a \in Nat, NEW b \in Nat, a <= b
  PROVE  epoch_at(a) <= epoch_at(b)
<1>1. SLOTS_PER_EPOCH \in Nat \ {0}
  BY PresetAssumption
<1> DEFINE n == SLOTS_PER_EPOCH
           p == epoch_at(a)
           q == epoch_at(b)
<1>2. /\ p \in Nat /\ q \in Nat /\ p * n \in Nat /\ q * n \in Nat
      /\ p * n <= a /\ b < q * n + n
  BY EpochSpan
<1> HIDE DEF p, q, n
<1>3. n \in Nat \ {0}
  BY <1>1 DEF n
<1>4. q <= p - 1 => q * n + n <= p * n
  BY <1>2, <1>3
<1>5. p <= q
  BY <1>2, <1>3, <1>4
<1> QED BY <1>5 DEF p, q

(* The horizon of the bundle: three boundaries past the last call.          *)
InReach(s) ==
  /\ s.slot \in Nat
  /\ s.slot <= LAST_SLOT + 3 * SLOTS_PER_EPOCH

(* Two thirds of the active balance have voted for the target of epoch k.   *)
Supported(s, k) ==
  has_two_thirds(get_total_balance(s, get_unslashed_participating_indices(s, k).value),
                 get_total_active_balance(s))

NoTargets(participation) ==
  \A i \in DOMAIN GENESIS.validators : TIMELY_TARGET \notin participation[i]

(* What every state of a run is: its lists have their lengths, no operation *)
(* has changed a validator, and in the first slot of an epoch nobody can    *)
(* have voted for its target.                                               *)
Sane(s) ==
  /\ IsWellFormed(s)
  /\ s.validators = GENESIS.validators
  /\ s.slot % SLOTS_PER_EPOCH = 0 => NoTargets(s.current_epoch_participation)

(* The registry of the scope covers the epochs within the horizon.          *)
LEMMA ReachesEpoch ==
  ASSUME NEW s, InReach(s)
  PROVE  /\ get_current_epoch(s) \in 0..epoch_at(LAST_SLOT)+4
         /\ s.slot + SLOTS_PER_HISTORICAL_ROOT <= UINT64_MAX
<1>1. SLOTS_PER_EPOCH \in Nat \ {0} /\ SLOTS_PER_HISTORICAL_ROOT \in Nat \ {0}
      /\ UINT64_MAX \in Nat /\ LAST_SLOT \in Nat
      /\ LAST_SLOT + 4 * SLOTS_PER_EPOCH + SLOTS_PER_HISTORICAL_ROOT <= UINT64_MAX
  BY PresetAssumption, RingAssumption, ScopeAssumption
<1> DEFINE last == epoch_at(LAST_SLOT)
           far == LAST_SLOT + 3 * SLOTS_PER_EPOCH
<1>2. far \in Nat /\ s.slot \in Nat /\ s.slot <= far
  BY <1>1 DEF InReach
<1>3. epoch_at(s.slot) <= epoch_at(far) /\ epoch_at(s.slot) \in Nat
  BY <1>2, EpochsOrdered, EpochSpan
<1>4. /\ last \in Nat
      /\ last * SLOTS_PER_EPOCH <= LAST_SLOT
      /\ LAST_SLOT < last * SLOTS_PER_EPOCH + SLOTS_PER_EPOCH
  BY <1>1, EpochSpan
<1>5. (last + 3) * SLOTS_PER_EPOCH = last * SLOTS_PER_EPOCH + 3 * SLOTS_PER_EPOCH
      /\ last * SLOTS_PER_EPOCH \in Nat
  BY <1>4, EpochsAdd
<1> HIDE DEF last
<1>6. epoch_at(far) = last + 3
  BY <1>1, <1>2, <1>4, <1>5, EpochOf
<1> HIDE DEF far
<1>7. s.slot + SLOTS_PER_HISTORICAL_ROOT <= UINT64_MAX
  BY <1>1, <1>2 DEF far
<1> QED BY <1>3, <1>4, <1>6, <1>7 DEF get_current_epoch, last

(* The registry is the same in every state, and so is its active balance.   *)
LEMMA FixedActivity ==
  ASSUME NEW s, InReach(s), s.validators = GENESIS.validators
  PROVE  /\ get_total_active_balance(s) = get_total_active_balance(GENESIS)
         /\ \A k, indices : /\ active_indices(s, k) = active_indices(GENESIS, k)
                            /\ get_total_balance(s, indices) = get_total_balance(GENESIS, indices)
<1>1. ASSUME NEW k, NEW indices
      PROVE  /\ active_indices(s, k) = active_indices(GENESIS, k)
             /\ get_total_balance(s, indices) = get_total_balance(GENESIS, indices)
  BY DEF active_indices, get_total_balance
<1> DEFINE e == get_current_epoch(s)
           g == get_current_epoch(GENESIS)
<1>2. e \in 0..epoch_at(LAST_SLOT)+4
  BY ReachesEpoch
<1>3. g \in 0..epoch_at(LAST_SLOT)+4
  <2>1. epoch_at(LAST_SLOT) \in Nat
    BY EpochSpan, ScopeAssumption
  <2>2. g \in Nat
    BY GenesisAssumption, EpochIsNat DEF get_current_epoch
  <2>3. g <= 1
    BY GenesisAssumption
  <2> HIDE DEF g
  <2> QED BY <2>1, <2>2, <2>3
<1>4. active_indices(GENESIS, e) = active_indices(GENESIS, g)
  BY <1>2, <1>3, ScopeAssumption
<1>5. get_total_active_balance(s) = get_total_active_balance(GENESIS)
  BY <1>1, <1>4 DEF get_total_active_balance
<1> QED BY <1>1, <1>5

(* The balance of nobody is one increment, short of two thirds of the total.*)
LEMMA NobodyBalances ==
  ASSUME NEW s
  PROVE  get_total_balance(s, {}) \in {0, EFFECTIVE_BALANCE_INCREMENT}
<1> DEFINE f(i) == s.validators[i].effective_balance
           body(iter) == [t \in SUBSET {} |->
                            IF t = {} THEN 0
                            ELSE LET x == CHOOSE x \in t : TRUE
                                 IN  f(x) + iter[t \ {x}]]
           sum == CHOOSE iter : iter = body(iter)
<1>1. \E iter : iter = body(iter)
  <2> DEFINE zero == [t \in SUBSET {} |-> 0]
  <2>1. \A t \in SUBSET {} : t = {}
    OBVIOUS
  <2>2. zero = body(zero)
    BY <2>1
  <2> HIDE DEF zero, body
  <2> QED BY <2>2
<1>2. sum = body(sum)
  <2> HIDE DEF body
  <2> QED BY <1>1
<1>3. {} \in SUBSET {}
  OBVIOUS
<1>4. sum[{}] = 0
  BY <1>2, <1>3
<1>5. sum_effective_balance(s.validators, {}) = sum[{}]
  BY DEF sum_effective_balance, MapThenSumSet, MapThenFoldSet
<1> HIDE DEF sum
<1> QED BY <1>4, <1>5, PresetAssumption DEF get_total_balance

(* No target votes, no supermajority.                                       *)
LEMMA NobodySupports ==
  ASSUME NEW s, InReach(s), s.validators = GENESIS.validators,
         NEW k, get_unslashed_participating_indices(s, k).value = {}
  PROVE  ~ Supported(s, k)
<1> DEFINE total == get_total_active_balance(s)
           none == get_total_balance(s, {})
<1>1. total \in Nat \ {0} /\ 2 * EFFECTIVE_BALANCE_INCREMENT <= total
  BY FixedActivity, ScopeAssumption
<1>2. none \in {0, EFFECTIVE_BALANCE_INCREMENT}
  BY NobodyBalances
<1>3. EFFECTIVE_BALANCE_INCREMENT \in Nat
  BY PresetAssumption
<1> HIDE DEF total, none
<1>4. ~ has_two_thirds(none, total)
  BY <1>1, <1>2, <1>3 DEF has_two_thirds
<1> QED BY <1>4 DEF Supported, total, none

(* The votes counted, in the terms of the registry of genesis.              *)
TwoThirdsOf(votes, k) ==
  LET indices == {i \in active_indices(GENESIS, k) :
                    TIMELY_TARGET \in votes[i] /\ ~GENESIS.validators[i].slashed}
  IN  has_two_thirds(get_total_balance(GENESIS, indices), get_total_active_balance(GENESIS))

(* Both reads of the participation succeed and count in genesis's registry. *)
LEMMA Counts ==
  ASSUME NEW s, Sane(s), InReach(s), NEW k
  PROVE  LET votes == IF k = get_current_epoch(s)
                      THEN s.current_epoch_participation ELSE s.previous_epoch_participation
         IN  /\ get_unslashed_participating_indices(s, k).ok
             /\ Supported(s, k) = TwoThirdsOf(votes, k)
             /\ NoTargets(votes) => ~ Supported(s, k)
<1> DEFINE votes == IF k = get_current_epoch(s)
                    THEN s.current_epoch_participation ELSE s.previous_epoch_participation
           indices == {i \in active_indices(GENESIS, k) :
                         TIMELY_TARGET \in votes[i] /\ ~GENESIS.validators[i].slashed}
<1>1. s.validators = GENESIS.validators /\ DOMAIN votes = DOMAIN s.validators
  BY DEF Sane, IsWellFormed
<1>2. active_indices(s, k) = active_indices(GENESIS, k)
  BY <1>1, FixedActivity
<1>3. get_unslashed_participating_indices(s, k) = Accept(indices)
  BY <1>1, <1>2 DEF get_unslashed_participating_indices
<1>4. /\ get_unslashed_participating_indices(s, k).ok
      /\ get_unslashed_participating_indices(s, k).value = indices
  BY <1>3 DEF Accept
<1>5. Supported(s, k) = TwoThirdsOf(votes, k)
  BY <1>1, <1>4, FixedActivity DEF Supported, TwoThirdsOf
<1>6. NoTargets(votes) => indices = {}
  BY DEF NoTargets, active_indices
<1>7. NoTargets(votes) => ~ Supported(s, k)
  BY <1>1, <1>4, <1>6, NobodySupports
<1> QED BY <1>4, <1>5, <1>7

-----------------------------------------------------------------------------
(* The checkpoint that the votes counted so far would justify.              *)
(* A root the ring still holds. *)
LEMMA RootAt ==
  ASSUME NEW s, s.slot \in Nat, DOMAIN s.block_roots = Ring, NEW e \in Nat,
         s.slot + SLOTS_PER_HISTORICAL_ROOT <= UINT64_MAX,
         e * SLOTS_PER_EPOCH < s.slot,
         s.slot <= e * SLOTS_PER_EPOCH + SLOTS_PER_HISTORICAL_ROOT
  PROVE  get_block_root(s, e)
           = Accept(s.block_roots[(e * SLOTS_PER_EPOCH) % SLOTS_PER_HISTORICAL_ROOT])
<1> DEFINE start == e * SLOTS_PER_EPOCH
<1>1. start \in Nat /\ SLOTS_PER_HISTORICAL_ROOT \in Nat /\ UINT64_MAX \in Nat
  BY EpochsAdd, PresetAssumption
<1>2. start < s.slot /\ s.slot <= start + SLOTS_PER_HISTORICAL_ROOT
  OBVIOUS
<1>3. get_block_root(s, e) = IF start <= UINT64_MAX THEN get_block_root_at_slot(s, start) ELSE Reject("root")
  BY DEF get_block_root
<1> HIDE DEF start
<1>4. start <= UINT64_MAX /\ start + SLOTS_PER_HISTORICAL_ROOT <= UINT64_MAX
  BY <1>1, <1>2
<1>5. get_block_root(s, e) = Accept(s.block_roots[start % SLOTS_PER_HISTORICAL_ROOT])
  BY <1>1, <1>2, <1>3, <1>4 DEF get_block_root_at_slot
<1> QED BY <1>5 DEF start

(* The checkpoint that the votes counted so far would justify.              *)
Pulled(s) ==
  LET e == get_current_epoch(s)
      root(k) == s.block_roots[(k * SLOTS_PER_EPOCH) % SLOTS_PER_HISTORICAL_ROOT]
  IN  IF e <= 1 THEN s.current_justified_checkpoint
      ELSE IF Supported(s, e) THEN [epoch |-> e, root |-> root(e)]
      ELSE IF Supported(s, e - 1) THEN [epoch |-> e - 1, root |-> root(e - 1)]
      ELSE s.current_justified_checkpoint

(* In the first slot of an epoch no supermajority of it has voted.          *)
LEMMA SupportedHasBegun ==
  ASSUME NEW s, Sane(s), InReach(s), Supported(s, get_current_epoch(s))
  PROVE  get_current_epoch(s) * SLOTS_PER_EPOCH < s.slot
<1> DEFINE e == get_current_epoch(s)
<1>1. /\ e * SLOTS_PER_EPOCH \in Nat /\ e * SLOTS_PER_EPOCH <= s.slot
      /\ s.slot % SLOTS_PER_EPOCH = s.slot - e * SLOTS_PER_EPOCH
      /\ s.slot \in Nat
  BY EpochSpan DEF get_current_epoch, InReach
<1>2. ~ NoTargets(s.current_epoch_participation)
  BY Counts
<1>3. s.slot % SLOTS_PER_EPOCH # 0
  BY <1>2 DEF Sane
<1> HIDE DEF e
<1>4. e * SLOTS_PER_EPOCH < s.slot
  BY <1>1, <1>3
<1> QED BY <1>4 DEF e

(* What the pulled-up state justifies.                                      *)
LEMMA PullExact ==
  ASSUME NEW s, StateOK(s), Sane(s), InReach(s)
  PROVE  LET r == ffg_process_justification_and_finalization(s)
         IN  r.ok /\ Frame(s, r.value) /\ r.value.current_justified_checkpoint = Pulled(s)
<1> DEFINE e == get_current_epoch(s)
           r == ffg_process_justification_and_finalization(s)
           root(k) == s.block_roots[(k * SLOTS_PER_EPOCH) % SLOTS_PER_HISTORICAL_ROOT]
<1>1. CASE e <= 1
  BY <1>1 DEF ffg_process_justification_and_finalization, Accept, StateOK, Frame,
              KeepsParticipation, Pulled
<1>2. CASE ~ (e <= 1)
  <2> DEFINE total == get_total_active_balance(s)
             indices(k) == get_unslashed_participating_indices(s, k)
             previous == get_total_balance(s, indices(e - 1).value)
             current == get_total_balance(s, indices(e).value)
  <2>1. e \in Nat
    BY EpochIsNat DEF get_current_epoch, StateOK
  <2>2. get_previous_epoch(s) = e - 1
    BY <1>2, <2>1 DEF get_previous_epoch
  <2>3. indices(e - 1).ok /\ indices(e).ok
    <3>1. ASSUME NEW k PROVE indices(k).ok
      BY Counts
    <3> QED BY <3>1
  <2>4. r = weigh_justification_and_finalization(s, total, previous, current)
    <3> HIDE DEF e, indices, total
    <3>1. /\ e = get_current_epoch(s)
          /\ \A k : indices(k) = get_unslashed_participating_indices(s, k)
          /\ total = get_total_active_balance(s)
      BY DEF e, indices, total
    <3> QED BY <1>2, <2>2, <2>3, <3>1 DEF ffg_process_justification_and_finalization, Then
  <2>5. /\ Supported(s, e) = has_two_thirds(current, total)
        /\ Supported(s, e - 1) = has_two_thirds(previous, total)
    BY DEF Supported
  <2>6. /\ e * SLOTS_PER_EPOCH \in Nat
        /\ e * SLOTS_PER_EPOCH <= s.slot
        /\ s.slot < e * SLOTS_PER_EPOCH + SLOTS_PER_EPOCH
        /\ (e - 1) * SLOTS_PER_EPOCH \in Nat
        /\ e * SLOTS_PER_EPOCH = (e - 1) * SLOTS_PER_EPOCH + SLOTS_PER_EPOCH
    <3>1. /\ e * SLOTS_PER_EPOCH \in Nat
          /\ e * SLOTS_PER_EPOCH <= s.slot
          /\ s.slot < e * SLOTS_PER_EPOCH + SLOTS_PER_EPOCH
      BY EpochSpan DEF get_current_epoch, InReach
    <3> HIDE DEF e
    <3>2. e - 1 \in Nat /\ (e - 1) + 1 = e
      BY <1>2, <2>1
    <3>3. 1 * SLOTS_PER_EPOCH = SLOTS_PER_EPOCH
      BY PresetAssumption
    <3>4. ((e - 1) + 1) * SLOTS_PER_EPOCH = (e - 1) * SLOTS_PER_EPOCH + 1 * SLOTS_PER_EPOCH
          /\ (e - 1) * SLOTS_PER_EPOCH \in Nat
      BY <3>2, EpochsAdd
    <3> QED BY <3>1, <3>2, <3>3, <3>4
  <2>7. DOMAIN s.block_roots = Ring /\ s.slot + SLOTS_PER_HISTORICAL_ROOT <= UINT64_MAX
        /\ s.slot \in Nat
    BY ReachesEpoch DEF Sane, IsWellFormed, InReach
  <2>8. get_block_root(s, e - 1) = Accept(root(e - 1))
    <3>0. e - 1 \in Nat
      BY <1>2, <2>1
    <3> HIDE DEF e
    <3>1. /\ (e - 1) * SLOTS_PER_EPOCH < s.slot
          /\ s.slot <= (e - 1) * SLOTS_PER_EPOCH + SLOTS_PER_HISTORICAL_ROOT
      BY <2>6, <2>7, RingAssumption, PresetAssumption
    <3> QED BY <2>7, <3>0, <3>1, RootAt
  <2>9. Supported(s, e) => get_block_root(s, e) = Accept(root(e))
    <3>1. Supported(s, e) => e * SLOTS_PER_EPOCH < s.slot
      BY SupportedHasBegun
    <3> HIDE DEF e
    <3>2. s.slot <= e * SLOTS_PER_EPOCH + SLOTS_PER_HISTORICAL_ROOT
      BY <2>6, <2>7, RingAssumption, PresetAssumption
    <3> QED BY <2>1, <2>7, <3>1, <3>2, RootAt
  <2> DEFINE P == has_two_thirds(previous, total)
             C == has_two_thirds(current, total)
  <2>10. /\ r.ok <=> /\ P => get_block_root(s, e - 1).ok
                     /\ C => get_block_root(s, e).ok
         /\ r.ok =>
              /\ Frame(s, r.value)
              /\ r.value.current_justified_checkpoint =
                   IF C THEN [epoch |-> e, root |-> get_block_root(s, e).value]
                   ELSE IF P THEN [epoch |-> e - 1, root |-> get_block_root(s, e - 1).value]
                   ELSE s.current_justified_checkpoint
    <3>1. e \in Nat \ {0}
      BY <1>2, <2>1
    <3> HIDE DEF previous, current, total
    <3> QED BY <2>4, <3>1, WeighExact
  <2> HIDE DEF P, C, r, root
  <2>11. /\ get_block_root(s, e - 1).ok /\ get_block_root(s, e - 1).value = root(e - 1)
         /\ Supported(s, e) => get_block_root(s, e).ok /\ get_block_root(s, e).value = root(e)
    BY <2>8, <2>9 DEF Accept
  <2>12. Supported(s, e) = C /\ Supported(s, e - 1) = P
    BY <2>5 DEF P, C
  <2>13. r.ok /\ Frame(s, r.value)
    BY <2>10, <2>11, <2>12
  <2>14. r.value.current_justified_checkpoint =
           IF Supported(s, e) THEN [epoch |-> e, root |-> root(e)]
           ELSE IF Supported(s, e - 1) THEN [epoch |-> e - 1, root |-> root(e - 1)]
           ELSE s.current_justified_checkpoint
    BY <2>10, <2>11, <2>12, <2>13
  <2>15. r.value.current_justified_checkpoint = Pulled(s)
    BY <1>2, <2>14 DEF Pulled, root
  <2> QED BY <2>13, <2>15 DEF r
<1> QED BY <1>1, <1>2

-----------------------------------------------------------------------------
(* One slot more. *)
LEMMA ProcessSlotExact ==
  ASSUME NEW s, StateOK(s), Sane(s)
  PROVE  LET u == process_slot(s).value
         IN  /\ process_slot(s).ok
             /\ StateOK(u) /\ Sane(u)
             /\ u.slot = s.slot
             /\ u.validators = s.validators
             /\ KeepsParticipation(s, u)
             /\ u.current_justified_checkpoint = s.current_justified_checkpoint
             /\ u.block_roots = [s.block_roots EXCEPT
                  ![s.slot % SLOTS_PER_HISTORICAL_ROOT] = s.latest_block_header.root]
<1> DEFINE u == process_slot(s).value
<1>1. process_slot(s).ok
  BY DEF process_slot, Accept, Sane, IsWellFormed
<1>2. Keeps(s, u) /\ KeepsParticipation(s, u)
  BY <1>1, ProcessSlotKeeps DEF StateOK
<1>3. /\ DOMAIN u.execution_payload_availability = DOMAIN s.execution_payload_availability
      /\ u.block_roots = [s.block_roots EXCEPT
           ![s.slot % SLOTS_PER_HISTORICAL_ROOT] = s.latest_block_header.root]
      /\ DOMAIN u.block_roots = DOMAIN s.block_roots
  BY <1>1 DEF process_slot, Accept, Reject, StateOK, has_state_fields, state_fields
<1> HIDE DEF u
<1>4. StateOK(u)
  BY <1>2 DEF StateOK, Keeps, Decided
<1>5. Sane(u)
  BY <1>2, <1>3 DEF Sane, IsWellFormed, Keeps, KeepsParticipation, Decided
<1> QED BY <1>1, <1>2, <1>3, <1>4, <1>5 DEF u, Keeps, Decided

(* One iteration of process_slots, with the boundary if it ends an epoch.   *)
LEMMA AdvanceExact ==
  ASSUME NEW s, NEW epochs, NEW pairs, Sound(s, epochs, pairs), Sane(s), InReach(s)
  PROVE  LET u == process_slot(s).value
             r == advance_slot(s).value
         IN  /\ advance_slot(s).ok
             /\ Sound(r, epochs \cup {link[2] : link \in new_links(s)}, pairs \cup new_links(s))
             /\ Sane(r)
             /\ r.slot = s.slot + 1
             /\ r.block_roots = u.block_roots
             /\ IF (s.slot + 1) % SLOTS_PER_EPOCH = 0
                THEN /\ r.previous_epoch_participation = s.current_epoch_participation
                     /\ NoTargets(r.current_epoch_participation)
                     /\ r.current_justified_checkpoint = Pulled(u)
                ELSE /\ KeepsParticipation(s, r)
                     /\ r.current_justified_checkpoint = s.current_justified_checkpoint
<1> DEFINE u == process_slot(s).value
           r == advance_slot(s).value
           pulled == ffg_process_justification_and_finalization(u)
<1>1. /\ process_slot(s).ok
      /\ StateOK(u) /\ Sane(u)
      /\ u.slot = s.slot
      /\ u.validators = s.validators
      /\ KeepsParticipation(s, u)
      /\ u.current_justified_checkpoint = s.current_justified_checkpoint
  BY ProcessSlotExact DEF Sound
<1>2. InReach(u)
  BY <1>1 DEF InReach
<1>3. pulled.ok /\ Frame(u, pulled.value) /\ pulled.value.current_justified_checkpoint = Pulled(u)
  BY <1>1, <1>2, PullExact
<1>4. s.validators = GENESIS.validators
  BY DEF Sane
<1>5. CASE (s.slot + 1) % SLOTS_PER_EPOCH = 0
  <2> DEFINE v == pulled.value
             w == process_participation_flag_updates(v)
  <2>1. advance_slot(s).ok /\ r = [w EXCEPT !.slot = @ + 1]
    <3>1. process_slot(s).ok /\ process_slot(s).value = u
      BY <1>1
    <3>2. process_epoch(u) = Accept(w)
      <4>1. pulled.ok /\ pulled.value = v
        BY <1>3
      <4> HIDE DEF pulled, v
      <4> QED BY <4>1 DEF process_epoch, Then, w, pulled
    <3> HIDE DEF u, w
    <3>3. (u.slot + 1) % SLOTS_PER_EPOCH = 0
      BY <1>1, <1>5
    <3>4. advance_slot(s) = Accept([w EXCEPT !.slot = @ + 1])
      BY <3>1, <3>2, <3>3 DEF advance_slot, Then, Accept
    <3> QED BY <3>4 DEF Accept
  <2>2. Frame(u, v)
    BY <1>3
  <2> HIDE DEF v, r, u
  <2>3. /\ r.slot = v.slot + 1
        /\ r.validators = v.validators
        /\ r.block_roots = v.block_roots
        /\ r.execution_payload_availability = v.execution_payload_availability
        /\ r.previous_epoch_participation = v.current_epoch_participation
        /\ r.current_epoch_participation = [i \in DOMAIN v.validators |-> {}]
        /\ r.current_justified_checkpoint = v.current_justified_checkpoint
    BY <2>1, <2>2 DEF Frame, process_participation_flag_updates, has_state_fields, state_fields
  <2>4. NoTargets(r.current_epoch_participation)
    BY <1>1, <1>4, <2>2, <2>3 DEF Frame, NoTargets
  <2>5. Sound(r, epochs \cup {link[2] : link \in new_links(s)}, pairs \cup new_links(s))
    BY <2>1, AdvanceSound DEF r
  <2>6. Sane(r)
    <3>1. Len(r.justification_bits) = 4
      BY <2>5 DEF Sound, StateOK
    <3>2. /\ r.validators = GENESIS.validators
          /\ DOMAIN r.previous_epoch_participation = DOMAIN r.validators
          /\ DOMAIN r.current_epoch_participation = DOMAIN r.validators
          /\ DOMAIN r.block_roots = Ring
          /\ DOMAIN r.execution_payload_availability = Ring
      BY <1>1, <1>4, <2>2, <2>3 DEF Frame, KeepsParticipation, Sane, IsWellFormed
    <3> QED BY <2>4, <3>1, <3>2 DEF Sane, IsWellFormed
  <2>7. r.current_justified_checkpoint = Pulled(u)
    BY <1>3, <2>3 DEF v, u
  <2> QED BY <1>1, <1>5, <2>1, <2>2, <2>3, <2>4, <2>5, <2>6, <2>7
          DEF Frame, KeepsParticipation, u, r
<1>6. CASE (s.slot + 1) % SLOTS_PER_EPOCH # 0
  <2>1. advance_slot(s).ok /\ r = [u EXCEPT !.slot = @ + 1]
    <3>1. process_slot(s).ok /\ process_slot(s).value = u
      BY <1>1
    <3> HIDE DEF u
    <3>2. (u.slot + 1) % SLOTS_PER_EPOCH # 0
      BY <1>1, <1>6
    <3>3. advance_slot(s) = Accept([u EXCEPT !.slot = @ + 1])
      BY <3>1, <3>2 DEF advance_slot, Then, Accept
    <3> QED BY <3>3 DEF Accept
  <2> HIDE DEF r, u
  <2>2. /\ r.slot = u.slot + 1
        /\ r.validators = u.validators
        /\ r.block_roots = u.block_roots
        /\ r.execution_payload_availability = u.execution_payload_availability
        /\ KeepsParticipation(u, r)
        /\ r.current_justified_checkpoint = u.current_justified_checkpoint
    BY <1>1, <2>1 DEF StateOK, KeepsParticipation, has_state_fields, state_fields
  <2>3. Sound(r, epochs \cup {link[2] : link \in new_links(s)}, pairs \cup new_links(s))
    BY <2>1, AdvanceSound DEF r
  <2>4. Sane(r)
    <3>1. Len(r.justification_bits) = 4
      BY <2>3 DEF Sound, StateOK
    <3>2. r.slot % SLOTS_PER_EPOCH # 0
      BY <1>1, <1>6, <2>2
    <3> QED BY <1>1, <1>4, <2>2, <3>1, <3>2 DEF KeepsParticipation, Sane, IsWellFormed
  <2> QED BY <1>1, <1>6, <2>1, <2>2, <2>3, <2>4 DEF KeepsParticipation, u, r
<1> QED BY <1>5, <1>6

-----------------------------------------------------------------------------
(* Boundary after boundary with no block between them.                      *)
(* The state v that the slots reach from s.  In the epoch of s the votes    *)
(* and the checkpoint stay; the first boundary justifies what was pulled    *)
(* up; the second can only justify the same epoch again, with the same      *)
(* root, as its votes have not changed; then no vote is left.               *)
Stage(s, v) ==
  LET past == get_current_epoch(v) - get_current_epoch(s)
  IN  /\ \E epochs, pairs : Sound(v, epochs, pairs)
      /\ Sane(v)
      /\ v.slot \in Nat /\ v.slot >= s.slot
      /\ \A n \in Nat : n < s.slot /\ v.slot <= n + SLOTS_PER_HISTORICAL_ROOT =>
           v.block_roots[n % SLOTS_PER_HISTORICAL_ROOT]
             = s.block_roots[n % SLOTS_PER_HISTORICAL_ROOT]
      /\ past = 0 => /\ KeepsParticipation(s, v)
                     /\ v.current_justified_checkpoint = s.current_justified_checkpoint
      /\ past = 1 => /\ v.previous_epoch_participation = s.current_epoch_participation
                     /\ NoTargets(v.current_epoch_participation)
                     /\ v.current_justified_checkpoint = Pulled(s)
      /\ past >= 2 => /\ NoTargets(v.previous_epoch_participation)
                      /\ NoTargets(v.current_epoch_participation)
                      /\ get_current_epoch(s) >= 2 => v.current_justified_checkpoint = Pulled(s)
                      /\ get_current_epoch(s) = 1 /\ Supported(s, 1) =>
                           v.current_justified_checkpoint.epoch = 1

(* The states the bundle looks at. *)
Resting(s) ==
  /\ \E epochs, pairs : Sound(s, epochs, pairs)
  /\ Sane(s)
  /\ s.slot \in Nat /\ s.slot <= LAST_SLOT

(* The run's states are within the horizon.                                 *)
LEMMA RestingInReach == ASSUME NEW s, Resting(s) PROVE InReach(s)
<1>1. SLOTS_PER_EPOCH \in Nat /\ LAST_SLOT \in Nat
  BY PresetAssumption, ScopeAssumption
<1> QED BY <1>1 DEF Resting, InReach

(* No boundary has passed yet.                                              *)
LEMMA StageStarts == ASSUME NEW s, Resting(s) PROVE Stage(s, s)
<1>1. get_current_epoch(s) \in Nat
  BY EpochIsNat DEF Resting, get_current_epoch
<1> QED BY <1>1 DEF Resting, Stage, KeepsParticipation

(* Where epoch e began, seen from the end of epoch e or of the next one.    *)
LEMMA EpochsBack ==
  ASSUME NEW a \in Nat, (a + 1) % SLOTS_PER_EPOCH = 0, NEW k \in {0, 1}, epoch_at(a) >= k
  PROVE  /\ epoch_at(a) - k \in Nat
         /\ (epoch_at(a) - k) * SLOTS_PER_EPOCH \in Nat
         /\ a + 1 <= (epoch_at(a) - k) * SLOTS_PER_EPOCH + SLOTS_PER_HISTORICAL_ROOT
<1> DEFINE e == epoch_at(a)
           n == SLOTS_PER_EPOCH
<1>1. e \in Nat /\ e * n \in Nat /\ e * n <= a /\ a < e * n + n
  BY EpochSpan
<1>2. n \in Nat \ {0} /\ 2 * n <= SLOTS_PER_HISTORICAL_ROOT /\ SLOTS_PER_HISTORICAL_ROOT \in Nat
      /\ k * n \in Nat /\ k * n <= n
  BY PresetAssumption, RingAssumption
<1> HIDE DEF e, n
<1>3. e - k \in Nat /\ k \in Nat /\ (e - k) + k = e
  BY <1>1 DEF e
<1>4. ((e - k) + k) * n = (e - k) * n + k * n /\ (e - k) * n \in Nat
  BY <1>3, EpochsAdd DEF n
<1>5. a + 1 <= (e - k) * n + SLOTS_PER_HISTORICAL_ROOT
  BY <1>1, <1>2, <1>3, <1>4
<1> QED BY <1>3, <1>4, <1>5 DEF e, n

(* At the first boundary. *)
LEMMA FirstBoundary ==
  ASSUME NEW s, Resting(s), NEW u, Sane(u), InReach(u), u.slot >= s.slot,
         (u.slot + 1) % SLOTS_PER_EPOCH = 0,
         get_current_epoch(u) = get_current_epoch(s),
         KeepsParticipation(s, u),
         u.current_justified_checkpoint = s.current_justified_checkpoint,
         \A n \in Nat : n < s.slot /\ u.slot + 1 <= n + SLOTS_PER_HISTORICAL_ROOT =>
           u.block_roots[n % SLOTS_PER_HISTORICAL_ROOT]
             = s.block_roots[n % SLOTS_PER_HISTORICAL_ROOT]
  PROVE  Pulled(u) = Pulled(s)
<1> DEFINE e == get_current_epoch(s)
           start(k) == k * SLOTS_PER_EPOCH
           root(v, k) == v.block_roots[start(k) % SLOTS_PER_HISTORICAL_ROOT]
<1>1. Sane(s) /\ InReach(s) /\ s.slot \in Nat /\ u.slot \in Nat
  BY RestingInReach DEF Resting, InReach
<1>2. e = epoch_at(s.slot) /\ e = epoch_at(u.slot) /\ e \in Nat
  BY <1>1, EpochIsNat DEF get_current_epoch
<1>3. ASSUME NEW k PROVE Supported(u, k) = Supported(s, k)
  BY <1>1, Counts DEF KeepsParticipation
<1>4. Supported(s, e) => root(u, e) = root(s, e)
  <2>1. Supported(s, e) => start(e) < s.slot
    BY <1>1, SupportedHasBegun
  <2>2. start(e) \in Nat /\ u.slot + 1 <= start(e) + SLOTS_PER_HISTORICAL_ROOT
    <3>1. e - 0 = e
      BY <1>2
    <3> QED BY <1>1, <1>2, <3>1, EpochsBack
  <2> HIDE DEF start, e
  <2> QED BY <2>1, <2>2
<1>5. e >= 2 => root(u, e - 1) = root(s, e - 1)
  <2> SUFFICES ASSUME e >= 2 PROVE root(u, e - 1) = root(s, e - 1)
    OBVIOUS
  <2>1. start(e - 1) \in Nat /\ u.slot + 1 <= start(e - 1) + SLOTS_PER_HISTORICAL_ROOT
        /\ e - 1 \in Nat
    BY <1>1, <1>2, EpochsBack
  <2>2. start(e) <= s.slot
    BY <1>1, <1>2, EpochSpan
  <2>3. start(e) = start(e - 1) + SLOTS_PER_EPOCH
    <3> HIDE DEF e
    <3>1. e - 1 \in Nat /\ (e - 1) + 1 = e
      BY <1>2, <2>1
    <3>2. ((e - 1) + 1) * SLOTS_PER_EPOCH = (e - 1) * SLOTS_PER_EPOCH + 1 * SLOTS_PER_EPOCH
      BY <3>1, EpochsAdd
    <3> QED BY <3>1, <3>2, PresetAssumption
  <2> HIDE DEF start, e
  <2>4. start(e - 1) < s.slot
    BY <1>1, <2>1, <2>2, <2>3, PresetAssumption
  <2> QED BY <2>1, <2>4
<1> HIDE DEF start
<1>6. Pulled(s) = IF e <= 1 THEN s.current_justified_checkpoint
                  ELSE IF Supported(s, e) THEN [epoch |-> e, root |-> root(s, e)]
                  ELSE IF Supported(s, e - 1) THEN [epoch |-> e - 1, root |-> root(s, e - 1)]
                  ELSE s.current_justified_checkpoint
  BY DEF Pulled, start
<1>7. Pulled(u) = IF e <= 1 THEN u.current_justified_checkpoint
                  ELSE IF Supported(u, e) THEN [epoch |-> e, root |-> root(u, e)]
                  ELSE IF Supported(u, e - 1) THEN [epoch |-> e - 1, root |-> root(u, e - 1)]
                  ELSE u.current_justified_checkpoint
  BY DEF Pulled, start
<1> HIDE DEF e, root
<1>8. ~ (e <= 1) => e >= 2
  BY <1>2
<1> QED BY <1>3, <1>4, <1>5, <1>6, <1>7, <1>8

(* At the second one.  u still has the votes of the epoch of s. *)
LEMMA SecondBoundary ==
  ASSUME NEW s, Resting(s), NEW u, Sane(u), InReach(u), u.slot >= s.slot,
         (u.slot + 1) % SLOTS_PER_EPOCH = 0,
         get_current_epoch(u) = get_current_epoch(s) + 1,
         get_current_epoch(s) >= 1,
         u.previous_epoch_participation = s.current_epoch_participation,
         NoTargets(u.current_epoch_participation),
         u.current_justified_checkpoint = Pulled(s),
         \A n \in Nat : n < s.slot /\ u.slot + 1 <= n + SLOTS_PER_HISTORICAL_ROOT =>
           u.block_roots[n % SLOTS_PER_HISTORICAL_ROOT]
             = s.block_roots[n % SLOTS_PER_HISTORICAL_ROOT]
  PROVE  /\ get_current_epoch(s) >= 2 => Pulled(u) = Pulled(s)
         /\ get_current_epoch(s) = 1 /\ Supported(s, 1) => Pulled(u).epoch = 1
<1> DEFINE e == get_current_epoch(s)
           start(k) == k * SLOTS_PER_EPOCH
           root(v, k) == v.block_roots[start(k) % SLOTS_PER_HISTORICAL_ROOT]
<1>1. Sane(s) /\ InReach(s) /\ s.slot \in Nat /\ u.slot \in Nat
  BY RestingInReach DEF Resting, InReach
<1>2. e = epoch_at(s.slot) /\ e + 1 = epoch_at(u.slot) /\ e \in Nat /\ e >= 1
  BY <1>1, EpochIsNat DEF get_current_epoch
<1>3. ~ Supported(u, e + 1)
  BY Counts
<1>4. Supported(u, e) = Supported(s, e)
  <2>1. e # get_current_epoch(u)
    BY <1>2
  <2> QED BY <1>1, <2>1, Counts
<1>5. Supported(s, e) => root(u, e) = root(s, e)
  <2>1. Supported(s, e) => start(e) < s.slot
    BY <1>1, SupportedHasBegun
  <2>2. start(e) \in Nat /\ u.slot + 1 <= start(e) + SLOTS_PER_HISTORICAL_ROOT
    <3>1. epoch_at(u.slot) - 1 = e
      BY <1>2
    <3> QED BY <1>1, <1>2, <3>1, EpochsBack
  <2> HIDE DEF start, e
  <2> QED BY <2>1, <2>2
<1> HIDE DEF start
<1>6. e >= 2 => Pulled(s) = IF Supported(s, e) THEN [epoch |-> e, root |-> root(s, e)]
                            ELSE IF Supported(s, e - 1) THEN [epoch |-> e - 1, root |-> root(s, e - 1)]
                            ELSE s.current_justified_checkpoint
  BY <1>2 DEF Pulled, start
<1>7. Pulled(u) = IF Supported(u, e) THEN [epoch |-> e, root |-> root(u, e)]
                  ELSE u.current_justified_checkpoint
  <2>1. get_current_epoch(u) = e + 1 /\ ~ (e + 1 <= 1) /\ (e + 1) - 1 = e
    BY <1>2
  <2> QED BY <1>3, <2>1 DEF Pulled, start
<1> HIDE DEF e, root
<1>8. e >= 2 => Pulled(u) = Pulled(s)
  BY <1>4, <1>5, <1>6, <1>7
<1>9. e = 1 /\ Supported(s, 1) => Pulled(u).epoch = 1
  BY <1>4, <1>7
<1> QED BY <1>8, <1>9 DEF e

(* At the later ones. *)
LEMMA LaterBoundary ==
  ASSUME NEW u, Sane(u), InReach(u), get_current_epoch(u) >= 2,
         NoTargets(u.previous_epoch_participation), NoTargets(u.current_epoch_participation)
  PROVE  Pulled(u) = u.current_justified_checkpoint
<1>1. get_current_epoch(u) \in Nat
  BY EpochIsNat DEF get_current_epoch, InReach
<1>2. ASSUME NEW k PROVE ~ Supported(u, k)
  BY Counts
<1> QED BY <1>1, <1>2 DEF Pulled

(* One slot more keeps the stage of the boundaries.                         *)
LEMMA StageStep ==
  ASSUME NEW s, NEW v, Resting(s), Stage(s, v), InReach(v)
  PROVE  /\ advance_slot(v).ok
         /\ advance_slot(v).value.slot = v.slot + 1
         /\ Stage(s, advance_slot(v).value)
<1> DEFINE u == process_slot(v).value
           r == advance_slot(v).value
           e == get_current_epoch(v)
           first == get_current_epoch(s)
           ring(w, n) == w.block_roots[n % SLOTS_PER_HISTORICAL_ROOT]
<1>1. PICK epochs, pairs : Sound(v, epochs, pairs)
  BY DEF Stage
<1>2. Sane(v) /\ v.slot \in Nat /\ s.slot \in Nat /\ v.slot >= s.slot
  BY DEF Stage, Resting
<1>3. /\ advance_slot(v).ok
      /\ Sound(r, epochs \cup {link[2] : link \in new_links(v)}, pairs \cup new_links(v))
      /\ Sane(r)
      /\ r.slot = v.slot + 1
      /\ r.block_roots = u.block_roots
      /\ IF (v.slot + 1) % SLOTS_PER_EPOCH = 0
         THEN /\ r.previous_epoch_participation = v.current_epoch_participation
              /\ NoTargets(r.current_epoch_participation)
              /\ r.current_justified_checkpoint = Pulled(u)
         ELSE /\ KeepsParticipation(v, r)
              /\ r.current_justified_checkpoint = v.current_justified_checkpoint
  BY <1>1, <1>2, AdvanceExact
<1>4. /\ StateOK(v) /\ StateOK(u) /\ Sane(u)
      /\ u.slot = v.slot
      /\ KeepsParticipation(v, u)
      /\ u.current_justified_checkpoint = v.current_justified_checkpoint
      /\ u.block_roots = [v.block_roots EXCEPT
           ![v.slot % SLOTS_PER_HISTORICAL_ROOT] = v.latest_block_header.root]
  BY <1>1, <1>2, ProcessSlotExact DEF Sound
<1>5. InReach(u)
  BY <1>4 DEF InReach
<1>6. /\ e \in Nat /\ first \in Nat /\ e >= first
      /\ get_current_epoch(u) = e
      /\ IF (v.slot + 1) % SLOTS_PER_EPOCH = 0
         THEN get_current_epoch(r) = e + 1 ELSE get_current_epoch(r) = e
  BY <1>2, <1>3, <1>4, EpochIsNat, EpochsOrdered, EpochStep DEF get_current_epoch
<1> HIDE DEF u, r
<1>7. ASSUME NEW n \in Nat, n < s.slot, v.slot + 1 <= n + SLOTS_PER_HISTORICAL_ROOT
      PROVE  ring(u, n) = ring(s, n)
  <2>1. SLOTS_PER_HISTORICAL_ROOT \in Nat \ {0}
    BY PresetAssumption
  <2>2. n < v.slot /\ v.slot < n + SLOTS_PER_HISTORICAL_ROOT
        /\ v.slot <= n + SLOTS_PER_HISTORICAL_ROOT
    BY <1>2, <1>7, <2>1
  <2>3. n % SLOTS_PER_HISTORICAL_ROOT # v.slot % SLOTS_PER_HISTORICAL_ROOT
    BY <1>2, <2>1, <2>2, RingPositionsDiffer
  <2>4. n % SLOTS_PER_HISTORICAL_ROOT \in DOMAIN v.block_roots
    <3>1. n % SLOTS_PER_HISTORICAL_ROOT \in 0..SLOTS_PER_HISTORICAL_ROOT-1
      BY <2>1
    <3> QED BY <1>2, <3>1 DEF Sane, IsWellFormed, Ring
  <2>5. ring(u, n) = ring(v, n)
    BY <1>4, <2>3, <2>4
  <2>6. ring(v, n) = ring(s, n)
    BY <1>7, <2>2 DEF Stage
  <2> QED BY <2>5, <2>6
<1>8. \A n \in Nat : n < s.slot /\ r.slot <= n + SLOTS_PER_HISTORICAL_ROOT =>
        ring(r, n) = ring(s, n)
  BY <1>3, <1>7
<1>9. r.slot \in Nat /\ r.slot >= s.slot
  BY <1>2, <1>3
<1>10. \E more_epochs, more_pairs : Sound(r, more_epochs, more_pairs)
  BY <1>3
<1>11. ASSUME (v.slot + 1) % SLOTS_PER_EPOCH # 0 PROVE Stage(s, r)
  <2>1. get_current_epoch(r) = e
    BY <1>6, <1>11
  <2>2. KeepsParticipation(v, r)
        /\ r.current_justified_checkpoint = v.current_justified_checkpoint
    BY <1>3, <1>11
  <2> QED BY <1>3, <1>8, <1>9, <1>10, <2>1, <2>2 DEF Stage, KeepsParticipation
<1>12. ASSUME (v.slot + 1) % SLOTS_PER_EPOCH = 0 PROVE Stage(s, r)
  <2>1. /\ get_current_epoch(r) = e + 1
        /\ r.previous_epoch_participation = v.current_epoch_participation
        /\ NoTargets(r.current_epoch_participation)
        /\ r.current_justified_checkpoint = Pulled(u)
    BY <1>3, <1>6, <1>12
  <2>2. /\ (u.slot + 1) % SLOTS_PER_EPOCH = 0 /\ u.slot >= s.slot
        /\ \A n \in Nat : n < s.slot /\ u.slot + 1 <= n + SLOTS_PER_HISTORICAL_ROOT =>
             u.block_roots[n % SLOTS_PER_HISTORICAL_ROOT]
               = s.block_roots[n % SLOTS_PER_HISTORICAL_ROOT]
    BY <1>2, <1>4, <1>7, <1>12
  <2> DEFINE past == get_current_epoch(r) - first
  <2>3. CASE e - first = 0
    <3>1. KeepsParticipation(s, v)
          /\ v.current_justified_checkpoint = s.current_justified_checkpoint
      BY <2>3 DEF Stage
    <3>2. Pulled(u) = Pulled(s)
      <4>1. KeepsParticipation(s, u)
            /\ u.current_justified_checkpoint = s.current_justified_checkpoint
        BY <1>4, <3>1 DEF KeepsParticipation
      <4>2. get_current_epoch(u) = get_current_epoch(s)
        BY <1>6, <2>3
      <4> QED BY <1>4, <1>5, <2>2, <4>1, <4>2, FirstBoundary
    <3>3. past = 1
      BY <1>6, <2>1, <2>3
    <3> QED BY <1>3, <1>8, <1>9, <1>10, <2>1, <3>1, <3>2, <3>3 DEF Stage, KeepsParticipation
  <2>4. CASE e - first = 1
    <3>1. /\ v.previous_epoch_participation = s.current_epoch_participation
          /\ NoTargets(v.current_epoch_participation)
          /\ v.current_justified_checkpoint = Pulled(s)
      BY <2>4 DEF Stage
    <3>2. /\ u.previous_epoch_participation = s.current_epoch_participation
          /\ NoTargets(u.current_epoch_participation)
          /\ u.current_justified_checkpoint = Pulled(s)
      BY <1>4, <3>1 DEF KeepsParticipation
    <3>3. get_current_epoch(u) = get_current_epoch(s) + 1
      BY <1>6, <2>4
    <3>4. first >= 1 => /\ first >= 2 => Pulled(u) = Pulled(s)
                        /\ first = 1 /\ Supported(s, 1) => Pulled(u).epoch = 1
      BY <1>4, <1>5, <2>2, <3>2, <3>3, SecondBoundary
    <3>5. past = 2
      BY <1>6, <2>1, <2>4
    <3> HIDE DEF e
    <3>6. /\ first >= 2 => r.current_justified_checkpoint = Pulled(s)
          /\ first = 1 /\ Supported(s, 1) => r.current_justified_checkpoint.epoch = 1
      <4> HIDE DEF first
      <4> QED BY <1>6, <2>1, <3>4
    <3>7. NoTargets(r.previous_epoch_participation)
      BY <2>1, <3>1
    <3> QED BY <1>3, <1>8, <1>9, <1>10, <2>1, <3>5, <3>6, <3>7 DEF Stage
  <2>5. CASE e - first >= 2
    <3>1. /\ NoTargets(v.previous_epoch_participation)
          /\ NoTargets(v.current_epoch_participation)
          /\ first >= 2 => v.current_justified_checkpoint = Pulled(s)
          /\ first = 1 /\ Supported(s, 1) => v.current_justified_checkpoint.epoch = 1
      BY <2>5 DEF Stage
    <3>2. Pulled(u) = v.current_justified_checkpoint
      <4>1. /\ NoTargets(u.previous_epoch_participation)
            /\ NoTargets(u.current_epoch_participation)
        BY <1>4, <3>1 DEF KeepsParticipation
      <4>2. get_current_epoch(u) >= 2
        BY <1>6, <2>5
      <4> QED BY <1>4, <1>5, <4>1, <4>2, LaterBoundary
    <3>3. past >= 2 /\ past # 1 /\ past # 0
      BY <1>6, <2>1, <2>5
    <3> QED BY <1>3, <1>8, <1>9, <1>10, <2>1, <3>1, <3>2, <3>3 DEF Stage
  <2>6. e - first = 0 \/ e - first = 1 \/ e - first >= 2
    BY <1>6
  <2> QED BY <2>3, <2>4, <2>5, <2>6
<1> QED BY <1>3, <1>11, <1>12 DEF r

-----------------------------------------------------------------------------
(* What process_slots gives at the slots the bundle asks about.             *)
(* process_slots reaches its target, at the stage of the target's epoch.    *)
LEMMA SlotsReach ==
  ASSUME NEW s, Resting(s), NEW slot \in Nat, s.slot < slot,
         slot <= LAST_SLOT + 3 * SLOTS_PER_EPOCH
  PROVE  /\ ffg_process_slots(s, slot).ok
         /\ at(s, slot).slot = slot
         /\ Stage(s, at(s, slot))
<1>1. /\ s.slot \in Nat /\ LAST_SLOT \in Nat /\ SLOTS_PER_EPOCH \in Nat
      /\ SLOTS_PER_HISTORICAL_ROOT \in Nat /\ UINT64_MAX \in Nat
      /\ LAST_SLOT + 4 * SLOTS_PER_EPOCH + SLOTS_PER_HISTORICAL_ROOT <= UINT64_MAX
  BY PresetAssumption, ScopeAssumption, RingAssumption DEF Resting
<1>2. slot <= UINT64_MAX
  BY <1>1
<1> DEFINE n == slot - s.slot
           seq == Slots(s.slot, slot)
           base == Accept(s)
<1>3. n \in Nat
  BY <1>1
<1>4. PICK iter : Loops("slots", 0, base, seq, n, iter) /\ ffg_process_slots(s, slot) = iter[1..n]
  <2>1. PICK iter : SlotLoop(s, slot, iter) /\ ffg_process_slots(s, slot) = iter[1..(slot - s.slot)]
    BY <1>1, <1>2, ProcessSlotsIsLoop
  <2> QED BY <2>1 DEF SlotLoop
<1> DEFINE Reached(k) == /\ iter[1..k].ok
                         /\ iter[1..k].value.slot = s.slot + k
                         /\ Stage(s, iter[1..k].value)
           failed == {k \in Nat : k <= n /\ ~Reached(k)}
<1> HIDE DEF n, seq
<1>5. iter[1..0] = base
  BY <1>3, <1>4, LoopStarts
<1>6. Reached(0)
  <2>1. iter[1..0].ok /\ iter[1..0].value = s
    BY <1>5 DEF Accept
  <2>2. s.slot = s.slot + 0
    BY <1>1
  <2> QED BY <2>1, <2>2, StageStarts
<1> HIDE DEF base
<1>7. ASSUME NEW k \in Nat, k + 1 <= n, Reached(k) PROVE Reached(k + 1)
  <2> DEFINE v == iter[1..k].value
  <2>1. iter[1..(k + 1)] = Then(iter[1..k], advance_slot)
    <3>1. k + 1 \in 1..n /\ (k + 1) - 1 = k
      BY <1>3, <1>7
    <3>2. n \in Nat /\ Loops("slots", 0, base, seq, n, iter)
      BY <1>3, <1>4
    <3>3. \A j \in 1..n : iter[1..j] = LoopStep("slots", 0, iter[1..(j - 1)], seq[j])
      BY <3>2, LoopUnfolds
    <3>4. iter[1..(k + 1)] = LoopStep("slots", 0, iter[1..k], seq[k + 1])
      <4>1. iter[1..(k + 1)] = LoopStep("slots", 0, iter[1..((k + 1) - 1)], seq[k + 1])
        BY ONLY <3>1, <3>3, Zenon
      <4> QED BY ONLY <3>1, <4>1
    <3> QED BY <3>4 DEF LoopStep
  <2>2. iter[1..(k + 1)] = advance_slot(v)
    BY <1>7, <2>1 DEF Then
  <2>3. Stage(s, v) /\ v.slot = s.slot + k
    BY <1>7
  <2>4. InReach(v)
    <3>1. v.slot \in Nat /\ v.slot <= LAST_SLOT + 3 * SLOTS_PER_EPOCH
      BY <1>1, <1>7, <2>3 DEF n
    <3> QED BY <3>1 DEF InReach
  <2> HIDE DEF v
  <2>5. /\ advance_slot(v).ok
        /\ advance_slot(v).value.slot = v.slot + 1
        /\ Stage(s, advance_slot(v).value)
    BY <2>3, <2>4, StageStep
  <2>6. v.slot + 1 = s.slot + (k + 1)
    BY <1>1, <1>7, <2>3
  <2> QED BY <2>2, <2>5, <2>6
<1> HIDE DEF Reached
<1>8. failed = {}
  <2> SUFFICES ASSUME failed # {} PROVE FALSE
    OBVIOUS
  <2>1. PICK m \in failed : \A k \in failed : m <= k
    BY LeastNatural
  <2>2. m # 0
    BY <1>6, <2>1
  <2>3. m - 1 \in Nat /\ m - 1 <= n /\ (m - 1) + 1 = m /\ m <= n
    BY <1>3, <2>1, <2>2
  <2>4. Reached(m - 1)
    BY <2>1, <2>3
  <2>5. Reached(m)
    BY <1>7, <2>3, <2>4
  <2> QED BY <2>1, <2>5
<1>9. Reached(n)
  BY <1>3, <1>8
<1>10. s.slot + n = slot
  BY <1>1 DEF n
<1> QED BY <1>4, <1>9, <1>10 DEF Reached, at

(* The boundaries that follow a state. *)
LEMMA Boundaries ==
  ASSUME NEW s, Resting(s), NEW k \in 1..3
  PROVE  /\ boundary(s, k) \in Nat
         /\ s.slot < boundary(s, k)
         /\ boundary(s, k) <= LAST_SLOT + 3 * SLOTS_PER_EPOCH
         /\ epoch_at(boundary(s, k)) = get_current_epoch(s) + k
<1> DEFINE n == SLOTS_PER_EPOCH
           e == get_current_epoch(s)
<1>1. /\ s.slot \in Nat /\ s.slot <= LAST_SLOT /\ LAST_SLOT \in Nat /\ n \in Nat \ {0}
  BY PresetAssumption, ScopeAssumption DEF Resting
<1>2. e \in Nat /\ e * n \in Nat /\ e * n <= s.slot /\ s.slot < e * n + n
  BY <1>1, EpochSpan DEF get_current_epoch
<1>3. boundary(s, k) = e * n + k * n /\ k * n \in Nat /\ k * n >= n /\ k * n <= 3 * n
  <2>1. boundary(s, k) = e * n + k * n /\ k * n \in Nat
    <3>1. k \in Nat /\ boundary(s, k) = (e + k) * n
      BY DEF boundary
    <3> HIDE DEF e
    <3> QED BY <1>2, <3>1, EpochsAdd
  <2>2. k = 1 \/ k = 2 \/ k = 3
    OBVIOUS
  <2> HIDE DEF n
  <2> QED BY <1>1, <2>1, <2>2
<1>4. boundary(s, k) = (e + k) * n /\ e + k \in Nat
  BY <1>2 DEF boundary
<1> HIDE DEF n, e
<1>5. /\ boundary(s, k) \in Nat
      /\ s.slot < boundary(s, k)
      /\ boundary(s, k) <= LAST_SLOT + 3 * n
  BY <1>1, <1>2, <1>3
<1>6. epoch_at(boundary(s, k)) = e + k
  BY <1>1, <1>4, <1>5, EpochOf DEF n
<1> QED BY <1>5, <1>6 DEF n, e

(* Before the first boundary nothing is justified.                          *)
LEMMA InsideEpoch ==
  ASSUME NEW s, Resting(s)
  PROVE  /\ \A slot \in s.slot+1..boundary(s, 1)-1 :
              /\ slot \in Nat /\ s.slot < slot
              /\ slot <= LAST_SLOT + 3 * SLOTS_PER_EPOCH
              /\ epoch_at(slot) = get_current_epoch(s)
         /\ boundary(s, 1) + 1 <= LAST_SLOT + 3 * SLOTS_PER_EPOCH
         /\ epoch_at(boundary(s, 1) + 1) = get_current_epoch(s) + 1
<1> DEFINE n == SLOTS_PER_EPOCH
           e == get_current_epoch(s)
           next == boundary(s, 1)
<1>1. /\ s.slot \in Nat /\ s.slot <= LAST_SLOT /\ LAST_SLOT \in Nat /\ n \in Nat /\ n > 1
  BY PresetAssumption, ScopeAssumption, RingAssumption DEF Resting
<1>2. e \in Nat /\ e * n \in Nat /\ e * n <= s.slot /\ s.slot < e * n + n
  BY <1>1, EpochSpan DEF get_current_epoch
<1>3. next = e * n + n /\ next = (e + 1) * n
  <2>1. 1 * n = n /\ 1 \in Nat
    BY <1>1
  <2> QED BY <1>2, <2>1, EpochsAdd DEF boundary
<1> HIDE DEF n, e, next
<1>4. ASSUME NEW slot \in s.slot+1..next-1
      PROVE  /\ slot \in Nat /\ s.slot < slot
             /\ slot <= LAST_SLOT + 3 * n
             /\ epoch_at(slot) = e
  <2>1. slot \in Nat /\ s.slot < slot /\ slot < next
    BY <1>1, <1>2, <1>3, <1>4
  <2>2. slot <= LAST_SLOT + 3 * n /\ e * n <= slot /\ slot < e * n + n
    BY <1>1, <1>2, <1>3, <2>1
  <2>3. epoch_at(slot) = e
    BY <1>2, <2>1, <2>2, EpochOf DEF n
  <2> QED BY <2>1, <2>2, <2>3
<1>5. next + 1 \in Nat /\ next + 1 <= LAST_SLOT + 3 * n
      /\ (e + 1) * n <= next + 1 /\ next + 1 < (e + 1) * n + n
  BY <1>1, <1>2, <1>3
<1>6. epoch_at(next + 1) = e + 1
  BY <1>2, <1>5, EpochOf DEF n
<1> QED BY <1>4, <1>5, <1>6 DEF n, e, next

(* The justified checkpoint at the slots the bundle asks about. *)
LEMMA JustifiedAhead ==
  ASSUME NEW s, Resting(s)
  PROVE  /\ justified_of(pulled_up(s)) = Pulled(s)
         /\ \A slot \in s.slot+1..boundary(s, 1)-1 : justified_of(at(s, slot)) = justified_of(s)
         /\ justified_of(at(s, boundary(s, 1))) = Pulled(s)
         /\ justified_of(at(s, boundary(s, 1) + 1)) = Pulled(s)
         /\ \A k \in {2, 3} :
              /\ get_current_epoch(s) >= 2 => justified_of(at(s, boundary(s, k))) = Pulled(s)
              /\ get_current_epoch(s) = 1 /\ Supported(s, 1) =>
                   justified_of(at(s, boundary(s, k))).epoch = 1
<1> DEFINE e == get_current_epoch(s)
<1>1. e \in Nat
  BY EpochIsNat DEF get_current_epoch, Resting
<1>2. ASSUME NEW slot \in Nat, s.slot < slot, slot <= LAST_SLOT + 3 * SLOTS_PER_EPOCH
      PROVE  Stage(s, at(s, slot)) /\ get_current_epoch(at(s, slot)) = epoch_at(slot)
  BY <1>2, SlotsReach DEF get_current_epoch
<1>3. justified_of(pulled_up(s)) = Pulled(s)
  <2>1. StateOK(s) /\ Sane(s) /\ InReach(s)
    BY RestingInReach DEF Resting, Sound
  <2> QED BY <2>1, PullExact DEF justified_of, pulled_up
<1>4. ASSUME NEW slot \in s.slot+1..boundary(s, 1)-1
      PROVE  justified_of(at(s, slot)) = justified_of(s)
  <2>1. slot \in Nat /\ s.slot < slot /\ slot <= LAST_SLOT + 3 * SLOTS_PER_EPOCH
        /\ epoch_at(slot) = e
    BY <1>4, InsideEpoch
  <2>2. Stage(s, at(s, slot)) /\ get_current_epoch(at(s, slot)) - e = 0
    BY <1>1, <1>2, <2>1
  <2> QED BY <2>2 DEF Stage, justified_of
<1>5. ASSUME NEW slot \in Nat, s.slot < slot, slot <= LAST_SLOT + 3 * SLOTS_PER_EPOCH,
             epoch_at(slot) = e + 1
      PROVE  justified_of(at(s, slot)) = Pulled(s)
  <2>1. Stage(s, at(s, slot)) /\ get_current_epoch(at(s, slot)) - e = 1
    BY <1>1, <1>2, <1>5
  <2> QED BY <2>1 DEF Stage, justified_of
<1>6. justified_of(at(s, boundary(s, 1))) = Pulled(s)
  BY <1>5, Boundaries
<1>7. justified_of(at(s, boundary(s, 1) + 1)) = Pulled(s)
  <2>1. boundary(s, 1) \in Nat /\ s.slot < boundary(s, 1) /\ s.slot \in Nat
    BY Boundaries DEF Resting
  <2>2. boundary(s, 1) + 1 \in Nat /\ s.slot < boundary(s, 1) + 1
    BY <2>1
  <2> QED BY <1>5, <2>2, InsideEpoch
<1>8. ASSUME NEW k \in {2, 3}
      PROVE  /\ e >= 2 => justified_of(at(s, boundary(s, k))) = Pulled(s)
             /\ e = 1 /\ Supported(s, 1) => justified_of(at(s, boundary(s, k))).epoch = 1
  <2>1. /\ boundary(s, k) \in Nat /\ s.slot < boundary(s, k)
        /\ boundary(s, k) <= LAST_SLOT + 3 * SLOTS_PER_EPOCH
        /\ epoch_at(boundary(s, k)) = e + k
    <3>1. k \in 1..3
      BY <1>8
    <3> QED BY <3>1, Boundaries
  <2>2. Stage(s, at(s, boundary(s, k))) /\ get_current_epoch(at(s, boundary(s, k))) = e + k
    BY <1>2, <2>1
  <2> HIDE DEF e
  <2>3. (e + k) - e >= 2
    BY <1>1, <1>8
  <2> QED BY <2>2, <2>3 DEF Stage, justified_of, e
<1> QED BY <1>3, <1>4, <1>6, <1>7, <1>8

(* Pulling up justifies no epoch that has not begun.                        *)
LEMMA PulledEpoch ==
  ASSUME NEW s, Resting(s)
  PROVE  Pulled(s).epoch <= get_current_epoch(s)
<1> DEFINE e == get_current_epoch(s)
<1>1. e \in Nat
  BY EpochIsNat DEF get_current_epoch, Resting
<1>2. s.current_justified_checkpoint.epoch <= e
  <2>1. /\ s.current_justified_checkpoint.epoch < e \/ s.current_justified_checkpoint.epoch = 0
        /\ s.current_justified_checkpoint.epoch \in Nat
    BY DEF Resting, Sound, InOrder, StateOK
  <2> HIDE DEF e
  <2> QED BY <1>1, <2>1
<1> HIDE DEF e
<1>3. \/ Pulled(s) = s.current_justified_checkpoint
      \/ Pulled(s).epoch = e
      \/ Pulled(s).epoch = e - 1
  BY DEF Pulled, e
<1>4. e - 1 <= e /\ e <= e
  BY <1>1
<1> QED BY <1>2, <1>3, <1>4 DEF e

-----------------------------------------------------------------------------
(* The bundle.                                                              *)
-----------------------------------------------------------------------------
(* The states of a run of the bundle. *)

(* t is s with another availability, header and hashes.                     *)
KeepsVotes(s, t) ==
  /\ has_state_fields(t)
  /\ t.slot = s.slot
  /\ t.validators = s.validators
  /\ t.justification_bits = s.justification_bits
  /\ t.block_roots = s.block_roots
  /\ DOMAIN t.execution_payload_availability = DOMAIN s.execution_payload_availability
  /\ KeepsParticipation(s, t)

(* The block up to its operations leaves the votes alone.                   *)
LEMMA BeginBlockKeepsVotes ==
  ASSUME NEW s, NEW b, has_state_fields(s), begin_block(s, b).ok
  PROVE  KeepsVotes(s, begin_block(s, b).value)
<1> DEFINE paid == process_parent_execution_payload(s, b)
           headed == process_block_header(paid.value, b)
<1>1. paid.ok /\ headed.ok
      /\ begin_block(s, b).value = process_execution_payload_bid(headed.value, b)
  BY DEF begin_block, Then, Accept
<1>2. KeepsVotes(s, paid.value)
  BY <1>1 DEF has_state_fields, state_fields, process_parent_execution_payload, Accept,
              Reject, KeepsVotes, KeepsParticipation
<1>3. KeepsVotes(s, headed.value)
  <2>1. process_block_header(paid.value, b).ok
    BY <1>1
  <2> HIDE DEF paid
  <2> QED BY <1>2, <2>1 DEF has_state_fields, state_fields, process_block_header, Accept,
                            Reject, KeepsVotes, KeepsParticipation
<1>4. ASSUME NEW t, KeepsVotes(s, t)
      PROVE  KeepsVotes(s, process_execution_payload_bid(t, b))
  BY <1>4 DEF has_state_fields, state_fields, process_execution_payload_bid, KeepsVotes,
              KeepsParticipation
<1> QED BY <1>1, <1>3, <1>4

LEMMA BeginBlockSane ==
  ASSUME NEW s, NEW b, has_state_fields(s), Sane(s), begin_block(s, b).ok
  PROVE  Sane(begin_block(s, b).value)
BY BeginBlockKeepsVotes DEF KeepsVotes, KeepsParticipation, Sane, IsWellFormed

(* An attestation sets the flags of an earlier slot: in the first slot of   *)
(* an epoch these are flags of the previous one.                            *)
LEMMA AttestationSane ==
  ASSUME NEW s, NEW vote, NEW parent_slot, has_state_fields(s), s.slot \in Nat, Sane(s),
         is_attestation(vote), process_attestation(s, vote, parent_slot).ok
  PROVE  Sane(process_attestation(s, vote, parent_slot).value)
<1> DEFINE r == process_attestation(s, vote, parent_slot).value
           data == vote.data
           indices == get_attesting_indices(vote)
<1>1. /\ data.target.epoch = epoch_at(data.slot)
      /\ ~(data.slot + MIN_ATTESTATION_INCLUSION_DELAY > s.slot)
      /\ \E flags : set_participation(s, vote, flags).ok /\ r = set_participation(s, vote, flags).value
  BY DEF process_attestation, Then, Accept, Reject
<1>2. PICK flags : set_participation(s, vote, flags).ok /\ r = set_participation(s, vote, flags).value
  BY <1>1
<1> DEFINE add(participation) ==
             [i \in DOMAIN participation |->
                IF i \in indices THEN participation[i] \cup flags ELSE participation[i]]
<1>3. data.slot \in Nat /\ data.slot < s.slot
  <2>1. data.slot \in Nat
    BY DEF is_attestation
  <2> QED BY <1>1, <2>1, PresetAssumption
<1>4. IF data.target.epoch = get_current_epoch(s)
      THEN r = [s EXCEPT !.current_epoch_participation = add(s.current_epoch_participation)]
      ELSE r = [s EXCEPT !.previous_epoch_participation = add(s.previous_epoch_participation)]
  BY <1>2 DEF set_participation, Accept, Reject
<1> HIDE DEF r, add
<1>5. \A participation : DOMAIN add(participation) = DOMAIN participation
  BY DEF add
<1>6. CASE data.target.epoch = get_current_epoch(s)
  <2>1. s.slot % SLOTS_PER_EPOCH # 0
    <3>1. epoch_at(data.slot) = epoch_at(s.slot)
      BY <1>1, <1>6 DEF get_current_epoch
    <3>2. epoch_at(s.slot) * SLOTS_PER_EPOCH <= data.slot
          /\ epoch_at(s.slot) * SLOTS_PER_EPOCH \in Nat
          /\ s.slot % SLOTS_PER_EPOCH = s.slot - epoch_at(s.slot) * SLOTS_PER_EPOCH
      BY <1>3, <3>1, EpochSpan
    <3> HIDE DEF data
    <3> QED BY <1>3, <3>2
  <2>2. /\ r.slot = s.slot /\ r.validators = s.validators
        /\ r.justification_bits = s.justification_bits
        /\ r.block_roots = s.block_roots
        /\ r.execution_payload_availability = s.execution_payload_availability
        /\ DOMAIN r.current_epoch_participation = DOMAIN s.current_epoch_participation
        /\ r.previous_epoch_participation = s.previous_epoch_participation
    BY <1>4, <1>5, <1>6 DEF has_state_fields, state_fields
  <2> QED BY <2>1, <2>2 DEF Sane, IsWellFormed, r
<1>7. CASE data.target.epoch # get_current_epoch(s)
  <2>1. /\ r.slot = s.slot /\ r.validators = s.validators
        /\ r.justification_bits = s.justification_bits
        /\ r.block_roots = s.block_roots
        /\ r.execution_payload_availability = s.execution_payload_availability
        /\ DOMAIN r.previous_epoch_participation = DOMAIN s.previous_epoch_participation
        /\ r.current_epoch_participation = s.current_epoch_participation
    BY <1>4, <1>5, <1>7 DEF has_state_fields, state_fields
  <2> QED BY <2>1 DEF Sane, IsWellFormed, r
<1> QED BY <1>6, <1>7

(* What the bundle may look at, and what it may be asked to go back to.     *)
BundleInv ==
  /\ Sane(state) /\ state.slot <= LAST_SLOT
  /\ Sane(before.state) /\ before.state.slot <= LAST_SLOT
  /\ phase # "idle" => block.slot <= LAST_SLOT
  /\ is_block(block) \/ state = before.state

LEMMA GenesisIsSane == Sane(GENESIS)
<1>1. IsWellFormed(GENESIS) /\ \A i \in DOMAIN GENESIS.validators :
                                  GENESIS.current_epoch_participation[i] = {}
  BY ScopeAssumption
<1> QED BY <1>1 DEF Sane, NoTargets

LEMMA InitBundleInv == BundleInit => BundleInv
BY GenesisIsSane, ScopeAssumption DEF BundleInit, Init, BundleInv

(* The bundle only observes the calls.                                      *)
LEMMA BundleIsCalls == [BundleNext]_bundle_vars => [Next]_vars
BY DEF BundleNext, bundle_vars, AcceptBlock, RestOfCall, Next

(* A call still on its way is within the horizon.                           *)
LEMMA SlotsGoOn ==
  ASSUME NEW s, s.slot \in Nat, s.slot <= LAST_SLOT
  PROVE  InReach(s)
<1>1. SLOTS_PER_EPOCH \in Nat /\ LAST_SLOT \in Nat
  BY PresetAssumption, ScopeAssumption
<1> QED BY <1>1 DEF InReach

LEMMA NextBundleInv ==
  IInv /\ CallInv /\ BundleInv /\ [BundleNext]_bundle_vars => BundleInv'
<1> SUFFICES ASSUME IInv, CallInv, BundleInv, [BundleNext]_bundle_vars PROVE BundleInv'
  OBVIOUS
<1>1. /\ Sound(state, justified, links) /\ StateOK(state)
      /\ has_state_fields(state) /\ state.slot \in Nat
      /\ Sane(state) /\ Sane(before.state)
      /\ phase # "idle" => is_block(block)
  BY DEF IInv, Sound, StateOK, BundleInv, CallInv
<1>2. ASSUME NEW new_block, new_block.slot <= LAST_SLOT, BeginCall(new_block) PROVE BundleInv'
  BY <1>1, <1>2 DEF BeginCall, BundleInv
<1>3. CASE AdvanceSlot
  <2>1. /\ phase = "slots" /\ state.slot < block.slot
        /\ advance_slot(state).ok /\ state' = advance_slot(state).value
        /\ UNCHANGED <<before, block, phase>>
    BY <1>3 DEF AdvanceSlot
  <2>2. InReach(state)
    BY <1>1, SlotsGoOn DEF BundleInv
  <2>3. Sane(state') /\ state'.slot = state.slot + 1
    BY <1>1, <2>1, <2>2, AdvanceExact
  <2>4. block.slot \in Nat /\ block.slot <= LAST_SLOT /\ LAST_SLOT \in Nat
    BY <1>1, <2>1, ScopeAssumption DEF BundleInv, is_block
  <2>5. state'.slot <= LAST_SLOT
    BY <1>1, <2>1, <2>3, <2>4
  <2> QED BY <1>1, <2>1, <2>3, <2>5 DEF BundleInv
<1>4. CASE BeginBlock
  <2>1. /\ phase = "slots" /\ phase' = "operations"
        /\ begin_block(state, block).ok /\ state' = begin_block(state, block).value
        /\ UNCHANGED <<before, block>>
    BY <1>4 DEF BeginBlock
  <2>2. Sane(state') /\ state'.slot = state.slot
    BY <1>1, <2>1, BeginBlockSane, BeginBlockKeeps DEF Keeps
  <2> QED BY <1>1, <2>1, <2>2 DEF BundleInv
<1>5. CASE NextAttestation
  <2>1. /\ phase = "operations" /\ done < Len(block.attestations)
        /\ next_attestation.ok /\ state' = next_attestation.value
        /\ UNCHANGED <<before, block, phase>>
    BY <1>5 DEF NextAttestation
  <2>2. is_attestation(block.attestations[done + 1])
    <3>1. done \in 0..Len(block.attestations) /\ is_block(block)
      BY <1>1, <2>1 DEF CallInv, InOperations
    <3>2. Len(block.attestations) \in Nat
      BY <3>1 DEF is_block
    <3>3. done + 1 \in 1..Len(block.attestations)
      BY <2>1, <3>1, <3>2
    <3> QED BY <3>1, <3>3 DEF is_block
  <2>3. Sane(state') /\ state'.slot = state.slot
    BY <1>1, <2>1, <2>2, AttestationSane, ProcessAttestationKeeps DEF next_attestation, Keeps
  <2> QED BY <1>1, <2>1, <2>3 DEF BundleInv
<1>6. CASE Return
  BY <1>1, <1>6 DEF Return, BundleInv
<1>7. CASE Raise
  BY <1>1, <1>7 DEF Raise, BundleInv
<1>8. CASE UNCHANGED vars
  BY <1>1, <1>8 DEF vars, BundleInv
<1> QED BY <1>2, <1>3, <1>4, <1>5, <1>6, <1>7, <1>8
       DEF BundleNext, AcceptBlock, RestOfCall, bundle_vars, vars

LEMMA BundleRunsCalls == BundleSpec => Spec
<1>1. BundleInit => Init
  BY DEF BundleInit
<1> QED BY <1>1, BundleIsCalls, PTL DEF BundleSpec, Spec

(* Every invariant of the calls holds between the observations too.         *)
LEMMA BundleInvariants == BundleSpec => [](IInv /\ RootInv /\ CallInv /\ BundleInv)
<1>1. Spec => []RootInv
  BY InitRootInv, NextRootInv, ChainInvariant, PTL DEF Spec
<1>2. Spec => []CallInv
  BY <1>1, InitCallInv, NextCallInv, ChainInvariant, PTL DEF Spec
<1>3. BundleSpec => [](IInv /\ RootInv /\ CallInv)
  BY <1>1, <1>2, BundleRunsCalls, ChainInvariant, PTL
<1> QED BY <1>3, InitBundleInv, NextBundleInv, PTL DEF BundleSpec

(* A block without attestations leaves the justified checkpoint its slots   *)
(* ended with.                                                              *)
LEMMA EmptyBlockJustifies ==
  ASSUME NEW s, Resting(s), NEW b, is_block(b), b.attestations = <<>>, s.slot < b.slot,
         b.slot <= LAST_SLOT + 3 * SLOTS_PER_EPOCH,
         ffg_state_transition(s, b).ok
  PROVE  justified_of(ffg_state_transition(s, b).value) = justified_of(at(s, b.slot))
<1> DEFINE ended == at(s, b.slot)
           begun == begin_block(ended, b)
           voted == process_operations(begun.value, b, ended.latest_block_header.slot)
           r == ffg_state_transition(s, b)
           slots == ffg_process_slots(s, b.slot)
           processed == process_block(ended, b)
<1>1. b.slot \in Nat
  BY DEF is_block
<1>2. slots.ok /\ slots.value = ended /\ Stage(s, ended)
  BY <1>1, SlotsReach DEF at
<1>3. processed.ok /\ r.value = processed.value
  <2> HIDE DEF slots, processed, ended
  <2>1. r = Then(slots, LAMBDA reached : Then(process_block(reached, b), LAMBDA result :
              IF oracle_accepts(reached, b, result) THEN Accept(result) ELSE Reject("oracle")))
    BY DEF ffg_state_transition, Reject, slots
  <2>2. r = Then(processed, LAMBDA result :
              IF oracle_accepts(ended, b, result) THEN Accept(result) ELSE Reject("oracle"))
    BY <1>2, <2>1 DEF Then, processed
  <2> HIDE DEF r
  <2>3. r.ok
    BY DEF r
  <2> QED BY <2>2, <2>3 DEF Then, Accept, Reject
<1>4. begun.ok /\ processed = voted
  <2> HIDE DEF ended, begun, voted
  <2>1. processed = Then(begun, LAMBDA t : process_operations(t, b, ended.latest_block_header.slot))
    BY DEF process_block, begun
  <2> HIDE DEF processed
  <2> QED BY <1>3, <2>1 DEF Then, voted
<1>5. voted = Accept(begun.value)
  <2> HIDE DEF ended, begun
  <2>0. voted.ok
    BY <1>3, <1>4
  <2>1. operations_within_limits(b)
    BY <2>0 DEF process_operations, Reject
  <2>2. PICK iter : VoteLoop(ended, b, iter) /\ voted = iter[1..Len(b.attestations)]
    BY <2>1, ProcessOperationsIsLoop DEF begun
  <2>3. Len(b.attestations) = 0
    OBVIOUS
  <2> DEFINE base == Accept(begun.value)
             seq == b.attestations
             parent_slot == ended.latest_block_header.slot
  <2>4. Loops("operations", parent_slot, base, seq, 0, iter)
    BY <2>2, <2>3 DEF VoteLoop, begun
  <2> HIDE DEF base, seq, parent_slot
  <2>5. iter[1..0] = base
    BY <2>4, LoopStarts
  <2> QED BY <2>2, <2>3, <2>5 DEF base
<1> HIDE DEF voted, processed
<1>6. r.value = begun.value
  BY <1>3, <1>4, <1>5 DEF Accept
<1>7. has_state_fields(ended)
  BY <1>2 DEF Stage, Sound, StateOK
<1> HIDE DEF r, ended
<1>8. begun.value.current_justified_checkpoint = ended.current_justified_checkpoint
  BY <1>4, <1>7, BeginBlockKeeps DEF Keeps, Decided
<1> QED BY <1>6, <1>8 DEF justified_of, r, ended

(* The three laws follow from the invariants of the calls.                  *)
LEMMA BundleIsCoherent == IInv /\ BundleInv => ExternalsCoherent
<1> SUFFICES ASSUME IInv, BundleInv PROVE SlotLawsHold /\ JumpJustifiesOnce /\ EpochOneJustifiesLate
  BY DEF ExternalsCoherent
<1> DEFINE e == get_current_epoch(state)
<1>1. Resting(state)
  BY DEF IInv, BundleInv, Resting, Sound, StateOK
<1>2. e \in Nat
  BY <1>1, EpochIsNat DEF get_current_epoch, Resting
<1>3. SlotLawsHold
  BY <1>1, JustifiedAhead, PulledEpoch DEF SlotLawsHold
<1>4. JumpJustifiesOnce
  <2> SUFFICES ASSUME NEW jump \in 1..3, e >= 2 \/ jump = 1
               PROVE  LET target == boundary(state, jump)
                          empty == [block EXCEPT !.slot = target,
                                      !.parent_root = state.latest_block_header.root,
                                      !.root = target, !.attestations = <<>>]
                          ended == ffg_state_transition(state, empty)
                      IN  /\ justified_of(at(state, target)) = justified_of(pulled_up(state))
                          /\ block_accepted /\ ended.ok =>
                               justified_of(ended.value) = justified_of(pulled_up(state))
    BY DEF JumpJustifiesOnce
  <2> DEFINE target == boundary(state, jump)
             empty == [block EXCEPT !.slot = target,
                         !.parent_root = state.latest_block_header.root,
                         !.root = target, !.attestations = <<>>]
  <2>1. justified_of(at(state, target)) = justified_of(pulled_up(state))
    <3>1. CASE jump = 1
      BY <1>1, <3>1, JustifiedAhead
    <3>2. CASE jump # 1
      <4>1. jump \in {2, 3} /\ e >= 2
        BY <3>2
      <4> QED BY <1>1, <4>1, JustifiedAhead
    <3> QED BY <3>1, <3>2
  <2>2. /\ target \in Nat /\ state.slot < target
        /\ target <= LAST_SLOT + 3 * SLOTS_PER_EPOCH
    BY <1>1, Boundaries
  <2> HIDE DEF target
  <2>3. block_accepted => /\ is_block(empty) /\ empty.slot = target /\ empty.attestations = <<>>
    <3> SUFFICES ASSUME block_accepted
                 PROVE  is_block(empty) /\ empty.slot = target /\ empty.attestations = <<>>
      OBVIOUS
    <3>1. is_block(block)
      BY DEF block_accepted, BundleInv
    <3>2. block = [field \in block_fields |-> block[field]]
      BY <3>1 DEF is_block
    <3>3. /\ empty = [field \in block_fields |-> empty[field]]
          /\ empty.slot = target /\ empty.attestations = <<>>
      BY <3>2 DEF block_fields
    <3> HIDE DEF empty
    <3>4. Len(empty.attestations) = 0 /\ DOMAIN empty.attestations = {} /\ 1..0 = {}
      BY <3>3
    <3> QED BY <2>2, <3>3, <3>4 DEF is_block
  <2> HIDE DEF empty
  <2>4. block_accepted /\ ffg_state_transition(state, empty).ok =>
          justified_of(ffg_state_transition(state, empty).value) = justified_of(at(state, target))
    BY <1>1, <2>2, <2>3, EmptyBlockJustifies
  <2> QED BY <2>1, <2>4 DEF target, empty
<1>5. EpochOneJustifiesLate
  <2> SUFFICES ASSUME e = 1, Supported(state, 1)
               PROVE  /\ justified_of(pulled_up(state)).epoch = 0
                      /\ justified_of(at(state, boundary(state, 1))).epoch = 0
                      /\ justified_of(at(state, boundary(state, 2))).epoch = 1
    BY DEF EpochOneJustifiesLate, Supported
  <2>1. Pulled(state) = state.current_justified_checkpoint
    BY DEF Pulled
  <2>2. state.current_justified_checkpoint.epoch = 0
    <3>1. /\ state.current_justified_checkpoint.epoch < e
               \/ state.current_justified_checkpoint.epoch = 0
          /\ state.current_justified_checkpoint.epoch \in Nat
      BY DEF IInv, Sound, InOrder, StateOK
    <3> HIDE DEF e
    <3> QED BY <3>1
  <2> QED BY <1>1, <2>1, <2>2, JustifiedAhead
<1> QED BY <1>3, <1>4, <1>5

(* In every run, between two calls, process_slots and the pulled-up state   *)
(* obey what the safety claim supposes of them: inside an epoch nothing is  *)
(* justified, the first boundary justifies what pulling up does, later ones *)
(* nothing more, and the votes of epoch 1 count one boundary late.          *)
THEOREM ExternalsAreCoherent == BundleSpec => []ExternalsCoherent
BY BundleInvariants, BundleIsCoherent, PTL

-----------------------------------------------------------------------------
(* The rows.  The table of labels only grows, and what was put to it is in  *)
(* it.                                                                      *)

IsList(t) == \E S : t \in Seq(S)

(* A list one longer.                                                       *)
LEMMA ListAppends ==
  ASSUME NEW t, NEW x, IsList(t)
  PROVE  IsList(Append(t, x)) /\ Range(Append(t, x)) = Range(t) \cup {x}
<1>1. PICK S : t \in Seq(S)
  BY DEF IsList
<1> DEFINE T == S \cup {x}
<1>2. t \in Seq(T)
  BY <1>1, SeqMonotonic
<1>3. /\ Append(t, x) \in Seq(T)
      /\ Len(t) \in Nat
      /\ DOMAIN t = 1..Len(t)
      /\ DOMAIN Append(t, x) = 1..(Len(t) + 1)
      /\ \A i \in 1..Len(t) : Append(t, x)[i] = t[i]
      /\ Append(t, x)[Len(t) + 1] = x
  BY <1>2
<1>4. IsList(Append(t, x))
  BY <1>3 DEF IsList
<1> HIDE DEF T
<1> DEFINE u == Append(t, x)
           n == Len(t)
<1>5. DOMAIN u = DOMAIN t \cup {n + 1} /\ n + 1 \in DOMAIN u /\ u[n + 1] = x
  BY <1>3
<1>6. \A i \in DOMAIN t : u[i] = t[i]
  BY <1>3
<1> HIDE DEF u, n
<1>7. Range(u) = Range(t) \cup {x}
  BY <1>5, <1>6 DEF Range
<1> QED BY <1>4, <1>7 DEF u

(* The two folds of the table as loops.                                     *)
LEMMA LabelsIsLoop ==
  ASSUME NEW table, NEW values, NEW n \in Nat, DOMAIN values = 1..n
  PROVE  \E iter : Loops("labels", 0, table, values, n, iter)
                   /\ with_labels(table, values) = iter[1..n]
<1> DEFINE body(iter) == [S \in SUBSET (1..n) |->
                            IF S = {} THEN table
                            ELSE IF values[Max(S)] \in Range(iter[S \ {Max(S)}])
                                 THEN iter[S \ {Max(S)}]
                                 ELSE Append(iter[S \ {Max(S)}], values[Max(S)])]
           result == CHOOSE iter : iter = body(iter)
<1>1. \A iter : Loops("labels", 0, table, values, n, iter) <=> iter = body(iter)
  BY DEF Loops, LoopStep
<1>2. \E iter : Loops("labels", 0, table, values, n, iter)
  BY LoopExists
<1>3. result = body(result)
  BY <1>1, <1>2
<1>4. with_labels(table, values) = result[1..n]
  BY DEF with_labels, FoldLeft, MapThenFoldSet
<1> QED BY <1>1, <1>3, <1>4

LEMMA VotesIsLoop ==
  ASSUME NEW table, NEW votes, NEW n \in Nat, DOMAIN votes = 1..n
  PROVE  \E iter : Loops("votes", 0, table, votes, n, iter)
                   /\ with_votes(table, votes) = iter[1..n]
<1> DEFINE body(iter) == [S \in SUBSET (1..n) |->
                            IF S = {} THEN table
                            ELSE with_labels(iter[S \ {Max(S)}], roots_of_vote(votes[Max(S)]))]
           result == CHOOSE iter : iter = body(iter)
<1>1. \A iter : Loops("votes", 0, table, votes, n, iter) <=> iter = body(iter)
  BY DEF Loops, LoopStep
<1>2. \E iter : Loops("votes", 0, table, votes, n, iter)
  BY LoopExists
<1>3. result = body(result)
  BY <1>1, <1>2
<1>4. with_votes(table, votes) = result[1..n]
  BY DEF with_votes, FoldLeft, MapThenFoldSet
<1> QED BY <1>1, <1>3, <1>4

(* Labelling keeps what the table has and adds every value.                 *)
LEMMA WithLabels ==
  ASSUME NEW table, NEW values, IsList(table), IsList(values)
  PROVE  LET u == with_labels(table, values)
         IN  IsList(u) /\ Range(table) \subseteq Range(u) /\ Range(values) \subseteq Range(u)
<1> DEFINE n == Len(values)
<1>1. n \in Nat /\ DOMAIN values = 1..n
  <2>1. PICK S : values \in Seq(S)
    BY DEF IsList
  <2> QED BY <2>1, LenProperties
<1> HIDE DEF n
<1>2. PICK iter : Loops("labels", 0, table, values, n, iter)
                  /\ with_labels(table, values) = iter[1..n]
  BY <1>1, LabelsIsLoop
<1> DEFINE Good(k) == /\ IsList(iter[1..k])
                      /\ Range(table) \subseteq Range(iter[1..k])
                      /\ \A j \in 1..k : values[j] \in Range(iter[1..k])
           failed == {k \in Nat : k <= n /\ ~Good(k)}
<1>3. Good(0)
  <2>1. iter[1..0] = table
    BY <1>1, <1>2, LoopStarts
  <2>2. 1..0 = {}
    OBVIOUS
  <2> QED BY <2>1, <2>2
<1>4. ASSUME NEW k \in Nat, k + 1 <= n, Good(k) PROVE Good(k + 1)
  <2>1. k + 1 \in 1..n /\ (k + 1) - 1 = k
    BY <1>1, <1>4
  <2>2. \A j \in 1..n : iter[1..j] = LoopStep("labels", 0, iter[1..(j - 1)], values[j])
    BY <1>1, <1>2, LoopUnfolds
  <2> DEFINE known == iter[1..k]
             next == iter[1..(k + 1)]
             value == values[k + 1]
  <2>3. next = LoopStep("labels", 0, known, value)
    BY <2>1, <2>2
  <2>4. next = IF value \in Range(known) THEN known ELSE Append(known, value)
    BY <2>3 DEF LoopStep
  <2>5. IsList(known)
    BY <1>4
  <2>6. \A j \in 1..(k + 1) : j \in 1..k \/ j = k + 1
    OBVIOUS
  <2>7. Range(table) \subseteq Range(known) /\ \A j \in 1..k : values[j] \in Range(known)
    BY <1>4
  <2> HIDE DEF known, next
  <2>8. IsList(next) /\ Range(known) \subseteq Range(next) /\ value \in Range(next)
    BY <2>4, <2>5, ListAppends
  <2>9. \A j \in 1..(k + 1) : values[j] \in Range(next)
    BY <2>6, <2>7, <2>8
  <2> QED BY <2>7, <2>8, <2>9 DEF next
<1> HIDE DEF Good
<1>5. failed = {}
  <2> SUFFICES ASSUME failed # {} PROVE FALSE
    OBVIOUS
  <2>1. PICK m \in failed : \A k \in failed : m <= k
    BY LeastNatural
  <2>2. m # 0
    BY <1>3, <2>1
  <2>3. m - 1 \in Nat /\ m - 1 <= n /\ (m - 1) + 1 = m /\ m <= n
    BY <1>1, <2>1, <2>2
  <2>4. Good(m - 1)
    BY <2>1, <2>3
  <2> QED BY <1>4, <2>1, <2>3, <2>4
<1>6. Good(n)
  BY <1>1, <1>5
<1>7. /\ IsList(iter[1..n])
      /\ Range(table) \subseteq Range(iter[1..n])
      /\ \A j \in 1..n : values[j] \in Range(iter[1..n])
  BY <1>6 DEF Good
<1> QED BY <1>1, <1>2, <1>7 DEF Range

(* The same for the roots of every attestation.                             *)
LEMMA WithVotes ==
  ASSUME NEW table, NEW votes, NEW n \in Nat, DOMAIN votes = 1..n, IsList(table)
  PROVE  LET u == with_votes(table, votes)
         IN  /\ IsList(u) /\ Range(table) \subseteq Range(u)
             /\ \A j \in 1..n : Range(roots_of_vote(votes[j])) \subseteq Range(u)
<1>1. PICK iter : Loops("votes", 0, table, votes, n, iter)
                  /\ with_votes(table, votes) = iter[1..n]
  BY VotesIsLoop
<1> DEFINE Good(k) == /\ IsList(iter[1..k])
                      /\ Range(table) \subseteq Range(iter[1..k])
                      /\ \A j \in 1..k : Range(roots_of_vote(votes[j])) \subseteq Range(iter[1..k])
           failed == {k \in Nat : k <= n /\ ~Good(k)}
<1>2. Good(0)
  <2>1. iter[1..0] = table
    BY <1>1, LoopStarts
  <2>2. 1..0 = {}
    OBVIOUS
  <2> QED BY <2>1, <2>2
<1>3. ASSUME NEW k \in Nat, k + 1 <= n, Good(k) PROVE Good(k + 1)
  <2>1. k + 1 \in 1..n /\ (k + 1) - 1 = k
    BY <1>3
  <2>2. \A j \in 1..n : iter[1..j] = LoopStep("votes", 0, iter[1..(j - 1)], votes[j])
    BY <1>1, LoopUnfolds
  <2> DEFINE known == iter[1..k]
             next == iter[1..(k + 1)]
             values == roots_of_vote(votes[k + 1])
  <2>3. next = LoopStep("votes", 0, known, votes[k + 1])
    BY <2>1, <2>2
  <2>4. next = with_labels(known, values)
    BY <2>3 DEF LoopStep
  <2>5. IsList(known)
    BY <1>3
  <2>6. \A j \in 1..(k + 1) : j \in 1..k \/ j = k + 1
    OBVIOUS
  <2>7. /\ Range(table) \subseteq Range(known)
        /\ \A j \in 1..k : Range(roots_of_vote(votes[j])) \subseteq Range(known)
    BY <1>3
  <2>8. IsList(values)
    <3> DEFINE a == votes[k + 1].data.beacon_block_root
               b == votes[k + 1].data.source.root
               c == votes[k + 1].data.target.root
    <3>1. values = <<a, b, c>>
      BY DEF roots_of_vote
    <3> HIDE DEF values, a, b, c
    <3>2. <<a, b, c>> \in Seq({a, b, c})
      OBVIOUS
    <3> QED BY <3>1, <3>2 DEF IsList
  <2> HIDE DEF known, next, values
  <2>9. IsList(next) /\ Range(known) \subseteq Range(next) /\ Range(values) \subseteq Range(next)
    BY <2>4, <2>5, <2>8, WithLabels
  <2>10. \A j \in 1..(k + 1) : Range(roots_of_vote(votes[j])) \subseteq Range(next)
    BY <2>6, <2>7, <2>9 DEF values
  <2> QED BY <2>7, <2>9, <2>10 DEF next
<1> HIDE DEF Good
<1>4. failed = {}
  <2> SUFFICES ASSUME failed # {} PROVE FALSE
    OBVIOUS
  <2>1. PICK m \in failed : \A k \in failed : m <= k
    BY LeastNatural
  <2>2. m # 0
    BY <1>2, <2>1
  <2>3. m - 1 \in Nat /\ m - 1 <= n /\ (m - 1) + 1 = m /\ m <= n
    BY <2>1, <2>2
  <2>4. Good(m - 1)
    BY <2>1, <2>3
  <2> QED BY <1>3, <2>1, <2>3, <2>4
<1>5. Good(n)
  BY <1>4
<1> QED BY <1>1, <1>5 DEF Good

(* One list after another.                                                  *)
LEMMA ListsConcatenate ==
  ASSUME NEW s, NEW t, IsList(s), IsList(t)
  PROVE  /\ IsList(s \o t)
         /\ Range(s) \subseteq Range(s \o t)
         /\ Range(t) \subseteq Range(s \o t)
<1>1. PICK S : s \in Seq(S)
  BY DEF IsList
<1>2. PICK T : t \in Seq(T)
  BY DEF IsList
<1> DEFINE U == S \cup T
           m == Len(s)
           n == Len(t)
           u == s \o t
<1>3. s \in Seq(U) /\ t \in Seq(U)
  BY <1>1, <1>2, SeqMonotonic
<1> HIDE DEF U
<1>4. /\ m \in Nat /\ n \in Nat /\ DOMAIN s = 1..m /\ DOMAIN t = 1..n
      /\ u \in Seq(U) /\ Len(u) = m + n
      /\ \A i \in 1..(m + n) : u[i] = IF i <= m THEN s[i] ELSE t[i - m]
  BY <1>3, LenProperties, ConcatProperties
<1>5. DOMAIN u = 1..(m + n)
  <2> HIDE DEF u
  <2> QED BY <1>4, LenProperties
<1> HIDE DEF u, m, n
<1>6. ASSUME NEW i \in DOMAIN s PROVE s[i] \in Range(u)
  <2>1. i \in 1..m /\ i \in 1..(m + n) /\ i <= m
    BY <1>4
  <2>2. u[i] = s[i] /\ i \in DOMAIN u
    BY <1>4, <1>5, <2>1
  <2> QED BY <2>2 DEF Range
<1>7. ASSUME NEW i \in DOMAIN t PROVE t[i] \in Range(u)
  <2>1. i + m \in 1..(m + n) /\ ~(i + m <= m) /\ (i + m) - m = i
    BY <1>4
  <2>2. u[i + m] = t[i] /\ i + m \in DOMAIN u
    BY <1>4, <1>5, <2>1
  <2> QED BY <2>2 DEF Range
<1>8. IsList(u)
  BY <1>4 DEF IsList
<1>9. Range(s) \subseteq Range(u) /\ Range(t) \subseteq Range(u)
  BY <1>6, <1>7 DEF Range
<1> QED BY <1>8, <1>9 DEF u

(* Every root and hash of a state and of a block is among those its row     *)
(* labels.                                                                  *)
LEMMA RootsOfState ==
  ASSUME NEW s
  PROVE  LET R == Range(roots_of_state(s))
         IN  /\ IsList(roots_of_state(s))
             /\ s.latest_block_header.parent_root \in R
             /\ s.latest_block_header.root \in R
             /\ s.previous_justified_checkpoint.root \in R
             /\ s.current_justified_checkpoint.root \in R
             /\ s.finalized_checkpoint.root \in R
             /\ \A k \in Ring : s.block_roots[k] \in R
             /\ s.latest_block_hash \in R /\ s.latest_bid_block_hash \in R
<1> DEFINE a == s.latest_block_header.parent_root
           b == s.latest_block_header.root
           c == s.previous_justified_checkpoint.root
           d == s.current_justified_checkpoint.root
           e == s.finalized_checkpoint.root
           f == s.latest_block_hash
           g == s.latest_bid_block_hash
           n == SLOTS_PER_HISTORICAL_ROOT
           one == <<a, b, c, d, e>>
           two == [k \in 1..n |-> s.block_roots[k - 1]]
           three == <<f, g>>
<1>1. roots_of_state(s) = one \o two \o three
  BY DEF roots_of_state
<1>2. n \in Nat
  BY PresetAssumption
<1> HIDE DEF a, b, c, d, e, f, g, n
<1>3. IsList(one) /\ {a, b, c, d, e} \subseteq Range(one)
  <2>1. one \in Seq({a, b, c, d, e}) /\ DOMAIN one = 1..5
    OBVIOUS
  <2>2. one[1] = a /\ one[2] = b /\ one[3] = c /\ one[4] = d /\ one[5] = e
    OBVIOUS
  <2> HIDE DEF one
  <2>3. 1 \in DOMAIN one /\ 2 \in DOMAIN one /\ 3 \in DOMAIN one /\ 4 \in DOMAIN one
        /\ 5 \in DOMAIN one
    <3>1. 1 \in 1..5 /\ 2 \in 1..5 /\ 3 \in 1..5 /\ 4 \in 1..5 /\ 5 \in 1..5
      OBVIOUS
    <3> QED BY <2>1, <3>1
  <2>4. IsList(one)
    BY <2>1 DEF IsList
  <2>5. a \in Range(one) /\ b \in Range(one) /\ c \in Range(one) /\ d \in Range(one)
        /\ e \in Range(one)
    BY <2>2, <2>3 DEF Range
  <2> QED BY <2>4, <2>5
<1>4. IsList(three) /\ {f, g} \subseteq Range(three)
  <2>1. three \in Seq({f, g}) /\ DOMAIN three = 1..2
    OBVIOUS
  <2>2. three[1] = f /\ three[2] = g
    OBVIOUS
  <2> HIDE DEF three
  <2>3. 1 \in DOMAIN three /\ 2 \in DOMAIN three
    BY <2>1
  <2> QED BY <2>1, <2>2, <2>3 DEF IsList, Range
<1>5. IsList(two) /\ \A k \in Ring : s.block_roots[k] \in Range(two)
  <2>1. IsList(two)
    <3> DEFINE S == {s.block_roots[k - 1] : k \in 1..n}
    <3>1. two \in [1..n -> S]
      OBVIOUS
    <3>2. two \in Seq(S)
      <4> HIDE DEF two, S
      <4> QED BY <1>2, <3>1, SeqDef
    <3> QED BY <3>2 DEF IsList
  <2>2. ASSUME NEW k \in Ring PROVE s.block_roots[k] \in Range(two)
    <3>1. k + 1 \in 1..n /\ (k + 1) - 1 = k
      BY <1>2 DEF Ring, n
    <3>2. two[k + 1] = s.block_roots[k] /\ k + 1 \in DOMAIN two
      BY <3>1
    <3> QED BY <3>2 DEF Range
  <2> QED BY <2>1, <2>2
<1> HIDE DEF one, two, three
<1>6. /\ IsList(one \o two)
      /\ Range(one) \subseteq Range(one \o two) /\ Range(two) \subseteq Range(one \o two)
  BY <1>3, <1>5, ListsConcatenate
<1>7. /\ IsList((one \o two) \o three)
      /\ Range(one \o two) \subseteq Range((one \o two) \o three)
      /\ Range(three) \subseteq Range((one \o two) \o three)
  BY <1>4, <1>6, ListsConcatenate
<1>8. /\ a \in Range(roots_of_state(s)) /\ b \in Range(roots_of_state(s))
      /\ c \in Range(roots_of_state(s)) /\ d \in Range(roots_of_state(s))
      /\ e \in Range(roots_of_state(s)) /\ f \in Range(roots_of_state(s))
      /\ g \in Range(roots_of_state(s))
      /\ \A k \in Ring : s.block_roots[k] \in Range(roots_of_state(s))
  BY <1>1, <1>3, <1>4, <1>5, <1>6, <1>7
<1> QED BY <1>1, <1>7, <1>8 DEF a, b, c, d, e, f, g

LEMMA RootsOfBlock ==
  ASSUME NEW b
  PROVE  LET R == Range(roots_of_block(b))
         IN  /\ IsList(roots_of_block(b))
             /\ b.parent_root \in R /\ b.root \in R
             /\ b.parent_block_hash \in R /\ b.block_hash \in R
<1> DEFINE w == b.parent_root
           x == b.root
           y == b.parent_block_hash
           z == b.block_hash
           all == <<w, x, y, z>>
<1>1. roots_of_block(b) = all
  BY DEF roots_of_block
<1> HIDE DEF w, x, y, z
<1>2. all \in Seq({w, x, y, z}) /\ DOMAIN all = 1..4
  OBVIOUS
<1>3. all[1] = w /\ all[2] = x /\ all[3] = y /\ all[4] = z
  OBVIOUS
<1> HIDE DEF all
<1>4. 1 \in DOMAIN all /\ 2 \in DOMAIN all /\ 3 \in DOMAIN all /\ 4 \in DOMAIN all
  BY <1>2
<1>5. /\ IsList(all) /\ w \in Range(all) /\ x \in Range(all) /\ y \in Range(all)
      /\ z \in Range(all)
  BY <1>2, <1>3, <1>4 DEF IsList, Range
<1> QED BY <1>1, <1>5 DEF w, x, y, z

(* The roots of an attestation.                                             *)
LEMMA RootsOfVote ==
  ASSUME NEW v
  PROVE  LET R == Range(roots_of_vote(v))
         IN  /\ v.data.beacon_block_root \in R /\ v.data.source.root \in R
             /\ v.data.target.root \in R
<1> DEFINE x == v.data.beacon_block_root
           y == v.data.source.root
           z == v.data.target.root
           all == <<x, y, z>>
<1>1. roots_of_vote(v) = all
  BY DEF roots_of_vote
<1> HIDE DEF x, y, z
<1>2. DOMAIN all = 1..3 /\ all[1] = x /\ all[2] = y /\ all[3] = z
  OBVIOUS
<1> HIDE DEF all
<1>3. 1 \in DOMAIN all /\ 2 \in DOMAIN all /\ 3 \in DOMAIN all
  BY <1>2
<1>4. x \in Range(all) /\ y \in Range(all) /\ z \in Range(all)
  BY <1>2, <1>3 DEF Range
<1> QED BY <1>1, <1>4 DEF x, y, z

-----------------------------------------------------------------------------
(* Another name for every root: what the labels are, and the identity too.  *)

Distinct(name) == \A x, y \in DOMAIN name : name[x] = name[y] => x = y

Named(name, x, y) == x \in DOMAIN name /\ y = name[x]

label_of(table) == [x \in Range(table) |-> label(table, x)]

(* Two roots of the table have two labels.                                  *)
LEMMA LabelsDiffer ==
  ASSUME NEW table, IsList(table)
  PROVE  Distinct(label_of(table))
<1>1. DOMAIN table \subseteq Int
  <2>1. PICK S : table \in Seq(S)
    BY DEF IsList
  <2> QED BY <2>1, LenProperties
<1> SUFFICES ASSUME NEW x \in Range(table), NEW y \in Range(table),
                    label(table, x) = label(table, y)
             PROVE  x = y
  BY DEF Distinct, label_of
<1> DEFINE place(z) == CHOOSE k \in DOMAIN table : table[k] = z
<1>2. place(x) \in DOMAIN table /\ table[place(x)] = x
  BY DEF Range
<1>3. place(y) \in DOMAIN table /\ table[place(y)] = y
  BY DEF Range
<1>4. place(x) - 1 = place(y) - 1
  BY DEF label
<1> HIDE DEF place
<1>5. place(x) = place(y)
  BY <1>1, <1>2, <1>3, <1>4
<1> QED BY <1>2, <1>3, <1>5

SameCheckpoint(name, c, d) ==
  /\ is_checkpoint(c) /\ is_checkpoint(d)
  /\ d.epoch = c.epoch
  /\ Named(name, c.root, d.root)

SameHeader(name, h, i) ==
  /\ is_header(h) /\ is_header(i)
  /\ i.slot = h.slot /\ i.proposer_index = h.proposer_index
  /\ Named(name, h.parent_root, i.parent_root)
  /\ Named(name, h.root, i.root)

SameRing(name, f, g) ==
  /\ g = [k \in DOMAIN f |-> g[k]]
  /\ \A k \in DOMAIN f : Named(name, f[k], g[k])

(* r is s with its roots and hashes renamed. *)
Row(name, s, r) ==
  /\ has_state_fields(s) /\ has_state_fields(r)
  /\ s.slot \in Nat
  /\ r.slot = s.slot
  /\ r.validators = s.validators
  /\ r.justification_bits = s.justification_bits
  /\ KeepsParticipation(s, r)
  /\ r.execution_payload_availability = s.execution_payload_availability
  /\ SameCheckpoint(name, s.previous_justified_checkpoint, r.previous_justified_checkpoint)
  /\ SameCheckpoint(name, s.current_justified_checkpoint, r.current_justified_checkpoint)
  /\ SameCheckpoint(name, s.finalized_checkpoint, r.finalized_checkpoint)
  /\ SameHeader(name, s.latest_block_header, r.latest_block_header)
  /\ SameRing(name, s.block_roots, r.block_roots)
  /\ Named(name, s.latest_block_hash, r.latest_block_hash)
  /\ Named(name, s.latest_bid_block_hash, r.latest_bid_block_hash)

(* w is v with its roots renamed, and c is b with its roots and hashes     *)
(* renamed, and with its counts or, as a row has it, none.                 *)
SameVote(name, v, w) ==
  /\ is_attestation(v) /\ is_attestation(w)
  /\ w.aggregation_bits = v.aggregation_bits /\ w.committee_bits = v.committee_bits
  /\ w.data.slot = v.data.slot /\ w.data.index = v.data.index
  /\ Named(name, v.data.beacon_block_root, w.data.beacon_block_root)
  /\ SameCheckpoint(name, v.data.source, w.data.source)
  /\ SameCheckpoint(name, v.data.target, w.data.target)

SameBlock(name, b, c) ==
  /\ is_block(b) /\ is_block(c)
  /\ c.slot = b.slot /\ c.proposer_index = b.proposer_index
  /\ c.parent_requests_empty = b.parent_requests_empty
  /\ c.parent_requests_match = b.parent_requests_match
  /\ c.deposit_count = b.deposit_count
  /\ c.registry_operations = b.registry_operations
  /\ c.bls_to_execution_change_count \in {0, b.bls_to_execution_change_count}
  /\ c.payload_attestation_count \in {0, b.payload_attestation_count}
  /\ Named(name, b.parent_root, c.parent_root) /\ Named(name, b.root, c.root)
  /\ Named(name, b.parent_block_hash, c.parent_block_hash)
  /\ Named(name, b.block_hash, c.block_hash)
  /\ Len(c.attestations) = Len(b.attestations)
  /\ \A k \in 1..Len(b.attestations) : SameVote(name, b.attestations[k], c.attestations[k])

(* A root the ring still holds for s, it holds renamed for its row.         *)
LEMMA RowRoot ==
  ASSUME NEW name, NEW s, NEW r, Row(name, s, r), NEW slot \in Nat,
         get_block_root_at_slot(s, slot).ok
  PROVE  /\ get_block_root_at_slot(r, slot).ok
         /\ Named(name, get_block_root_at_slot(s, slot).value,
                        get_block_root_at_slot(r, slot).value)
<1> DEFINE k == slot % SLOTS_PER_HISTORICAL_ROOT
<1>1. k \in Ring
  BY PresetAssumption DEF Ring
<1>2. /\ slot + SLOTS_PER_HISTORICAL_ROOT <= UINT64_MAX
      /\ slot < s.slot /\ s.slot <= slot + SLOTS_PER_HISTORICAL_ROOT
      /\ DOMAIN s.block_roots = Ring
      /\ get_block_root_at_slot(s, slot).value = s.block_roots[k]
  BY DEF get_block_root_at_slot, Accept, Reject
<1>3. r.slot = s.slot /\ DOMAIN r.block_roots = Ring
  BY <1>2 DEF Row, SameRing
<1>4. get_block_root_at_slot(r, slot) = Accept(r.block_roots[k])
  BY <1>2, <1>3 DEF get_block_root_at_slot
<1>5. Named(name, s.block_roots[k], r.block_roots[k])
  BY <1>1, <1>2 DEF Row, SameRing
<1> QED BY <1>2, <1>4, <1>5 DEF Accept

(* The same for the root of an epoch.                                       *)
LEMMA RowEpochRoot ==
  ASSUME NEW name, NEW s, NEW r, Row(name, s, r), NEW e \in Nat, get_block_root(s, e).ok
  PROVE  /\ get_block_root(r, e).ok
         /\ Named(name, get_block_root(s, e).value, get_block_root(r, e).value)
<1>1. e * SLOTS_PER_EPOCH \in Nat
  BY PresetAssumption
<1> DEFINE start == e * SLOTS_PER_EPOCH
<1> HIDE DEF start
<1>2. \A u : get_block_root(u, e) = IF start <= UINT64_MAX THEN get_block_root_at_slot(u, start)
                                    ELSE Reject("root")
  BY DEF get_block_root, start
<1>3. start <= UINT64_MAX
  BY <1>2 DEF Reject
<1> QED BY <1>1, <1>2, <1>3, RowRoot DEF start

(* A row is of the same epoch.                                              *)
LEMMA RowEpoch ==
  ASSUME NEW name, NEW s, NEW r, Row(name, s, r)
  PROVE  /\ get_current_epoch(r) = get_current_epoch(s)
         /\ get_previous_epoch(r) = get_previous_epoch(s)
         /\ get_current_epoch(s) \in Nat /\ get_previous_epoch(s) \in Nat
<1>1. get_current_epoch(r) = get_current_epoch(s) /\ get_current_epoch(s) \in Nat
  BY EpochIsNat DEF Row, get_current_epoch
<1> QED BY <1>1 DEF get_previous_epoch

(* The weighing counts the same, and takes the roots of both.               *)
LEMMA RowJustify ==
  ASSUME NEW name, NEW s, NEW r, Row(name, s, r), NEW e \in Nat, NEW p, justify(s, e, p).ok
  PROVE  justify(r, e, p).ok /\ Row(name, justify(s, e, p).value, justify(r, e, p).value)
<1>1. get_block_root(s, e).ok
  BY DEF justify, Then
<1> DEFINE x == get_block_root(s, e).value
           y == get_block_root(r, e).value
           t == [s EXCEPT !.current_justified_checkpoint = [epoch |-> e, root |-> x],
                          !.justification_bits[p] = TRUE]
           u == [r EXCEPT !.current_justified_checkpoint = [epoch |-> e, root |-> y],
                          !.justification_bits[p] = TRUE]
<1>2. get_block_root(r, e).ok /\ Named(name, x, y)
  BY <1>1, RowEpochRoot
<1>3. justify(s, e, p) = Accept(t) /\ justify(r, e, p) = Accept(u)
  BY <1>1, <1>2 DEF justify, Then
<1> HIDE DEF x, y
<1>4. SameCheckpoint(name, [epoch |-> e, root |-> x], [epoch |-> e, root |-> y])
  BY <1>2 DEF SameCheckpoint, is_checkpoint
<1>5. Row(name, t, u)
  <2> DEFINE c == [epoch |-> e, root |-> x]
             d == [epoch |-> e, root |-> y]
  <2> HIDE DEF c, d
  <2>1. t = [s EXCEPT !.current_justified_checkpoint = c,
                      !.justification_bits = [s.justification_bits EXCEPT ![p] = TRUE]]
    BY DEF Row, has_state_fields, state_fields, c
  <2>2. u = [r EXCEPT !.current_justified_checkpoint = d,
                      !.justification_bits = [s.justification_bits EXCEPT ![p] = TRUE]]
    BY DEF Row, has_state_fields, state_fields, d
  <2> DEFINE bits == [s.justification_bits EXCEPT ![p] = TRUE]
  <2> HIDE DEF bits, t, u
  <2>3. SameCheckpoint(name, c, d)
    BY <1>4 DEF c, d
  <2> QED BY <2>1, <2>2, <2>3 DEF Row, has_state_fields, state_fields, KeepsParticipation, bits
<1> QED BY <1>3, <1>5 DEF Accept

(* The shift of the bits and checkpoints.                                   *)
LEMMA RowShift ==
  ASSUME NEW name, NEW s, NEW r, Row(name, s, r)
  PROVE  Row(name, shift_justification(s), shift_justification(r))
<1> DEFINE bits == <<FALSE>> \o SubSeq(s.justification_bits, 1, 3)
           t == [s EXCEPT !.previous_justified_checkpoint = s.current_justified_checkpoint,
                          !.justification_bits = bits]
           u == [r EXCEPT !.previous_justified_checkpoint = r.current_justified_checkpoint,
                          !.justification_bits = bits]
<1>1. shift_justification(s) = t
  BY DEF Row, has_state_fields, state_fields, shift_justification
<1>2. shift_justification(r) = u
  BY DEF Row, has_state_fields, state_fields, shift_justification
<1> HIDE DEF bits
<1>3. Row(name, t, u)
  BY DEF Row, has_state_fields, state_fields, KeepsParticipation
<1> QED BY <1>1, <1>2, <1>3

(* The four rules read epochs and bits only.                                *)
LEMMA RowFinalized ==
  ASSUME NEW name, NEW s, NEW r, Row(name, s, r),
         NEW bits, NEW c, NEW d, NEW e, NEW f, NEW epoch_,
         SameCheckpoint(name, c, d), SameCheckpoint(name, e, f)
  PROVE  LET final == s.finalized_checkpoint
         IN  SameCheckpoint(name, finalized_by(bits, c, e, s.finalized_checkpoint, epoch_),
                                  finalized_by(bits, d, f, r.finalized_checkpoint, epoch_))
<1>1. /\ d.epoch = c.epoch /\ f.epoch = e.epoch
      /\ SameCheckpoint(name, s.finalized_checkpoint, r.finalized_checkpoint)
  BY DEF SameCheckpoint, Row
<1> QED BY <1>1 DEF finalized_by

(* Weighing a state and its row.                                            *)
LEMMA RowWeigh ==
  ASSUME NEW name, NEW s, NEW r, Row(name, s, r), NEW total, NEW previous, NEW current,
         weigh_justification_and_finalization(s, total, previous, current).ok
  PROVE  /\ weigh_justification_and_finalization(r, total, previous, current).ok
         /\ Row(name, weigh_justification_and_finalization(s, total, previous, current).value,
                      weigh_justification_and_finalization(r, total, previous, current).value)
<1> DEFINE e == get_current_epoch(s)
           p == get_previous_epoch(s)
           first(u) == IF has_two_thirds(previous, total) THEN justify(u, p, 2) ELSE Accept(u)
           second(u) == IF has_two_thirds(current, total) THEN justify(u, e, 1) ELSE Accept(u)
           last(v, u) == [u EXCEPT !.finalized_checkpoint =
                            finalized_by(u.justification_bits, v.previous_justified_checkpoint,
                                         v.current_justified_checkpoint, @, e)]
           weighed(v) == weigh_justification_and_finalization(v, total, previous, current)
<1>1. /\ e \in Nat /\ p \in Nat /\ get_current_epoch(r) = e /\ get_previous_epoch(r) = p
      /\ get_current_epoch(s) = e /\ get_previous_epoch(s) = p
  BY RowEpoch
<1> HIDE DEF e, p
<1>2. Len(s.justification_bits) = 4 /\ Len(r.justification_bits) = 4
  BY DEF weigh_justification_and_finalization, Reject, Row
<1> DEFINE mid(v) == first(shift_justification(v))
           end(v) == second(mid(v).value)
<1>3. ASSUME NEW v, Len(v.justification_bits) = 4, get_current_epoch(v) = e,
             get_previous_epoch(v) = p
      PROVE  /\ weighed(v).ok => mid(v).ok /\ end(v).ok
             /\ mid(v).ok /\ end(v).ok => weighed(v) = Accept(last(v, end(v).value))
  <2>1. weighed(v) = Then(Then(mid(v), second), LAMBDA u : Accept(last(v, u)))
    BY <1>3 DEF weigh_justification_and_finalization
  <2> HIDE DEF mid, second, last, weighed
  <2> QED BY <2>1 DEF Then, Accept
<1>4. /\ weighed(s).ok => mid(s).ok /\ end(s).ok
      /\ mid(s).ok /\ end(s).ok => weighed(s) = Accept(last(s, end(s).value))
      /\ mid(r).ok /\ end(r).ok => weighed(r) = Accept(last(r, end(r).value))
  <2> HIDE DEF mid, end, last, weighed
  <2> QED BY <1>1, <1>2, <1>3
<1> DEFINE s1 == shift_justification(s)
           r1 == shift_justification(r)
           s2 == first(s1)
           r2 == first(r1)
           s3 == second(s2.value)
           r3 == second(r2.value)
<1>5. Row(name, s1, r1)
  BY RowShift
<1>6. s2.ok /\ s3.ok /\ weighed(s) = Accept(last(s, s3.value))
  BY <1>4
<1> HIDE DEF s1, r1
<1>7. r2.ok /\ Row(name, s2.value, r2.value)
  BY <1>1, <1>5, <1>6, RowJustify DEF Accept
<1> HIDE DEF s2, r2
<1>8. r3.ok /\ Row(name, s3.value, r3.value)
  BY <1>1, <1>6, <1>7, RowJustify DEF Accept
<1>9. weighed(r) = Accept(last(r, r3.value))
  BY <1>4, <1>7, <1>8 DEF r2, r1
<1> DEFINE t == s3.value
           u == r3.value
<1>10. Row(name, last(s, t), last(r, u))
  <2>1. Row(name, t, u)
    BY <1>8
  <2> HIDE DEF t, u
  <2> DEFINE c == finalized_by(t.justification_bits, s.previous_justified_checkpoint,
                               s.current_justified_checkpoint, t.finalized_checkpoint, e)
             d == finalized_by(t.justification_bits, r.previous_justified_checkpoint,
                               r.current_justified_checkpoint, u.finalized_checkpoint, e)
  <2>2. SameCheckpoint(name, c, d)
    BY <2>1, RowFinalized DEF Row
  <2>3. /\ last(s, t) = [t EXCEPT !.finalized_checkpoint = c]
        /\ last(r, u) = [u EXCEPT !.finalized_checkpoint = d]
    BY <2>1 DEF Row, has_state_fields, state_fields
  <2> HIDE DEF c, d, last
  <2> QED BY <2>1, <2>2, <2>3 DEF Row, has_state_fields, state_fields, KeepsParticipation
<1> QED BY <1>6, <1>9, <1>10 DEF Accept

(* The votes of a row count the same.                                       *)
LEMMA RowCounts ==
  ASSUME NEW name, NEW s, NEW r, Row(name, s, r), NEW e, NEW indices
  PROVE  /\ get_total_balance(r, indices) = get_total_balance(s, indices)
         /\ get_total_active_balance(r) = get_total_active_balance(s)
         /\ get_unslashed_participating_indices(r, e) = get_unslashed_participating_indices(s, e)
<1>1. /\ get_current_epoch(r) = get_current_epoch(s) /\ r.validators = s.validators
      /\ r.previous_epoch_participation = s.previous_epoch_participation
      /\ r.current_epoch_participation = s.current_epoch_participation
  BY RowEpoch DEF Row, KeepsParticipation
<1>2. ASSUME NEW any PROVE get_total_balance(r, any) = get_total_balance(s, any)
  BY <1>1 DEF get_total_balance
<1>3. ASSUME NEW any PROVE active_indices(r, any) = active_indices(s, any)
  BY <1>1 DEF active_indices
<1>4. get_total_active_balance(r) = get_total_active_balance(s)
  BY <1>1, <1>2, <1>3 DEF get_total_active_balance
<1>5. get_unslashed_participating_indices(r, e) = get_unslashed_participating_indices(s, e)
  BY <1>1, <1>3 DEF get_unslashed_participating_indices
<1> QED BY <1>2, <1>4, <1>5

(* Pulling up a state and its row.                                          *)
LEMMA RowPulled ==
  ASSUME NEW name, NEW s, NEW r, Row(name, s, r),
         ffg_process_justification_and_finalization(s).ok
  PROVE  /\ ffg_process_justification_and_finalization(r).ok
         /\ Row(name, pulled_up(s), pulled_up(r))
<1> DEFINE e == get_current_epoch(s)
           p == get_previous_epoch(s)
           pulled(v) == ffg_process_justification_and_finalization(v)
           old(v) == get_unslashed_participating_indices(v, p)
           new(v) == get_unslashed_participating_indices(v, e)
           weighed(v) == weigh_justification_and_finalization(v, get_total_active_balance(v),
                           get_total_balance(v, old(v).value), get_total_balance(v, new(v).value))
<1>1. /\ get_current_epoch(r) = e /\ get_previous_epoch(r) = p
      /\ get_current_epoch(s) = e /\ get_previous_epoch(s) = p
  BY RowEpoch
<1> HIDE DEF e, p
<1>2. ASSUME NEW v, get_current_epoch(v) = e, get_previous_epoch(v) = p
      PROVE  /\ e <= 1 => pulled(v) = Accept(v)
             /\ ~(e <= 1) /\ pulled(v).ok => old(v).ok /\ new(v).ok
             /\ ~(e <= 1) /\ old(v).ok /\ new(v).ok => pulled(v) = weighed(v)
  BY <1>2 DEF ffg_process_justification_and_finalization, Then
<1>3. /\ e <= 1 => pulled(s) = Accept(s) /\ pulled(r) = Accept(r)
      /\ ~(e <= 1) => old(s).ok /\ new(s).ok
      /\ ~(e <= 1) /\ old(s).ok /\ new(s).ok => pulled(s) = weighed(s)
      /\ ~(e <= 1) /\ old(r).ok /\ new(r).ok => pulled(r) = weighed(r)
  <2> HIDE DEF pulled, old, new, weighed
  <2> QED BY <1>1, <1>2 DEF pulled
<1>4. old(r) = old(s) /\ new(r) = new(s)
  BY RowCounts
<1> DEFINE total == get_total_active_balance(s)
           previous == get_total_balance(s, old(s).value)
           current == get_total_balance(s, new(s).value)
<1>5. /\ weighed(s) = weigh_justification_and_finalization(s, total, previous, current)
      /\ weighed(r) = weigh_justification_and_finalization(r, total, previous, current)
  <2>1. /\ get_total_active_balance(r) = total
        /\ get_total_balance(r, old(r).value) = previous
        /\ get_total_balance(r, new(r).value) = current
    <3> HIDE DEF old, new
    <3> QED BY <1>4, RowCounts
  <2> HIDE DEF old, new, total, previous, current
  <2> QED BY <2>1 DEF total, previous, current
<1>6. CASE e <= 1
  BY <1>3, <1>6 DEF pulled_up, Accept
<1>7. CASE ~(e <= 1)
  <2>1. /\ pulled(s) = weigh_justification_and_finalization(s, total, previous, current)
        /\ pulled(r) = weigh_justification_and_finalization(r, total, previous, current)
    <3> HIDE DEF pulled, old, new, weighed, total, previous, current
    <3> QED BY <1>3, <1>4, <1>5, <1>7
  <2> HIDE DEF total, previous, current
  <2> QED BY <2>1, RowWeigh DEF pulled_up
<1> QED BY <1>6, <1>7

(* The ring takes the root of the header, renamed.                          *)
LEMMA RowProcessSlot ==
  ASSUME NEW name, NEW s, NEW r, Row(name, s, r), process_slot(s).ok
  PROVE  process_slot(r).ok /\ Row(name, process_slot(s).value, process_slot(r).value)
<1> DEFINE k == s.slot % SLOTS_PER_HISTORICAL_ROOT
           availability == [s.execution_payload_availability EXCEPT
                              ![(s.slot + 1) % SLOTS_PER_HISTORICAL_ROOT] = FALSE]
           ring(v) == [v.block_roots EXCEPT ![k] = v.latest_block_header.root]
           after(v) == [v EXCEPT !.block_roots = ring(v),
                                 !.execution_payload_availability = availability]
<1>1. DOMAIN s.block_roots = Ring /\ DOMAIN s.execution_payload_availability = Ring
  BY DEF process_slot, Reject
<1>2. /\ DOMAIN r.block_roots = Ring /\ DOMAIN r.execution_payload_availability = Ring
      /\ r.slot = s.slot
      /\ r.execution_payload_availability = s.execution_payload_availability
  BY <1>1 DEF Row, SameRing
<1>3. process_slot(s) = Accept(after(s))
  BY <1>1 DEF process_slot, Row, has_state_fields, state_fields
<1>4. process_slot(r) = Accept(after(r))
  BY <1>2 DEF process_slot, Row, has_state_fields, state_fields
<1>5. SameRing(name, ring(s), ring(r))
  <2>1. /\ DOMAIN ring(s) = DOMAIN s.block_roots /\ DOMAIN ring(r) = DOMAIN s.block_roots
        /\ ring(r) = [j \in DOMAIN ring(s) |-> ring(r)[j]]
    BY <1>1, <1>2
  <2>2. Named(name, s.latest_block_header.root, r.latest_block_header.root)
    BY DEF Row, SameHeader
  <2>3. \A j \in DOMAIN s.block_roots : Named(name, s.block_roots[j], r.block_roots[j])
    BY DEF Row, SameRing
  <2>4. ASSUME NEW j \in DOMAIN s.block_roots PROVE Named(name, ring(s)[j], ring(r)[j])
    BY <1>1, <1>2, <2>2, <2>3
  <2> HIDE DEF ring
  <2> QED BY <2>1, <2>4 DEF SameRing
<1> HIDE DEF availability, ring
<1>6. Row(name, after(s), after(r))
  BY <1>5 DEF Row, has_state_fields, state_fields, KeepsParticipation
<1> QED BY <1>3, <1>4, <1>6 DEF Accept

(* The participation of a new epoch.                                        *)
LEMMA RowFlags ==
  ASSUME NEW name, NEW s, NEW r, Row(name, s, r)
  PROVE  Row(name, process_participation_flag_updates(s), process_participation_flag_updates(r))
<1> DEFINE none == [i \in DOMAIN s.validators |-> {}]
           after(v) == [v EXCEPT !.previous_epoch_participation = s.current_epoch_participation,
                                 !.current_epoch_participation = none]
<1>1. /\ process_participation_flag_updates(s) = after(s)
      /\ process_participation_flag_updates(r) = after(r)
  BY DEF process_participation_flag_updates, Row, KeepsParticipation
<1> HIDE DEF none
<1>2. Row(name, after(s), after(r))
  BY DEF Row, has_state_fields, state_fields, KeepsParticipation
<1> QED BY <1>1, <1>2

(* One iteration of process_slots.                                          *)
LEMMA RowAdvances ==
  ASSUME NEW name, NEW s, NEW r, Row(name, s, r), advance_slot(s).ok
  PROVE  advance_slot(r).ok /\ Row(name, advance_slot(s).value, advance_slot(r).value)
<1> DEFINE slot(v) == process_slot(v)
           pulled(v) == ffg_process_justification_and_finalization(slot(v).value)
           ends(v) == (slot(v).value.slot + 1) % SLOTS_PER_EPOCH = 0
           flags(v) == process_participation_flag_updates(pulled(v).value)
           next(t) == [t EXCEPT !.slot = t.slot + 1]
<1>1. ASSUME NEW v
      PROVE  /\ advance_slot(v).ok => slot(v).ok
             /\ advance_slot(v).ok /\ ends(v) => pulled(v).ok
             /\ slot(v).ok /\ ends(v) /\ pulled(v).ok => advance_slot(v) = Accept(next(flags(v)))
             /\ slot(v).ok /\ ~ends(v) => advance_slot(v) = Accept(next(slot(v).value))
  BY DEF advance_slot, process_epoch, Then, Accept
<1>2. slot(s).ok
  BY <1>1
<1>3. slot(r).ok /\ Row(name, slot(s).value, slot(r).value)
  BY <1>2, RowProcessSlot
<1>4. ends(r) = ends(s)
  BY <1>3 DEF Row
<1>5. ASSUME NEW t, NEW u, Row(name, t, u) PROVE Row(name, next(t), next(u))
  <2>1. t.slot + 1 \in Nat /\ u.slot = t.slot
    BY <1>5 DEF Row
  <2> QED BY <1>5, <2>1 DEF Row, has_state_fields, state_fields, KeepsParticipation
<1>6. CASE ends(s)
  <2>1. pulled(s).ok
    BY <1>1, <1>6
  <2>2. pulled(r).ok /\ Row(name, pulled(s).value, pulled(r).value)
    <3> HIDE DEF slot
    <3> QED BY <1>3, <2>1, RowPulled DEF pulled_up
  <2>3. Row(name, flags(s), flags(r))
    <3> HIDE DEF pulled
    <3> QED BY <2>2, RowFlags
  <2>4. Row(name, next(flags(s)), next(flags(r)))
    <3> HIDE DEF flags, next
    <3> QED BY <1>5, <2>3
  <2>5. advance_slot(s) = Accept(next(flags(s))) /\ advance_slot(r) = Accept(next(flags(r)))
    <3> HIDE DEF slot, pulled, ends, flags, next
    <3> QED BY <1>1, <1>2, <1>3, <1>4, <1>6, <2>1, <2>2
  <2> HIDE DEF flags, next
  <2> QED BY <2>4, <2>5 DEF Accept
<1>7. CASE ~ends(s)
  <2>1. Row(name, next(slot(s).value), next(slot(r).value))
    <3> HIDE DEF slot, next
    <3> QED BY <1>3, <1>5
  <2>2. /\ advance_slot(s) = Accept(next(slot(s).value))
        /\ advance_slot(r) = Accept(next(slot(r).value))
    <3> HIDE DEF slot, pulled, ends, flags, next
    <3> QED BY <1>1, <1>2, <1>3, <1>4, <1>7
  <2> HIDE DEF slot, next
  <2> QED BY <2>1, <2>2 DEF Accept
<1> QED BY <1>6, <1>7

(* All of process_slots.                                                    *)
LEMMA RowSlots ==
  ASSUME NEW name, NEW s, NEW r, Row(name, s, r), NEW slot \in Nat,
         ffg_process_slots(s, slot).ok
  PROVE  ffg_process_slots(r, slot).ok /\ Row(name, at(s, slot), at(r, slot))
<1>1. s.slot \in Nat /\ r.slot = s.slot /\ UINT64_MAX \in Nat
  BY PresetAssumption DEF Row
<1>2. slot <= UINT64_MAX /\ s.slot < slot
  <2>1. slot > UINT64_MAX \/ s.slot >= slot => ffg_process_slots(s, slot) = Reject("slot")
    BY DEF ffg_process_slots, FoldLeft, MapThenFoldSet
  <2>2. ~(slot > UINT64_MAX \/ s.slot >= slot)
    BY <2>1 DEF Reject
  <2> QED BY ONLY <1>1, <2>2, slot \in Nat
<1> DEFINE n == slot - s.slot
           seq == Slots(s.slot, slot)
           one == Accept(s)
           two == Accept(r)
<1>3. n \in Nat
  BY <1>1, <1>2
<1>4. PICK iter : Loops("slots", 0, one, seq, n, iter) /\ ffg_process_slots(s, slot) = iter[1..n]
  <2>1. PICK iter : SlotLoop(s, slot, iter) /\ ffg_process_slots(s, slot) = iter[1..(slot - s.slot)]
    BY <1>1, <1>2, ProcessSlotsIsLoop
  <2> QED BY <2>1 DEF SlotLoop
<1>5. PICK iter_r : Loops("slots", 0, two, seq, n, iter_r)
                    /\ ffg_process_slots(r, slot) = iter_r[1..n]
  <2>1. PICK iter_r : SlotLoop(r, slot, iter_r)
                      /\ ffg_process_slots(r, slot) = iter_r[1..(slot - r.slot)]
    BY <1>1, <1>2, ProcessSlotsIsLoop
  <2> QED BY <1>1, <2>1 DEF SlotLoop
<1> HIDE DEF n, seq
<1>6. iter[1..n].ok
  BY <1>4
<1> DEFINE Good(k) == iter_r[1..k].ok /\ Row(name, iter[1..k].value, iter_r[1..k].value)
           failed == {k \in Nat : k <= n /\ ~Good(k)}
<1>7. Good(0)
  <2>1. iter[1..0] = one /\ iter_r[1..0] = two
    <3> HIDE DEF one, two
    <3> QED BY <1>3, <1>4, <1>5, LoopStarts
  <2> QED BY <2>1 DEF Accept
<1>8. ASSUME NEW k \in Nat, k + 1 <= n, Good(k) PROVE Good(k + 1)
  <2>1. k + 1 \in 1..n /\ (k + 1) - 1 = k /\ k \in 0..n /\ k + 1 \in 0..n
    BY <1>3, <1>8
  <2> HIDE DEF one, two
  <2>2. /\ \A j \in 1..n : iter[1..j] = LoopStep("slots", 0, iter[1..(j - 1)], seq[j])
        /\ \A j \in 1..n : iter_r[1..j] = LoopStep("slots", 0, iter_r[1..(j - 1)], seq[j])
    <3>1. \A j \in 1..n : iter[1..j] = LoopStep("slots", 0, iter[1..(j - 1)], seq[j])
      BY <1>3, <1>4, LoopUnfolds
    <3>2. \A j \in 1..n : iter_r[1..j] = LoopStep("slots", 0, iter_r[1..(j - 1)], seq[j])
      BY <1>3, <1>5, LoopUnfolds
    <3> QED BY <3>1, <3>2
  <2>3. iter[1..k].ok /\ iter[1..(k + 1)].ok
    BY <1>3, <1>4, <1>6, <2>1, LoopStaysFailed
  <2> DEFINE v == iter[1..k]
             w == iter_r[1..k]
  <2>4. iter[1..(k + 1)] = LoopStep("slots", 0, v, seq[k + 1])
        /\ iter_r[1..(k + 1)] = LoopStep("slots", 0, w, seq[k + 1])
    BY <2>1, <2>2
  <2>5. v.ok /\ w.ok /\ Row(name, v.value, w.value)
    BY <1>8, <2>3
  <2> HIDE DEF v, w
  <2>6. iter[1..(k + 1)] = advance_slot(v.value) /\ iter_r[1..(k + 1)] = advance_slot(w.value)
    BY <2>4, <2>5 DEF LoopStep, Then
  <2> QED BY <2>3, <2>5, <2>6, RowAdvances
<1> HIDE DEF Good
<1>9. failed = {}
  <2> SUFFICES ASSUME failed # {} PROVE FALSE
    OBVIOUS
  <2>1. PICK m \in failed : \A k \in failed : m <= k
    BY LeastNatural
  <2>2. m # 0
    BY <1>7, <2>1
  <2>3. m - 1 \in Nat /\ m - 1 <= n /\ (m - 1) + 1 = m /\ m <= n
    BY <1>3, <2>1, <2>2
  <2>4. Good(m - 1)
    BY <2>1, <2>3
  <2> QED BY <1>8, <2>1, <2>3, <2>4
<1>10. Good(n)
  BY <1>3, <1>9
<1> QED BY <1>4, <1>5, <1>10 DEF Good, at

(* Comparing roots and comparing their names give the same.                 *)
LEMMA NamesAgree ==
  ASSUME NEW name, Distinct(name), NEW x, NEW y, NEW u, NEW v,
         Named(name, x, u), Named(name, y, v)
  PROVE  x = y <=> u = v
BY DEF Distinct, Named

(* The parent's payload is compared by its hash.                            *)
LEMMA RowParentPayload ==
  ASSUME NEW name, Distinct(name), NEW s, NEW r, Row(name, s, r),
         NEW b, NEW c, SameBlock(name, b, c), process_parent_execution_payload(s, b).ok
  PROVE  /\ process_parent_execution_payload(r, c).ok
         /\ Row(name, process_parent_execution_payload(s, b).value,
                      process_parent_execution_payload(r, c).value)
<1>1. /\ Named(name, b.parent_block_hash, c.parent_block_hash)
      /\ Named(name, s.latest_bid_block_hash, r.latest_bid_block_hash)
      /\ c.parent_requests_empty = b.parent_requests_empty
      /\ c.parent_requests_match = b.parent_requests_match
      /\ r.latest_block_header.slot = s.latest_block_header.slot
  BY DEF Row, SameBlock, SameHeader
<1>2. b.parent_block_hash = s.latest_bid_block_hash
        <=> c.parent_block_hash = r.latest_bid_block_hash
  BY <1>1, NamesAgree
<1>3. CASE b.parent_block_hash # s.latest_bid_block_hash
  <2>1. /\ process_parent_execution_payload(s, b) = Accept(s)
        /\ process_parent_execution_payload(r, c) = Accept(r)
    BY <1>1, <1>2, <1>3 DEF process_parent_execution_payload, Reject
  <2> QED BY <2>1 DEF Accept
<1>4. CASE b.parent_block_hash = s.latest_bid_block_hash
  <2> DEFINE availability == [s.execution_payload_availability EXCEPT
                  ![s.latest_block_header.slot % SLOTS_PER_HISTORICAL_ROOT] = TRUE]
             after(v) == [v EXCEPT !.execution_payload_availability = availability,
                                   !.latest_block_hash = v.latest_bid_block_hash]
  <2>1. process_parent_execution_payload(s, b) = Accept(after(s))
    BY <1>4 DEF process_parent_execution_payload, Reject, Row, has_state_fields, state_fields
  <2>2. r.execution_payload_availability = s.execution_payload_availability
    BY DEF Row
  <2>3. c.parent_requests_match
    BY <1>1, <1>4 DEF process_parent_execution_payload, Reject
  <2>4. process_parent_execution_payload(r, c) = Accept(after(r))
    BY <1>1, <1>2, <1>4, <2>2, <2>3
    DEF process_parent_execution_payload, Row, has_state_fields, state_fields
  <2> HIDE DEF availability
  <2>5. Row(name, after(s), after(r))
    BY DEF Row, has_state_fields, state_fields, KeepsParticipation
  <2> QED BY <2>1, <2>4, <2>5 DEF Accept
<1> QED BY <1>3, <1>4

(* The header is compared by the parent's root.                             *)
LEMMA RowHeader ==
  ASSUME NEW name, Distinct(name), NEW s, NEW r, Row(name, s, r),
         NEW b, NEW c, SameBlock(name, b, c), process_block_header(s, b).ok
  PROVE  /\ process_block_header(r, c).ok
         /\ Row(name, process_block_header(s, b).value, process_block_header(r, c).value)
<1> DEFINE header(d) == [slot |-> d.slot, proposer_index |-> d.proposer_index,
                         parent_root |-> d.parent_root, root |-> d.root]
           after(v, d) == [v EXCEPT !.latest_block_header = header(d)]
<1>1. /\ c.slot = b.slot /\ c.proposer_index = b.proposer_index
      /\ Named(name, b.parent_root, c.parent_root) /\ Named(name, b.root, c.root)
      /\ r.slot = s.slot /\ r.validators = s.validators
      /\ r.latest_block_header.slot = s.latest_block_header.slot
      /\ Named(name, s.latest_block_header.root, r.latest_block_header.root)
  BY DEF Row, SameBlock, SameHeader
<1>2. /\ b.slot = s.slot /\ b.slot > s.latest_block_header.slot
      /\ b.parent_root = s.latest_block_header.root
      /\ b.proposer_index \in DOMAIN s.validators
      /\ ~s.validators[b.proposer_index].slashed
      /\ process_block_header(s, b) = Accept(after(s, b))
  BY DEF process_block_header, Reject
<1>3. c.parent_root = r.latest_block_header.root
  BY <1>1, <1>2, NamesAgree
<1>4. process_block_header(r, c) = Accept(after(r, c))
  BY <1>1, <1>2, <1>3 DEF process_block_header
<1>5. SameHeader(name, header(b), header(c))
  BY <1>1 DEF SameHeader, is_header
<1> HIDE DEF header
<1>6. Row(name, after(s, b), after(r, c))
  BY <1>5 DEF Row, has_state_fields, state_fields, KeepsParticipation
<1> QED BY <1>2, <1>4, <1>6 DEF Accept

(* A block up to its operations.                                            *)
LEMMA RowBegins ==
  ASSUME NEW name, Distinct(name), NEW s, NEW r, Row(name, s, r),
         NEW b, NEW c, SameBlock(name, b, c), begin_block(s, b).ok
  PROVE  begin_block(r, c).ok /\ Row(name, begin_block(s, b).value, begin_block(r, c).value)
<1> DEFINE paid(v, d) == process_parent_execution_payload(v, d)
           headed(v, d) == process_block_header(paid(v, d).value, d)
           bid(v, d) == [v EXCEPT !.latest_bid_block_hash = d.block_hash]
<1>1. ASSUME NEW v, NEW d
      PROVE  /\ begin_block(v, d).ok => paid(v, d).ok /\ headed(v, d).ok
             /\ paid(v, d).ok /\ headed(v, d).ok =>
                  begin_block(v, d) = Accept(bid(headed(v, d).value, d))
  BY DEF begin_block, process_execution_payload_bid, Then, Accept
<1>2. paid(s, b).ok /\ headed(s, b).ok
  BY <1>1
<1>3. paid(r, c).ok /\ Row(name, paid(s, b).value, paid(r, c).value)
  BY <1>2, RowParentPayload
<1>4. headed(r, c).ok /\ Row(name, headed(s, b).value, headed(r, c).value)
  <2> HIDE DEF paid
  <2> QED BY <1>2, <1>3, RowHeader
<1>5. /\ begin_block(s, b) = Accept(bid(headed(s, b).value, b))
      /\ begin_block(r, c) = Accept(bid(headed(r, c).value, c))
  <2> HIDE DEF paid, headed, bid
  <2> QED BY <1>1, <1>2, <1>3, <1>4
<1>6. ASSUME NEW t, NEW u, Row(name, t, u) PROVE Row(name, bid(t, b), bid(u, c))
  <2>1. Named(name, b.block_hash, c.block_hash)
    BY DEF SameBlock
  <2> QED BY <1>6, <2>1 DEF Row, has_state_fields, state_fields, KeepsParticipation
<1>7. Row(name, bid(headed(s, b).value, b), bid(headed(r, c).value, c))
  <2> HIDE DEF headed, bid
  <2> QED BY <1>4, <1>6
<1> HIDE DEF headed, bid
<1> QED BY <1>5, <1>7 DEF Accept

(* What an attestation's bits select is read off its bits, slot and target  *)
(* epoch alone.                                                             *)
members_of(committee_bits, slot) ==
  FlattenSeq([k \in DOMAIN get_committee_indices(committee_bits) |->
                committee_members(slot, get_committee_indices(committee_bits)[k])])

attesters_of(committee_bits, aggregation_bits, slot) ==
  LET members == members_of(committee_bits, slot)
  IN  {members[k] : k \in {j \in DOMAIN members \cap DOMAIN aggregation_bits :
                             aggregation_bits[j]}}

bits_error_of(committee_bits, aggregation_bits, slot, target_epoch) ==
  LET selected == get_committee_indices(committee_bits)
      size(k) == Len(committee_members(slot, selected[k]))
      offset(k) == MapThenSumSet(size, 1..k-1)
      out_of_range(k) == \/ selected[k] >= committee_count(target_epoch)
                         \/ size(k) > MAX_VALIDATORS_PER_COMMITTEE
      bits_missing(k) ==
        \/ offset(k) + size(k) > Len(aggregation_bits)
        \/ \A j \in 1..size(k) : ~aggregation_bits[offset(k) + j]
      failing == {k \in DOMAIN selected : out_of_range(k) \/ bits_missing(k)}
  IN  IF failing # {}
      THEN IF out_of_range(Min(failing)) THEN "committee" ELSE "bitfield"
      ELSE IF Len(aggregation_bits) # offset(Len(selected) + 1)
           THEN "bitfield" ELSE "none"

(* So they are those of its row.                                            *)
LEMMA VoteBits ==
  ASSUME NEW name, NEW v, NEW w, SameVote(name, v, w)
  PROVE  /\ get_attesting_indices(w) = get_attesting_indices(v)
         /\ committee_bits_error(w) = committee_bits_error(v)
<1>1. \A u : get_attesting_indices(u)
               = attesters_of(u.committee_bits, u.aggregation_bits, u.data.slot)
  BY DEF get_attesting_indices, selected_members, attesters_of, members_of
<1>2. \A u : committee_bits_error(u)
               = bits_error_of(u.committee_bits, u.aggregation_bits, u.data.slot,
                               u.data.target.epoch)
  BY DEF committee_bits_error, bits_error_of
<1>3. /\ w.committee_bits = v.committee_bits /\ w.aggregation_bits = v.aggregation_bits
      /\ w.data.slot = v.data.slot /\ w.data.target.epoch = v.data.target.epoch
  BY DEF SameVote, SameCheckpoint
<1> QED BY <1>1, <1>2, <1>3

(* Whether the block voted for is of the vote's slot.                       *)
LEMMA RowSameSlot ==
  ASSUME NEW name, Distinct(name), NEW s, NEW r, Row(name, s, r),
         NEW v, NEW w, SameVote(name, v, w), is_attestation_same_slot(s, v.data).ok
  PROVE  is_attestation_same_slot(r, w.data) = is_attestation_same_slot(s, v.data)
<1> DEFINE slot == v.data.slot
           here(u) == get_block_root_at_slot(u, slot)
           earlier(u) == get_block_root_at_slot(u, slot - 1)
<1>1. slot \in Nat /\ w.data.slot = slot
      /\ Named(name, v.data.beacon_block_root, w.data.beacon_block_root)
  BY DEF SameVote, is_attestation
<1> HIDE DEF slot
<1>2. ASSUME NEW u, NEW data, data.slot = slot
      PROVE  /\ slot = 0 => is_attestation_same_slot(u, data) = Accept(TRUE)
             /\ slot # 0 /\ is_attestation_same_slot(u, data).ok => here(u).ok /\ earlier(u).ok
             /\ slot # 0 /\ here(u).ok /\ earlier(u).ok =>
                  is_attestation_same_slot(u, data) =
                    Accept(/\ data.beacon_block_root = here(u).value
                           /\ data.beacon_block_root # earlier(u).value)
  BY <1>2 DEF is_attestation_same_slot, Then
<1>3. CASE slot = 0
  BY <1>1, <1>2, <1>3 DEF slot
<1>4. CASE slot # 0
  <2>1. here(s).ok /\ earlier(s).ok
    BY <1>2, <1>4 DEF slot
  <2>2. /\ here(r).ok /\ Named(name, here(s).value, here(r).value)
        /\ earlier(r).ok /\ Named(name, earlier(s).value, earlier(r).value)
    <3>1. slot - 1 \in Nat
      BY <1>1, <1>4
    <3> QED BY <1>1, <2>1, <3>1, RowRoot
  <2> HIDE DEF here, earlier
  <2>3. /\ v.data.beacon_block_root = here(s).value
             <=> w.data.beacon_block_root = here(r).value
        /\ v.data.beacon_block_root = earlier(s).value
             <=> w.data.beacon_block_root = earlier(r).value
    BY <1>1, <2>2, NamesAgree
  <2>4. /\ is_attestation_same_slot(s, v.data) =
             Accept(/\ v.data.beacon_block_root = here(s).value
                    /\ v.data.beacon_block_root # earlier(s).value)
        /\ is_attestation_same_slot(r, w.data) =
             Accept(/\ w.data.beacon_block_root = here(r).value
                    /\ w.data.beacon_block_root # earlier(r).value)
    BY <1>1, <1>2, <1>4, <2>1, <2>2 DEF slot
  <2>5. (/\ v.data.beacon_block_root = here(s).value
         /\ v.data.beacon_block_root # earlier(s).value)
          = (/\ w.data.beacon_block_root = here(r).value
             /\ w.data.beacon_block_root # earlier(r).value)
    BY <2>3
  <2> QED BY <2>4, <2>5
<1> QED BY <1>3, <1>4

(* The source of a vote is the justified checkpoint.                        *)
LEMMA RowSource ==
  ASSUME NEW name, Distinct(name), NEW s, NEW r, Row(name, s, r),
         NEW v, NEW w, SameVote(name, v, w), NEW e, v.data.source = justified_for(s, e)
  PROVE  w.data.source = justified_for(r, e)
<1>1. SameCheckpoint(name, justified_for(s, e), justified_for(r, e))
  BY RowEpoch DEF justified_for, Row
<1>2. SameCheckpoint(name, v.data.source, w.data.source)
  BY DEF SameVote
<1> DEFINE c == v.data.source
           d == w.data.source
           f == justified_for(r, e)
<1>3. SameCheckpoint(name, c, f) /\ SameCheckpoint(name, c, d)
  BY <1>1, <1>2
<1> HIDE DEF c, d, f
<1>4. d = [epoch |-> d.epoch, root |-> d.root] /\ f = [epoch |-> f.epoch, root |-> f.root]
      /\ d.epoch = f.epoch /\ d.root = f.root
  BY <1>3 DEF SameCheckpoint, is_checkpoint, Named
<1> QED BY <1>4 DEF d, f

(* The flags of a vote.                                                     *)
LEMMA RowTimely ==
  ASSUME NEW name, Distinct(name), NEW v, NEW w, SameVote(name, v, w),
         NEW s, NEW r, NEW x, NEW y, NEW head, NEW head_r, NEW matches, NEW delay,
         Named(name, x, y), Named(name, head, head_r)
  PROVE  timely_flags(r, w.data, y, head_r, matches, delay)
           = timely_flags(s, v.data, x, head, matches, delay)
<1>1. /\ v.data.target.root = x <=> w.data.target.root = y
      /\ v.data.beacon_block_root = head <=> w.data.beacon_block_root = head_r
  BY NamesAgree DEF SameVote, SameCheckpoint
<1>2. (v.data.target.root = x) = (w.data.target.root = y)
  BY <1>1
<1>3. (v.data.beacon_block_root = head) = (w.data.beacon_block_root = head_r)
  BY <1>1
<1> DEFINE flags(target_matches, head_known) ==
             {flag \in {TIMELY_SOURCE, TIMELY_TARGET, TIMELY_HEAD} :
                /\ flag = TIMELY_SOURCE => delay <= integer_squareroot(SLOTS_PER_EPOCH)
                /\ flag = TIMELY_TARGET => target_matches
                /\ flag = TIMELY_HEAD =>
                     /\ target_matches /\ head_known /\ matches
                     /\ delay = MIN_ATTESTATION_INCLUSION_DELAY}
<1>4. timely_flags(s, v.data, x, head, matches, delay)
        = flags(v.data.target.root = x, v.data.beacon_block_root = head)
  BY DEF timely_flags
<1>5. timely_flags(r, w.data, y, head_r, matches, delay)
        = flags(w.data.target.root = y, w.data.beacon_block_root = head_r)
  BY DEF timely_flags
<1>6. flags(v.data.target.root = x, v.data.beacon_block_root = head)
        = flags(w.data.target.root = y, w.data.beacon_block_root = head_r)
  BY <1>1
<1> QED BY <1>4, <1>5, <1>6

(* The payload a vote names.                                                *)
LEMMA RowPayloadIndex ==
  ASSUME NEW name, NEW s, NEW r, Row(name, s, r), NEW v, NEW w, SameVote(name, v, w),
         NEW same_slot, NEW parent_slot
  PROVE  payload_index_matches(r, w.data, same_slot, parent_slot)
           = payload_index_matches(s, v.data, same_slot, parent_slot)
<1>1. /\ r.execution_payload_availability = s.execution_payload_availability
      /\ w.data.index = v.data.index
  BY DEF Row, SameVote
<1> QED BY <1>1 DEF payload_index_matches

(* All a vote's guards and flags.                                           *)
LEMMA RowParticipation ==
  ASSUME NEW name, Distinct(name), NEW s, NEW r, Row(name, s, r),
         NEW v, NEW w, SameVote(name, v, w), NEW delay, NEW parent_slot,
         v.data.target.epoch \in Nat,
         get_attestation_participation_flag_indices(s, v.data, delay, parent_slot).ok
  PROVE  get_attestation_participation_flag_indices(r, w.data, delay, parent_slot)
           = get_attestation_participation_flag_indices(s, v.data, delay, parent_slot)
<1> DEFINE e == v.data.target.epoch
           target(u) == get_block_root(u, e)
           same(u, data) == is_attestation_same_slot(u, data)
           index(u, data) == payload_index_matches(u, data, same(u, data).value, parent_slot)
           head(u, data) == get_block_root_at_slot(u, data.slot)
           known(u, data) == data.source = justified_for(u, e)
           flags(u, data) == timely_flags(u, data, target(u).value, head(u, data).value,
                                          index(u, data).value, delay)
           all(u, data) == get_attestation_participation_flag_indices(u, data, delay, parent_slot)
<1>1. e \in Nat /\ w.data.target.epoch = e /\ w.data.slot = v.data.slot /\ v.data.slot \in Nat
  BY DEF SameVote, SameCheckpoint, is_attestation
<1>2. ASSUME NEW u, NEW data, data.target.epoch = e
      PROVE  /\ all(u, data).ok => /\ target(u).ok /\ same(u, data).ok /\ index(u, data).ok
                                   /\ head(u, data).ok /\ known(u, data)
             /\ /\ target(u).ok /\ same(u, data).ok /\ index(u, data).ok
                /\ head(u, data).ok /\ known(u, data)
                => all(u, data) = Accept(flags(u, data))
  <2> DEFINE last(root) == IF known(u, data) THEN Accept(flags(u, data)) ELSE Reject("source")
  <2> QED BY <1>2 DEF get_attestation_participation_flag_indices, Then, Accept, Reject
<1>3. /\ target(s).ok /\ same(s, v.data).ok /\ index(s, v.data).ok /\ head(s, v.data).ok
      /\ known(s, v.data)
      /\ all(s, v.data) = Accept(flags(s, v.data))
  <2> HIDE DEF target, same, index, head, known, flags
  <2>1. v.data.target.epoch = e
    OBVIOUS
  <2>2. all(s, v.data).ok
    OBVIOUS
  <2> HIDE DEF all, e
  <2> QED BY <1>2, <2>1, <2>2
<1>4. target(r).ok /\ Named(name, target(s).value, target(r).value)
  BY <1>1, <1>3, RowEpochRoot
<1>5. same(r, w.data) = same(s, v.data)
  BY <1>3, RowSameSlot
<1>6. index(r, w.data) = index(s, v.data)
  <2> HIDE DEF same
  <2> QED BY <1>5, RowPayloadIndex
<1>7. head(r, w.data).ok /\ Named(name, head(s, v.data).value, head(r, w.data).value)
  BY <1>1, <1>3, RowRoot
<1>8. known(r, w.data)
  BY <1>3, RowSource
<1>9. flags(r, w.data) = flags(s, v.data)
  <2> HIDE DEF target, head, index
  <2> QED BY <1>4, <1>6, <1>7, RowTimely
<1>10. all(r, w.data) = Accept(flags(r, w.data))
  <2> HIDE DEF target, same, index, head, known, flags, all
  <2> QED BY <1>1, <1>2, <1>3, <1>4, <1>5, <1>6, <1>7, <1>8
<1> HIDE DEF flags, all
<1> QED BY <1>3, <1>9, <1>10 DEF all

(* The flags set.                                                           *)
LEMMA RowSetsParticipation ==
  ASSUME NEW name, NEW s, NEW r, Row(name, s, r), NEW v, NEW w, SameVote(name, v, w),
         NEW flags, set_participation(s, v, flags).ok
  PROVE  /\ set_participation(r, w, flags).ok
         /\ Row(name, set_participation(s, v, flags).value, set_participation(r, w, flags).value)
<1> DEFINE e == get_current_epoch(s)
           indices == get_attesting_indices(v)
           add(participation) ==
             [i \in DOMAIN participation |->
                IF i \in indices THEN participation[i] \cup flags ELSE participation[i]]
           current == add(s.current_epoch_participation)
           previous == add(s.previous_epoch_participation)
           now(u) == [u EXCEPT !.current_epoch_participation = current]
           before_(u) == [u EXCEPT !.previous_epoch_participation = previous]
<1>1. /\ w.data.target.epoch = v.data.target.epoch /\ get_current_epoch(r) = e
      /\ get_attesting_indices(w) = indices
      /\ r.current_epoch_participation = s.current_epoch_participation
      /\ r.previous_epoch_participation = s.previous_epoch_participation
      /\ r.validators = s.validators
  BY RowEpoch, VoteBits DEF SameVote, SameCheckpoint, Row, KeepsParticipation
<1>2. CASE v.data.target.epoch = e
  <2>1. DOMAIN s.current_epoch_participation = DOMAIN s.validators
    BY <1>2 DEF set_participation, Reject
  <2>2. set_participation(s, v, flags) = Accept(now(s))
    BY <1>2, <2>1 DEF set_participation, Row, has_state_fields, state_fields
  <2>3. set_participation(r, w, flags) = Accept(now(r))
    BY <1>1, <1>2, <2>1 DEF set_participation, Row, has_state_fields, state_fields
  <2> HIDE DEF current
  <2>4. Row(name, now(s), now(r))
    BY DEF Row, has_state_fields, state_fields, KeepsParticipation
  <2> QED BY <2>2, <2>3, <2>4 DEF Accept
<1>3. CASE v.data.target.epoch # e
  <2>1. DOMAIN s.previous_epoch_participation = DOMAIN s.validators
    BY <1>3 DEF set_participation, Reject
  <2>2. set_participation(s, v, flags) = Accept(before_(s))
    BY <1>3, <2>1 DEF set_participation, Row, has_state_fields, state_fields
  <2>3. set_participation(r, w, flags) = Accept(before_(r))
    BY <1>1, <1>3, <2>1 DEF set_participation, Row, has_state_fields, state_fields
  <2> HIDE DEF previous
  <2>4. Row(name, before_(s), before_(r))
    BY DEF Row, has_state_fields, state_fields, KeepsParticipation
  <2> QED BY <2>2, <2>3, <2>4 DEF Accept
<1> QED BY <1>2, <1>3

(* One attestation.                                                         *)
LEMMA RowVote ==
  ASSUME NEW name, Distinct(name), NEW s, NEW r, Row(name, s, r),
         NEW v, NEW w, SameVote(name, v, w), NEW parent_slot,
         process_attestation(s, v, parent_slot).ok
  PROVE  /\ process_attestation(r, w, parent_slot).ok
         /\ Row(name, process_attestation(s, v, parent_slot).value,
                      process_attestation(r, w, parent_slot).value)
<1> DEFINE flags(u, x) == get_attestation_participation_flag_indices(
                            u, x.data, u.slot - x.data.slot, parent_slot)
           guards(u, x) ==
             /\ x.data.target.epoch \in {get_current_epoch(u), get_previous_epoch(u)}
             /\ x.data.target.epoch = epoch_at(x.data.slot)
             /\ ~(x.data.slot + MIN_ATTESTATION_INCLUSION_DELAY > u.slot)
             /\ ~(x.data.index >= 2)
             /\ Len(x.committee_bits) = MAX_COMMITTEES_PER_SLOT
             /\ committee_bits_error(x) = "none"
             /\ flags(u, x).ok
             /\ ffg_is_valid_indexed_attestation(u, get_attesting_indices(x))
           set(u, x) == set_participation(u, x, flags(u, x).value)
<1>1. ASSUME NEW u, NEW x
      PROVE  /\ process_attestation(u, x, parent_slot).ok => guards(u, x)
             /\ guards(u, x) => process_attestation(u, x, parent_slot) = set(u, x)
  BY DEF process_attestation, Then, Reject
<1>2. guards(s, v) /\ set(s, v).ok
  <2> HIDE DEF guards, set
  <2> QED BY <1>1
<1>3. /\ w.data.target.epoch = v.data.target.epoch /\ w.data.slot = v.data.slot
      /\ w.data.index = v.data.index /\ w.committee_bits = v.committee_bits
      /\ r.slot = s.slot /\ r.validators = s.validators
      /\ get_current_epoch(r) = get_current_epoch(s)
      /\ get_previous_epoch(r) = get_previous_epoch(s)
      /\ get_current_epoch(s) \in Nat /\ get_previous_epoch(s) \in Nat
      /\ committee_bits_error(w) = committee_bits_error(v)
      /\ get_attesting_indices(w) = get_attesting_indices(v)
  BY RowEpoch, VoteBits DEF SameVote, SameCheckpoint, Row
<1>4. v.data.target.epoch \in Nat
  BY <1>2, <1>3
<1>5. flags(r, w) = flags(s, v)
  BY <1>2, <1>3, <1>4, RowParticipation
<1>6. guards(r, w)
  <2>1. ffg_is_valid_indexed_attestation(r, get_attesting_indices(w))
    BY <1>2, <1>3 DEF ffg_is_valid_indexed_attestation
  <2> HIDE DEF flags
  <2> QED BY <1>2, <1>3, <1>5, <2>1
<1>7. set(r, w).ok /\ Row(name, set(s, v).value, set(r, w).value)
  <2> HIDE DEF flags
  <2> QED BY <1>2, <1>5, RowSetsParticipation
<1>8. process_attestation(s, v, parent_slot) = set(s, v)
      /\ process_attestation(r, w, parent_slot) = set(r, w)
  <2> HIDE DEF guards, set
  <2> QED BY <1>1, <1>2, <1>6
<1> QED BY <1>7, <1>8

(* A whole block: its attestations in their order.                          *)
LEMMA RowBlock ==
  ASSUME NEW name, Distinct(name), NEW s, NEW r, Row(name, s, r),
         NEW b, NEW c, SameBlock(name, b, c), process_block(s, b).ok
  PROVE  /\ process_block(r, c).ok
         /\ Row(name, process_block(s, b).value, process_block(r, c).value)
<1> DEFINE begun(u, d) == begin_block(u, d)
           parent_slot == s.latest_block_header.slot
           voted(u, d) == process_operations(begun(u, d).value, d, u.latest_block_header.slot)
           n == Len(b.attestations)
<1>1. ASSUME NEW u, NEW d
      PROVE  /\ process_block(u, d).ok => begun(u, d).ok
             /\ begun(u, d).ok => process_block(u, d) = voted(u, d)
  BY DEF process_block, Then
<1>2. begun(s, b).ok /\ process_block(s, b) = voted(s, b)
  <2> HIDE DEF begun, voted
  <2> QED BY <1>1
<1>3. begun(r, c).ok /\ Row(name, begun(s, b).value, begun(r, c).value)
  BY <1>2, RowBegins
<1>4. process_block(r, c) = voted(r, c)
  <2> HIDE DEF begun, voted
  <2> QED BY <1>1, <1>3
<1>5. /\ is_block(b) /\ is_block(c) /\ n \in Nat /\ Len(c.attestations) = n
      /\ \A k \in 1..n : SameVote(name, b.attestations[k], c.attestations[k])
      /\ c.deposit_count = b.deposit_count
      /\ c.bls_to_execution_change_count \in {0, b.bls_to_execution_change_count}
      /\ c.payload_attestation_count \in {0, b.payload_attestation_count}
      /\ r.latest_block_header.slot = parent_slot
  BY DEF SameBlock, is_block, Row, SameHeader
<1>6. operations_within_limits(b) /\ operations_within_limits(c)
  <2>1. operations_within_limits(b)
    <3>1. ~operations_within_limits(b) => voted(s, b) = Reject("operations")
      BY DEF process_operations, FoldLeft, MapThenFoldSet
    <3>2. voted(s, b).ok
      BY <1>2
    <3> HIDE DEF voted
    <3> QED BY <3>1, <3>2 DEF Reject
  <2> QED BY <1>5, <2>1, PresetAssumption DEF operations_within_limits
<1> DEFINE one == Accept(begun(s, b).value)
           two == Accept(begun(r, c).value)
<1>7. PICK iter : Loops("operations", parent_slot, one, b.attestations, n, iter)
                  /\ voted(s, b) = iter[1..n]
  BY <1>5, <1>6, ProcessOperationsIsLoop DEF VoteLoop
<1>8. PICK iter_r : Loops("operations", parent_slot, two, c.attestations, n, iter_r)
                    /\ voted(r, c) = iter_r[1..n]
  BY <1>5, <1>6, ProcessOperationsIsLoop DEF VoteLoop
<1> HIDE DEF n, parent_slot, voted
<1>9. iter[1..n].ok
  BY <1>2, <1>7
<1> DEFINE Good(k) == iter_r[1..k].ok /\ Row(name, iter[1..k].value, iter_r[1..k].value)
           failed == {k \in Nat : k <= n /\ ~Good(k)}
<1>10. Good(0)
  <2>1. iter[1..0] = one /\ iter_r[1..0] = two
    <3> HIDE DEF one, two
    <3> QED BY <1>5, <1>7, <1>8, LoopStarts
  <2> HIDE DEF begun
  <2> QED BY <1>3, <2>1 DEF Accept
<1> HIDE DEF one, two
<1>11. ASSUME NEW k \in Nat, k + 1 <= n, Good(k) PROVE Good(k + 1)
  <2>1. k + 1 \in 1..n /\ (k + 1) - 1 = k /\ k \in 0..n /\ k + 1 \in 0..n
    BY <1>5, <1>11
  <2>2. Steps("operations", parent_slot, iter, b.attestations, k)
    BY <1>5, <1>7, <1>11, LoopNext
  <2>3. Steps("operations", parent_slot, iter_r, c.attestations, k)
    BY <1>5, <1>8, <1>11, LoopNext
  <2>4. iter[1..k].ok /\ iter[1..(k + 1)].ok
    BY <1>5, <1>7, <1>9, <2>1, LoopStaysFailed
  <2> DEFINE t == iter[1..k]
             u == iter_r[1..k]
             v == b.attestations[k + 1]
             w == c.attestations[k + 1]
  <2>5. iter[1..(k + 1)] = LoopStep("operations", parent_slot, t, v)
        /\ iter_r[1..(k + 1)] = LoopStep("operations", parent_slot, u, w)
    BY <2>2, <2>3 DEF Steps
  <2>6. t.ok /\ u.ok /\ Row(name, t.value, u.value) /\ SameVote(name, v, w)
    BY <1>5, <1>11, <2>1, <2>4
  <2> HIDE DEF t, u, v, w
  <2>7. iter[1..(k + 1)] = process_attestation(t.value, v, parent_slot)
        /\ iter_r[1..(k + 1)] = process_attestation(u.value, w, parent_slot)
    BY <2>5, <2>6 DEF LoopStep, Then
  <2> QED BY <2>4, <2>6, <2>7, RowVote
<1> HIDE DEF Good
<1>12. failed = {}
  <2> SUFFICES ASSUME failed # {} PROVE FALSE
    OBVIOUS
  <2>1. PICK m \in failed : \A k \in failed : m <= k
    BY LeastNatural
  <2>2. m # 0
    BY <1>10, <2>1
  <2>3. m - 1 \in Nat /\ m - 1 <= n /\ (m - 1) + 1 = m /\ m <= n
    BY <1>5, <2>1, <2>2
  <2>4. Good(m - 1)
    BY <2>1, <2>3
  <2> QED BY <1>11, <2>1, <2>3, <2>4
<1>13. Good(n)
  BY <1>5, <1>12
<1> QED BY <1>2, <1>4, <1>7, <1>8, <1>13 DEF Good

-----------------------------------------------------------------------------
(* The table's own row of a state and of a block.                           *)

AllIn(D, s) ==
  /\ s.latest_block_header.parent_root \in D /\ s.latest_block_header.root \in D
  /\ s.previous_justified_checkpoint.root \in D /\ s.current_justified_checkpoint.root \in D
  /\ s.finalized_checkpoint.root \in D
  /\ \A k \in DOMAIN s.block_roots : s.block_roots[k] \in D
  /\ s.latest_block_hash \in D /\ s.latest_bid_block_hash \in D

Shaped(s) ==
  /\ has_state_fields(s) /\ s.slot \in Nat
  /\ is_checkpoint(s.previous_justified_checkpoint)
  /\ is_checkpoint(s.current_justified_checkpoint)
  /\ is_checkpoint(s.finalized_checkpoint)
  /\ is_header(s.latest_block_header)

(* The row of s under any naming of its roots.                              *)
renamed(name, s) ==
  LET checkpoint(c) == [epoch |-> c.epoch, root |-> name[c.root]]
      h == s.latest_block_header
  IN  [s EXCEPT
         !.latest_block_header = [slot |-> h.slot, proposer_index |-> h.proposer_index,
                                  parent_root |-> name[h.parent_root], root |-> name[h.root]],
         !.previous_justified_checkpoint = checkpoint(s.previous_justified_checkpoint),
         !.current_justified_checkpoint = checkpoint(s.current_justified_checkpoint),
         !.finalized_checkpoint = checkpoint(s.finalized_checkpoint),
         !.block_roots = [k \in DOMAIN s.block_roots |-> name[s.block_roots[k]]],
         !.latest_block_hash = name[s.latest_block_hash],
         !.latest_bid_block_hash = name[s.latest_bid_block_hash]]

(* It is one.                                                               *)
LEMMA RenamedIsRow ==
  ASSUME NEW name, NEW s, Shaped(s), AllIn(DOMAIN name, s)
  PROVE  Row(name, s, renamed(name, s))
<1> DEFINE checkpoint(c) == [epoch |-> c.epoch, root |-> name[c.root]]
           header(h) == [slot |-> h.slot, proposer_index |-> h.proposer_index,
                         parent_root |-> name[h.parent_root], root |-> name[h.root]]
           ring == [k \in DOMAIN s.block_roots |-> name[s.block_roots[k]]]
           p == checkpoint(s.previous_justified_checkpoint)
           j == checkpoint(s.current_justified_checkpoint)
           f == checkpoint(s.finalized_checkpoint)
           h == header(s.latest_block_header)
           hash == name[s.latest_block_hash]
           bid == name[s.latest_bid_block_hash]
           r == [s EXCEPT !.latest_block_header = h, !.previous_justified_checkpoint = p,
                          !.current_justified_checkpoint = j, !.finalized_checkpoint = f,
                          !.block_roots = ring, !.latest_block_hash = hash,
                          !.latest_bid_block_hash = bid]
<1>1. renamed(name, s) = r
  BY DEF renamed
<1>2. ASSUME NEW c, is_checkpoint(c), c.root \in DOMAIN name
      PROVE  SameCheckpoint(name, c, checkpoint(c))
  BY <1>2 DEF SameCheckpoint, is_checkpoint, Named
<1>3. /\ SameCheckpoint(name, s.previous_justified_checkpoint, p)
      /\ SameCheckpoint(name, s.current_justified_checkpoint, j)
      /\ SameCheckpoint(name, s.finalized_checkpoint, f)
  <2> HIDE DEF checkpoint
  <2> QED BY <1>2 DEF Shaped, AllIn
<1>4. SameHeader(name, s.latest_block_header, h)
  BY DEF SameHeader, is_header, Named, Shaped, AllIn
<1>5. SameRing(name, s.block_roots, ring)
  BY DEF SameRing, Named, AllIn
<1>6. Named(name, s.latest_block_hash, hash) /\ Named(name, s.latest_bid_block_hash, bid)
  BY DEF Named, AllIn
<1> HIDE DEF p, j, f, h, ring, hash, bid
<1>7. Row(name, s, r)
  BY <1>3, <1>4, <1>5, <1>6 DEF Shaped, Row, has_state_fields, state_fields, KeepsParticipation
<1> QED BY <1>1, <1>7

(* And there is no other.                                                   *)
LEMMA RowIsRenamed ==
  ASSUME NEW name, NEW s, NEW r, Row(name, s, r)
  PROVE  r = renamed(name, s) /\ Shaped(s) /\ AllIn(DOMAIN name, s)
<1>1. Shaped(s) /\ AllIn(DOMAIN name, s)
  BY DEF Row, Shaped, AllIn, SameCheckpoint, SameHeader, SameRing, Named
<1> DEFINE q == renamed(name, s)
<1>2. Row(name, s, q)
  BY <1>1, RenamedIsRow
<1> HIDE DEF q
<1>3. ASSUME NEW c, NEW d, NEW e, SameCheckpoint(name, c, d), SameCheckpoint(name, c, e)
      PROVE  d = e
  <2>1. d = [epoch |-> d.epoch, root |-> d.root] /\ e = [epoch |-> e.epoch, root |-> e.root]
        /\ d.epoch = e.epoch /\ d.root = e.root
    BY <1>3 DEF SameCheckpoint, is_checkpoint, Named
  <2> QED BY <2>1
<1>4. r.latest_block_header = q.latest_block_header
  <2> DEFINE d == r.latest_block_header
             e == q.latest_block_header
  <2>1. SameHeader(name, s.latest_block_header, d) /\ SameHeader(name, s.latest_block_header, e)
    BY <1>2 DEF Row
  <2> HIDE DEF d, e
  <2>2. /\ d = [slot |-> d.slot, proposer_index |-> d.proposer_index,
                parent_root |-> d.parent_root, root |-> d.root]
        /\ e = [slot |-> e.slot, proposer_index |-> e.proposer_index,
                parent_root |-> e.parent_root, root |-> e.root]
        /\ d.slot = e.slot /\ d.proposer_index = e.proposer_index
        /\ d.parent_root = e.parent_root /\ d.root = e.root
    BY <2>1 DEF SameHeader, is_header, Named
  <2>3. d = e
    BY <2>2
  <2> QED BY <2>3 DEF d, e
<1>5. r.block_roots = q.block_roots
  <2> DEFINE f == r.block_roots
             g == q.block_roots
  <2>1. SameRing(name, s.block_roots, f) /\ SameRing(name, s.block_roots, g)
    BY <1>2 DEF Row
  <2> HIDE DEF f, g
  <2> DEFINE D == DOMAIN s.block_roots
  <2>2. f = [k \in D |-> f[k]] /\ g = [k \in D |-> g[k]] /\ \A k \in D : f[k] = g[k]
    BY <2>1 DEF SameRing, Named
  <2> HIDE DEF D
  <2>3. f = g
    BY <2>2
  <2> QED BY <2>3 DEF f, g
<1>6. /\ r.previous_justified_checkpoint = q.previous_justified_checkpoint
      /\ r.current_justified_checkpoint = q.current_justified_checkpoint
      /\ r.finalized_checkpoint = q.finalized_checkpoint
  BY <1>2, <1>3 DEF Row
<1>7. r.latest_block_hash = q.latest_block_hash /\ r.latest_bid_block_hash = q.latest_bid_block_hash
  BY <1>2 DEF Row, Named
<1>8. \A field \in state_fields : r[field] = q[field]
  BY <1>2, <1>4, <1>5, <1>6, <1>7 DEF Row, KeepsParticipation, state_fields
<1>9. r = [field \in state_fields |-> r[field]] /\ q = [field \in state_fields |-> q[field]]
  BY <1>2 DEF Row, has_state_fields
<1>10. r = q
  BY <1>8, <1>9
<1> QED BY <1>1, <1>10 DEF q

(* A checkpoint by its label.                                               *)
LEMMA LabelledCheckpoint ==
  ASSUME NEW table, NEW c, is_checkpoint(c), c.root \in Range(table)
  PROVE  /\ labelled_checkpoint(table, c) = [epoch |-> c.epoch, root |-> label_of(table)[c.root]]
         /\ SameCheckpoint(label_of(table), c, labelled_checkpoint(table, c))
<1> DEFINE x == label(table, c.root)
           d == [epoch |-> c.epoch, root |-> x]
<1>1. label_of(table)[c.root] = x /\ DOMAIN label_of(table) = Range(table)
  BY DEF label_of
<1>2. labelled_checkpoint(table, c) = [c EXCEPT !.root = x]
  BY DEF labelled_checkpoint
<1> HIDE DEF x
<1>3. [c EXCEPT !.root = x] = d
  BY DEF is_checkpoint
<1>4. SameCheckpoint(label_of(table), c, d)
  BY <1>1 DEF SameCheckpoint, is_checkpoint, Named
<1> QED BY <1>1, <1>2, <1>3, <1>4

(* The row of the bundle is the renaming by labels.                         *)
LEMMA RetainedIsRenamed ==
  ASSUME NEW table, NEW s, Shaped(s), AllIn(Range(table), s)
  PROVE  retained(table, s) = renamed(label_of(table), s)
<1> DEFINE name == label_of(table)
           header == [s.latest_block_header EXCEPT !.parent_root = label(table, @),
                                                   !.root = label(table, @)]
           h == [slot |-> s.latest_block_header.slot,
                 proposer_index |-> s.latest_block_header.proposer_index,
                 parent_root |-> name[s.latest_block_header.parent_root],
                 root |-> name[s.latest_block_header.root]]
           p == labelled_checkpoint(table, s.previous_justified_checkpoint)
           j == labelled_checkpoint(table, s.current_justified_checkpoint)
           f == labelled_checkpoint(table, s.finalized_checkpoint)
           ring == [k \in DOMAIN s.block_roots |-> label(table, s.block_roots[k])]
           hash == label(table, s.latest_block_hash)
           bid == label(table, s.latest_bid_block_hash)
           row == [s EXCEPT !.latest_block_header = header, !.previous_justified_checkpoint = p,
                            !.current_justified_checkpoint = j, !.finalized_checkpoint = f,
                            !.block_roots = ring, !.latest_block_hash = hash,
                            !.latest_bid_block_hash = bid]
<1>1. \A x \in Range(table) : name[x] = label(table, x)
  BY DEF label_of
<1>2. retained(table, s) = row
  BY DEF retained, Shaped, has_state_fields, state_fields
<1> DEFINE q == [s EXCEPT !.latest_block_header = h,
                   !.previous_justified_checkpoint =
                     [epoch |-> s.previous_justified_checkpoint.epoch,
                      root |-> name[s.previous_justified_checkpoint.root]],
                   !.current_justified_checkpoint =
                     [epoch |-> s.current_justified_checkpoint.epoch,
                      root |-> name[s.current_justified_checkpoint.root]],
                   !.finalized_checkpoint =
                     [epoch |-> s.finalized_checkpoint.epoch,
                      root |-> name[s.finalized_checkpoint.root]],
                   !.block_roots = [k \in DOMAIN s.block_roots |-> name[s.block_roots[k]]],
                   !.latest_block_hash = name[s.latest_block_hash],
                   !.latest_bid_block_hash = name[s.latest_bid_block_hash]]
<1>3. renamed(name, s) = q
  BY DEF renamed
<1>4. /\ p = [epoch |-> s.previous_justified_checkpoint.epoch,
              root |-> name[s.previous_justified_checkpoint.root]]
      /\ j = [epoch |-> s.current_justified_checkpoint.epoch,
              root |-> name[s.current_justified_checkpoint.root]]
      /\ f = [epoch |-> s.finalized_checkpoint.epoch, root |-> name[s.finalized_checkpoint.root]]
  BY LabelledCheckpoint DEF Shaped, AllIn
<1>5. header = h
  <2> DEFINE o == s.latest_block_header
             x == label(table, o.parent_root)
             y == label(table, o.root)
  <2>1. name[o.parent_root] = x /\ name[o.root] = y
    BY <1>1 DEF AllIn
  <2>2. header = [o EXCEPT !.parent_root = x, !.root = y]
    BY DEF Shaped, is_header
  <2>3. o = [slot |-> o.slot, proposer_index |-> o.proposer_index,
             parent_root |-> o.parent_root, root |-> o.root]
    BY DEF Shaped, is_header
  <2> HIDE DEF header, o, x, y
  <2>4. header = [slot |-> o.slot, proposer_index |-> o.proposer_index,
                  parent_root |-> x, root |-> y]
    BY <2>2, <2>3
  <2> QED BY <2>1, <2>4 DEF o
<1>6. ring = [k \in DOMAIN s.block_roots |-> name[s.block_roots[k]]]
  BY <1>1 DEF AllIn
<1>7. hash = name[s.latest_block_hash] /\ bid = name[s.latest_bid_block_hash]
  BY <1>1 DEF AllIn
<1> HIDE DEF name, header, h, p, j, f, ring, hash, bid
<1>8. row = q
  BY <1>4, <1>5, <1>6, <1>7
<1> HIDE DEF row, q
<1> QED BY <1>2, <1>3, <1>8 DEF name

VoteIn(D, v) ==
  v.data.beacon_block_root \in D /\ v.data.source.root \in D /\ v.data.target.root \in D

BlockIn(D, b) ==
  /\ b.parent_root \in D /\ b.root \in D /\ b.parent_block_hash \in D /\ b.block_hash \in D
  /\ \A k \in 1..Len(b.attestations) : VoteIn(D, b.attestations[k])

wire_vote(table, vote) ==
  [vote EXCEPT !.data.beacon_block_root = label(table, @),
               !.data.source = labelled_checkpoint(table, @),
               !.data.target = labelled_checkpoint(table, @)]

(* An attestation on the wire.                                              *)
LEMMA WireVote ==
  ASSUME NEW table, NEW v, is_attestation(v), VoteIn(Range(table), v)
  PROVE  SameVote(label_of(table), v, wire_vote(table, v))
<1> DEFINE name == label_of(table)
           x == label(table, v.data.beacon_block_root)
           c == labelled_checkpoint(table, v.data.source)
           d == labelled_checkpoint(table, v.data.target)
           data == [slot |-> v.data.slot, index |-> v.data.index, beacon_block_root |-> x,
                    source |-> c, target |-> d]
           w == [aggregation_bits |-> v.aggregation_bits,
                 committee_bits |-> v.committee_bits, data |-> data]
<1>1. wire_vote(table, v) = [v EXCEPT !.data = [v.data EXCEPT !.beacon_block_root = x,
                                                  !.source = c, !.target = d]]
  BY DEF wire_vote, is_attestation
<1>2. Named(name, v.data.beacon_block_root, x)
  BY DEF Named, label_of, VoteIn
<1>3. SameCheckpoint(name, v.data.source, c) /\ SameCheckpoint(name, v.data.target, d)
  BY LabelledCheckpoint DEF is_attestation, VoteIn
<1> HIDE DEF name, x, c, d
<1>4. [v.data EXCEPT !.beacon_block_root = x, !.source = c, !.target = d] = data
  <2> DEFINE fields == {"slot", "index", "beacon_block_root", "source", "target"}
             o == v.data
             u == [o EXCEPT !.beacon_block_root = x, !.source = c, !.target = d]
  <2>1. o = [field \in fields |-> o[field]]
    <3> DEFINE p == [slot |-> o.slot, index |-> o.index,
                     beacon_block_root |-> o.beacon_block_root,
                     source |-> o.source, target |-> o.target]
    <3>1. o = p
      BY DEF is_attestation
    <3>2. DOMAIN p = fields /\ p = [field \in DOMAIN p |-> p[field]]
      OBVIOUS
    <3> HIDE DEF o, p, fields
    <3> QED BY <3>1, <3>2
  <2>2. data = [field \in fields |-> data[field]]
    OBVIOUS
  <2> HIDE DEF o
  <2>3. /\ u = [field \in fields |-> u[field]]
        /\ u.slot = o.slot /\ u.index = o.index /\ u.beacon_block_root = x
        /\ u.source = c /\ u.target = d
    BY <2>1
  <2>4. /\ data.slot = o.slot /\ data.index = o.index /\ data.beacon_block_root = x
        /\ data.source = c /\ data.target = d
    BY DEF o
  <2> HIDE DEF u, data
  <2>5. \A field \in fields : u[field] = data[field]
    BY <2>3, <2>4
  <2> HIDE DEF fields
  <2>6. u = data
    BY <2>2, <2>3, <2>5
  <2> QED BY <2>6 DEF u, o
<1>5. wire_vote(table, v) = w
  <2>1. wire_vote(table, v) = [v EXCEPT !.data = data]
    BY <1>1, <1>4
  <2> HIDE DEF data
  <2> QED BY <2>1 DEF is_attestation
<1>6. is_checkpoint(c) /\ is_checkpoint(d)
  BY <1>3 DEF SameCheckpoint
<1>7. SameVote(name, v, w)
  BY <1>2, <1>3, <1>6 DEF SameVote, is_attestation
<1> QED BY <1>5, <1>7 DEF name

(* A block on the wire.                                                     *)
LEMMA WireIsSameBlock ==
  ASSUME NEW table, NEW b, is_block(b), BlockIn(Range(table), b)
  PROVE  SameBlock(label_of(table), b, wire(table, b))
<1> DEFINE name == label_of(table)
           n == Len(b.attestations)
           votes == [k \in 1..n |-> wire_vote(table, b.attestations[k])]
           c == [b EXCEPT
                   !.parent_root = label(table, b.parent_root), !.root = label(table, b.root),
                   !.parent_block_hash = label(table, b.parent_block_hash),
                   !.block_hash = label(table, b.block_hash),
                   !.bls_to_execution_change_count = 0,
                   !.payload_attestation_count = 0, !.attestations = votes]
<1>1. n \in Nat /\ DOMAIN b.attestations = 1..n
      /\ \A k \in 1..n : is_attestation(b.attestations[k])
  BY DEF is_block
<1>2. wire(table, b) = c
  BY <1>1 DEF wire, wire_vote, is_block, block_fields
<1>3. \A k \in 1..n : SameVote(name, b.attestations[k], votes[k])
  <2> SUFFICES ASSUME NEW k \in 1..n
               PROVE  SameVote(name, b.attestations[k], wire_vote(table, b.attestations[k]))
    OBVIOUS
  <2> QED BY <1>1, WireVote DEF BlockIn
<1>4. Len(votes) = n /\ DOMAIN votes = 1..n
  <2> DEFINE S == {wire_vote(table, b.attestations[k]) : k \in 1..n}
  <2>1. votes \in [1..n -> S]
    OBVIOUS
  <2> HIDE DEF votes, S, n
  <2>2. votes \in Seq(S)
    BY <1>1, <2>1, SeqDef
  <2>3. Len(votes) \in Nat /\ DOMAIN votes = 1..Len(votes) /\ DOMAIN votes = 1..n
    BY <2>1, <2>2, LenProperties
  <2> HIDE DEF votes
  <2> DEFINE m == Len(votes)
  <2>4. m \in Nat /\ 1..m = 1..n
    BY <2>3
  <2> HIDE DEF m
  <2>5. m = n
    BY <1>1, <2>4
  <2> QED BY <2>3, <2>5 DEF m
<1>5. /\ Named(name, b.parent_root, label(table, b.parent_root))
      /\ Named(name, b.root, label(table, b.root))
      /\ Named(name, b.parent_block_hash, label(table, b.parent_block_hash))
      /\ Named(name, b.block_hash, label(table, b.block_hash))
  BY DEF Named, label_of, BlockIn
<1> HIDE DEF votes, name
<1>6. /\ c = [field \in block_fields |-> c[field]]
      /\ c.slot = b.slot /\ c.proposer_index = b.proposer_index
      /\ c.parent_requests_empty = b.parent_requests_empty
      /\ c.parent_requests_match = b.parent_requests_match
      /\ c.deposit_count = b.deposit_count
      /\ c.registry_operations = b.registry_operations
      /\ c.bls_to_execution_change_count = 0 /\ c.payload_attestation_count = 0
      /\ c.parent_root = label(table, b.parent_root) /\ c.root = label(table, b.root)
      /\ c.parent_block_hash = label(table, b.parent_block_hash)
      /\ c.block_hash = label(table, b.block_hash)
      /\ c.attestations = votes
  BY DEF is_block, block_fields
<1> HIDE DEF c, n
<1>7. is_block(c)
  <2>1. \A k \in 1..n : is_attestation(votes[k])
    BY <1>3 DEF SameVote
  <2>2. b.slot \in Nat
    BY DEF is_block
  <2> QED BY <1>1, <1>4, <1>6, <2>1, <2>2 DEF is_block
<1>8. SameBlock(name, b, c)
  BY <1>3, <1>4, <1>5, <1>6, <1>7 DEF SameBlock, n
<1> QED BY <1>2, <1>8 DEF name

(* The length checks do not look at roots.                                  *)
LEMMA RowWellFormed ==
  ASSUME NEW name, NEW s, NEW r, Row(name, s, r), IsWellFormed(s)
  PROVE  IsWellFormed(r)
<1>1. DOMAIN r.block_roots = DOMAIN s.block_roots
  BY DEF Row, SameRing
<1>2. /\ r.justification_bits = s.justification_bits /\ r.validators = s.validators
      /\ r.previous_epoch_participation = s.previous_epoch_participation
      /\ r.current_epoch_participation = s.current_epoch_participation
      /\ r.execution_payload_availability = s.execution_payload_availability
  BY DEF Row, KeepsParticipation
<1> QED BY <1>1, <1>2 DEF IsWellFormed

(* What state_transition returns for a state and a block, it returns for    *)
(* their rows, as a row, if the oracle accepts it.                          *)
LEMMA RowTransition ==
  ASSUME NEW name, Distinct(name), NEW s, NEW r, Row(name, s, r),
         NEW b, NEW c, SameBlock(name, b, c), NEW t, ffg_state_transition(s, b) = Accept(t)
  PROVE  \E a, a_r, t_r :
           /\ Row(name, a, a_r) /\ Row(name, t, t_r)
           /\ oracle_accepts(a, b, t)
           /\ oracle_accepts(a_r, c, t_r) => ffg_state_transition(r, c) = Accept(t_r)
<1> DEFINE slots(u, d) == ffg_process_slots(u, d.slot)
           blocked(u, d) == process_block(slots(u, d).value, d)
           guards(u, d) == /\ ~(u.slot > UINT64_MAX \/ d.slot > UINT64_MAX)
                           /\ IsWellFormed(u) /\ in_fixed_scope(d)
                           /\ slots(u, d).ok /\ blocked(u, d).ok
           judged(u, d) == oracle_accepts(slots(u, d).value, d, blocked(u, d).value)
           whole(u, d) == ffg_state_transition(u, d)
<1>1. ASSUME NEW u, NEW d
      PROVE  /\ whole(u, d).ok => /\ guards(u, d) /\ judged(u, d)
             /\ guards(u, d) /\ judged(u, d) => whole(u, d) = Accept(blocked(u, d).value)
  BY DEF ffg_state_transition, Then, Accept, Reject
<1>2. /\ guards(s, b) /\ judged(s, b)
      /\ Accept(t) = Accept(blocked(s, b).value)
  <2>1. whole(s, b).ok /\ whole(s, b) = Accept(t)
    BY DEF Accept
  <2> HIDE DEF guards, judged, blocked, whole
  <2> QED BY <1>1, <2>1
<1>3. blocked(s, b).value = t
  <2> HIDE DEF blocked
  <2> QED BY <1>2 DEF Accept
<1>4. /\ r.slot = s.slot /\ c.slot = b.slot /\ b.slot \in Nat
      /\ in_fixed_scope(b) => in_fixed_scope(c)
  BY DEF Row, SameBlock, is_block, in_fixed_scope
<1>5. slots(r, c).ok /\ Row(name, slots(s, b).value, slots(r, c).value)
  <2>1. ffg_process_slots(s, b.slot).ok
    BY <1>2
  <2>2. ffg_process_slots(r, b.slot).ok /\ Row(name, at(s, b.slot), at(r, b.slot))
    BY <1>4, <2>1, RowSlots
  <2> QED BY <1>4, <2>2 DEF at
<1>6. blocked(r, c).ok /\ Row(name, blocked(s, b).value, blocked(r, c).value)
  <2> HIDE DEF slots
  <2> QED BY <1>2, <1>5, RowBlock
<1>7. guards(r, c)
  <2> HIDE DEF slots, blocked
  <2> QED BY <1>2, <1>4, <1>5, <1>6, RowWellFormed
<1> DEFINE a == slots(s, b).value
           a_r == slots(r, c).value
           t_r == blocked(r, c).value
<1>8. Row(name, a, a_r) /\ Row(name, t, t_r)
  <2> HIDE DEF slots, blocked
  <2> QED BY <1>3, <1>5, <1>6
<1>9. oracle_accepts(a, b, t)
  BY <1>2, <1>3
<1>10. oracle_accepts(a_r, c, t_r) => ffg_state_transition(r, c) = Accept(t_r)
  <2>1. judged(r, c) <=> oracle_accepts(a_r, c, t_r)
    OBVIOUS
  <2>2. judged(r, c) => whole(r, c) = Accept(t_r)
    <3> HIDE DEF guards, judged, whole, blocked
    <3> QED BY <1>1, <1>7
  <2> HIDE DEF a_r, t_r, judged
  <2> QED BY <2>1, <2>2
<1> HIDE DEF a, a_r, t_r
<1> QED BY <1>8, <1>9, <1>10

(* Every accepted state has the fields of one: the run is its own row, with *)
(* every root named by itself.                                              *)
LEMMA TransitionShapes ==
  ASSUME NEW s, NEW b, NEW t, Shaped(s), is_block(b), ffg_state_transition(s, b) = Accept(t)
  PROVE  Shaped(t)
<1> DEFINE h == s.latest_block_header
           n == Len(b.attestations)
           D == {h.parent_root, h.root, s.previous_justified_checkpoint.root,
                 s.current_justified_checkpoint.root, s.finalized_checkpoint.root,
                 s.latest_block_hash, s.latest_bid_block_hash,
                 b.parent_root, b.root, b.parent_block_hash, b.block_hash}
                \cup {s.block_roots[k] : k \in DOMAIN s.block_roots}
                \cup {b.attestations[k].data.beacon_block_root : k \in 1..n}
                \cup {b.attestations[k].data.source.root : k \in 1..n}
                \cup {b.attestations[k].data.target.root : k \in 1..n}
           name == [x \in D |-> x]
<1>1. AllIn(D, s)
  BY DEF AllIn
<1>2. /\ b.parent_root \in D /\ b.root \in D /\ b.parent_block_hash \in D /\ b.block_hash \in D
      /\ \A k \in 1..n : VoteIn(D, b.attestations[k])
  BY DEF VoteIn
<1> HIDE DEF D
<1>3. Distinct(name) /\ DOMAIN name = D /\ \A x \in D : Named(name, x, x)
  BY DEF Distinct, Named
<1> HIDE DEF name
<1>4. SameBlock(name, b, b)
  <2>1. ASSUME NEW c, is_checkpoint(c), c.root \in D PROVE SameCheckpoint(name, c, c)
    BY <1>3, <2>1 DEF SameCheckpoint
  <2>2. ASSUME NEW k \in 1..n PROVE SameVote(name, b.attestations[k], b.attestations[k])
    <3> DEFINE v == b.attestations[k]
    <3>1. is_attestation(v) /\ VoteIn(D, v)
      BY <1>2 DEF is_block
    <3> HIDE DEF v
    <3>2. is_checkpoint(v.data.source) /\ is_checkpoint(v.data.target)
      BY <3>1 DEF is_attestation
    <3> QED BY <1>3, <2>1, <3>1, <3>2 DEF SameVote, VoteIn, v
  <2> QED BY <1>2, <1>3, <2>2 DEF SameBlock
<1>5. Row(name, s, renamed(name, s))
  BY <1>1, <1>3, RenamedIsRow
<1>6. \E t_r : Row(name, t, t_r)
  BY <1>3, <1>4, <1>5, RowTransition
<1> QED BY <1>6, RowIsRenamed

(* The verdict of the oracle on a row is the one recorded for the block     *)
(* that was accepted: the checks outside the projection ran on the roots.   *)
OracleReadsNoRoot ==
  \A table, s, b, r :
    /\ IsList(table)
    /\ Shaped(s) /\ AllIn(Range(table), s)
    /\ is_block(b) /\ BlockIn(Range(table), b)
    /\ Shaped(r) /\ AllIn(Range(table), r)
    /\ oracle_accepts(s, b, r)
    => oracle_accepts(retained(table, s), wire(table, b), retained(table, r))

(* The row of an accepted block gives the row of its state.                 *)
LEMMA RowsAreTransitions ==
  ASSUME OracleReadsNoRoot, NEW table, NEW s, NEW b, NEW t,
         IsList(table), Shaped(s), AllIn(Range(table), s), is_block(b), BlockIn(Range(table), b),
         ffg_state_transition(s, b) = Accept(t)
  PROVE  ffg_state_transition(retained(table, s), wire(table, b)) = Accept(retained(table, t))
<1> DEFINE name == label_of(table)
           r == retained(table, s)
           c == wire(table, b)
<1>1. DOMAIN name = Range(table)
  BY DEF label_of
<1>2. Distinct(name)
  BY LabelsDiffer
<1> HIDE DEF name
<1>3. Row(name, s, r)
  BY <1>1, RenamedIsRow, RetainedIsRenamed DEF name
<1>4. SameBlock(name, b, c)
  BY WireIsSameBlock DEF name
<1> HIDE DEF r, c
<1>5. PICK a, a_r, t_r :
        /\ Row(name, a, a_r) /\ Row(name, t, t_r)
        /\ oracle_accepts(a, b, t)
        /\ oracle_accepts(a_r, c, t_r) => ffg_state_transition(r, c) = Accept(t_r)
  BY <1>2, <1>3, <1>4, RowTransition
<1>6. ASSUME NEW u, NEW u_r, Row(name, u, u_r)
      PROVE  Shaped(u) /\ AllIn(Range(table), u) /\ u_r = retained(table, u)
  <2>1. u_r = renamed(name, u) /\ Shaped(u) /\ AllIn(Range(table), u)
    BY <1>1, <1>6, RowIsRenamed
  <2> QED BY <2>1, RetainedIsRenamed DEF name
<1>7. /\ Shaped(a) /\ AllIn(Range(table), a) /\ a_r = retained(table, a)
      /\ Shaped(t) /\ AllIn(Range(table), t) /\ t_r = retained(table, t)
  BY <1>5, <1>6
<1>8. oracle_accepts(a_r, c, t_r)
  BY <1>5, <1>7 DEF OracleReadsNoRoot, c
<1> QED BY <1>5, <1>7, <1>8 DEF r, c

RowsInv ==
  /\ IsList(labels)
  /\ Shaped(before.state)
  /\ phase = "idle" => Shaped(state)
  /\ block_accepted =>
       /\ is_block(block)
       /\ ffg_state_transition(before.state, block) = Accept(state)
       /\ AllIn(Range(labels), before.state)
       /\ BlockIn(Range(labels), block)

LEMMA InitRowsInv == BundleInit => RowsInv
<1> SUFFICES ASSUME BundleInit PROVE RowsInv
  OBVIOUS
<1>1. state = GENESIS /\ before.state = GENESIS /\ labels = <<0>>
  BY DEF BundleInit, Init
<1>2. <<0>> \in Seq(Int)
  OBVIOUS
<1>3. Shaped(GENESIS)
  BY GenesisAssumption DEF Shaped
<1> QED BY <1>1, <1>2, <1>3 DEF RowsInv, IsList, block_accepted

LEMMA NextRowsInv ==
  IInv /\ RootInv /\ CallInv /\ RowsInv /\ [BundleNext]_bundle_vars => RowsInv'
<1> SUFFICES ASSUME IInv, RootInv, CallInv, RowsInv, [BundleNext]_bundle_vars PROVE RowsInv'
  OBVIOUS
<1>1. CASE AcceptBlock
  <2>1. /\ phase = "operations" /\ phase' = "idle" /\ state' = state /\ before' = before
        /\ block' = block
        /\ labels' = with_labels(with_votes(labels, block.attestations),
                       roots_of_state(before.state) \o roots_of_block(block)
                         \o roots_of_state(state))
    BY <1>1 DEF AcceptBlock, Return
  <2>2. is_block(block) /\ IsWellFormed(before.state)
    BY <2>1 DEF CallInv
  <2>3. \/ ffg_state_transition(before.state, block) = Accept(state)
        \/ state = before.state
    BY <2>1, BundleIsCalls, CallEnds
  <2> DEFINE votes == block.attestations
             n == Len(votes)
             x == roots_of_state(before.state)
             y == roots_of_block(block)
             z == roots_of_state(state)
             voted == with_votes(labels, votes)
  <2>4. n \in Nat /\ DOMAIN votes = 1..n
    BY <2>2 DEF is_block
  <2>5. /\ IsList(voted)
        /\ \A k \in 1..n : Range(roots_of_vote(votes[k])) \subseteq Range(voted)
    <3>1. IsList(labels)
      BY DEF RowsInv
    <3> HIDE DEF votes, n
    <3> QED BY <2>4, <3>1, WithVotes
  <2>6. IsList(x) /\ IsList(y) /\ IsList(z)
    BY RootsOfState, RootsOfBlock
  <2> HIDE DEF votes, n, x, y, z, voted
  <2>7. /\ IsList(x \o y) /\ Range(x) \subseteq Range(x \o y) /\ Range(y) \subseteq Range(x \o y)
        /\ IsList(x \o y \o z) /\ Range(x \o y) \subseteq Range(x \o y \o z)
    BY <2>6, ListsConcatenate
  <2>8. /\ IsList(labels')
        /\ Range(voted) \subseteq Range(labels')
        /\ Range(x \o y \o z) \subseteq Range(labels')
    <3>1. labels' = with_labels(voted, x \o y \o z)
      BY <2>1 DEF votes, voted, x, y, z
    <3> QED BY <2>5, <2>7, <3>1, WithLabels
  <2> DEFINE D == Range(labels')
  <2>9. Range(x) \subseteq D /\ Range(y) \subseteq D
    BY <2>7, <2>8
  <2>10. \A k \in 1..n : Range(roots_of_vote(votes[k])) \subseteq D
    BY <2>5, <2>8
  <2> HIDE DEF D
  <2>11. AllIn(D, before.state)
    <3>1. DOMAIN before.state.block_roots = Ring
      BY <2>2 DEF IsWellFormed
    <3> QED BY <2>9, <3>1, RootsOfState DEF AllIn, x
  <2>12. BlockIn(D, block)
    <3>1. \A k \in 1..n : VoteIn(D, votes[k])
      BY <2>10, RootsOfVote DEF VoteIn
    <3> QED BY <2>9, <3>1, RootsOfBlock DEF BlockIn, y, n, votes
  <2>13. Shaped(before.state)
    BY DEF RowsInv
  <2>14. Shaped(state)
    BY <2>2, <2>3, <2>13, TransitionShapes
  <2> QED BY <2>1, <2>2, <2>3, <2>8, <2>11, <2>12, <2>13, <2>14
          DEF RowsInv, block_accepted, D
<1>2. CASE RestOfCall
  <2>1. ASSUME NEW new_block, BeginCall(new_block) PROVE RowsInv'
    BY <1>2, <2>1 DEF BeginCall, RestOfCall, RowsInv, block_accepted
  <2>2. CASE AdvanceSlot
    BY <1>2, <2>2 DEF AdvanceSlot, RestOfCall, RowsInv, block_accepted
  <2>3. CASE BeginBlock
    BY <1>2, <2>3 DEF BeginBlock, RestOfCall, RowsInv, block_accepted
  <2>4. CASE NextAttestation
    BY <1>2, <2>4 DEF NextAttestation, RestOfCall, RowsInv, block_accepted
  <2>5. CASE Raise
    BY <1>2, <2>5 DEF Raise, RestOfCall, RowsInv, block_accepted
  <2> QED BY <1>2, <2>1, <2>2, <2>3, <2>4, <2>5 DEF RestOfCall
<1>3. CASE UNCHANGED bundle_vars
  BY <1>3 DEF bundle_vars, vars, RowsInv, block_accepted
<1> QED BY <1>1, <1>2, <1>3 DEF BundleNext

(* What the bundle supposes of one transition, in every run: the laws of    *)
(* its slots, and that the row of an accepted block, with every root and    *)
(* hash replaced by its label, gives the labelled state after it, as long   *)
(* as the recorded verdict of the oracle is that of the run.                *)
THEOREM BundleIsSound == OracleReadsNoRoot => (BundleSpec => []BundleSound)
<1>1. ASSUME OracleReadsNoRoot, RowsInv PROVE RowsReproduceRun
  BY <1>1, RowsAreTransitions DEF RowsInv, RowsReproduceRun
<1>2. OracleReadsNoRoot /\ RowsInv /\ ExternalsCoherent => BundleSound
  BY <1>1 DEF BundleSound
<1>3. BundleSpec => []RowsInv
  BY InitRowsInv, NextRowsInv, BundleInvariants, PTL DEF BundleSpec
<1> SUFFICES ASSUME OracleReadsNoRoot PROVE BundleSpec => []BundleSound
  OBVIOUS
<1>4. RowsInv /\ ExternalsCoherent => BundleSound
  BY <1>2
<1> QED BY <1>3, <1>4, ExternalsAreCoherent, PTL
=============================================================================
