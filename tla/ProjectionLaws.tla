---------------------------- MODULE ProjectionLaws ----------------------------
(***************************************************************************)
(* check_run: what the checkpoints of every accepted block, the store's    *)
(* reads and the votes of the chains must satisfy together.  A law names   *)
(* one accepted block; in a run whose scope excludes the law it may fail.  *)
(***************************************************************************)
EXTENDS Projection

excluded(r, law) == r.later \/ law \in r.out_of_scope

(* The record is not FAIL. *)
passes(r, law, ok) == ok \/ excluded(r, law)

-----------------------------------------------------------------------------
(* The laws of AcceptedBlockFFGState. *)

selectors_of(r, root) == [field \in Selectors |-> selector(r, root, field)]

earlier_blocks(r, root) ==
  {seed \in chain(r, root) : epoch_of(r, seed) < epoch_of(r, root)}

checkpoint_epoch(r, root) ==
  \A e \in r.anchor.epoch..epoch_of(r, root)+2 : checkpoint_at(r, root, e).epoch = e

formed_evidence(r, root) ==
  \A c \in r.evidence[root].formed :
    c = r.anchor \/ (c \in available(r, root) /\ ancestor(r, root, c.root))

selector_mem(r, root, field) == selector(r, root, field) \in available(r, root)

(* Nothing is realized before the end of epoch 2. *)
realized_justified_max(r, root) ==
  epoch_of(r, root) > 2 =>
    \A seed \in earlier_blocks(r, root) : \A c \in available(r, seed) :
      c.epoch <= selector(r, root, "realized_justified").epoch

realized_justified_realized(r, root) ==
  LET rj == selector(r, root, "realized_justified")
  IN  \/ rj = r.anchor
      \/ /\ epoch_of(r, root) > 2
         /\ \E seed \in earlier_blocks(r, root) : rj \in available(r, seed)

unrealized_justified_max(r, root) ==
  epoch_of(r, root) > 1 =>
    \A c \in available(r, root) : c.epoch <= selector(r, root, "unrealized_justified").epoch

unrealized_justified_mono(r, root) ==
  \A seed \in chain(r, root) :
    selector(r, seed, "unrealized_justified").epoch
      <= selector(r, root, "unrealized_justified").epoch

unrealized_justified_later_realized(r, root) ==
  \A seed \in earlier_blocks(r, root) :
    selector(r, seed, "unrealized_justified").epoch
      <= selector(r, root, "realized_justified").epoch

state_laws(r, root) ==
  LET s == selectors_of(r, root)
      rj == s["realized_justified"]
      uj == s["unrealized_justified"]
      rf == s["realized_finalized"]
      uf == s["unrealized_finalized"]
      epoch == epoch_of(r, root)
  IN  [checkpoint_epoch |-> checkpoint_epoch(r, root),
       formed_evidence |-> formed_evidence(r, root),
       selectors_mem |-> \A field \in Selectors : selector_mem(r, root, field),
       realized_justified_anchor_or_before |-> rj = r.anchor \/ rj.epoch < epoch,
       realized_justified_max |-> realized_justified_max(r, root),
       realized_justified_realized |-> realized_justified_realized(r, root),
       unrealized_justified_max |-> unrealized_justified_max(r, root),
       unrealized_justified_early |-> epoch <= 1 => uj = rj,
       realized_justified_epoch_le_unrealized |-> rj.epoch <= uj.epoch,
       unrealized_justified_mono |-> unrealized_justified_mono(r, root),
       unrealized_justified_epoch_le_later_realized |->
         unrealized_justified_later_realized(r, root),
       available_checkpoint_epoch_le_block |-> \A c \in available(r, root) : c.epoch <= epoch,
       realized_finalized_evidence |-> finalized_evidence(r, root, rf, epoch, TRUE),
       unrealized_finalized_evidence |-> finalized_evidence(r, root, uf, epoch, FALSE),
       epoch_one_finalization_one_step |->
         epoch_one_one_step(r, root, rf) /\ epoch_one_one_step(r, root, uf),
       realized_finalized_epoch_le_realized_justified |-> rf.epoch <= rj.epoch,
       unrealized_finalized_epoch_le_unrealized_justified |-> uf.epoch <= uj.epoch,
       unrealized_finalized_epoch_le_realized_justified |-> uf.epoch <= rj.epoch]

-----------------------------------------------------------------------------
(* The other laws. *)

(* The checkpoints that process_slots to a later epoch justifies. *)
realizable(r, root) ==
  {normalized(r, cp(process_slots(state_of(r, root), e * E).current_justified_checkpoint)) :
     e \in epoch_of(r, root)+1..epoch_of(r, root)+3}

RealizableBySlotRun(r, root) ==
  \A c \in realizable(r, root) : c = r.anchor \/ c \in r.evidence[root].formed

(* The vote of one signer of an aggregate: only its own bit is set. *)
single(attestation, i) ==
  LET members == T!selected_members(attestation)
  IN  [attestation EXCEPT !.aggregation_bits =
         [k \in DOMAIN @ |-> members[k] = i]]

split_ok(r, root, vote, i) ==
  LET indices == T!get_attesting_indices(single(vote.attestation, i))
  IN  /\ indices = {i}
      /\ T!ffg_is_valid_indexed_attestation(state_of(r, root).ffg, indices)

aggregates_split(r, root) ==
  \A vote \in Range(r.votes[root]) : \A i \in vote.signers : split_ok(r, root, vote, i)

(* A formed checkpoint has a signer of an earlier vote for it on the chain. *)
evidence_causal(r, root) ==
  \A c \in r.evidence[root].formed \ {r.anchor} :
    \E carrier \in chain(r, root) : \E vote \in Range(r.votes[carrier]) :
      /\ cp(vote.attestation.data.target) = c
      /\ vote.attestation.data.slot < slot_of(r, root)
      /\ \E i \in vote.signers : split_ok(r, carrier, vote, i)

(* The checkpoint a store read gives, read again from the block's state. *)
raw_read(r, root, field) ==
  LET state == state_of(r, root)
      read == IF field \in {"unrealized_justified", "unrealized_finalized"}
              THEN process_justification_and_finalization(state) ELSE state
  IN  IF field \in {"realized_justified", "unrealized_justified"}
      THEN cp(read.current_justified_checkpoint) ELSE cp(read.finalized_checkpoint)

reads_agree(r, root) ==
  /\ \A field \in Selectors : reads_as(raw_read(r, root, field), selector(r, root, field))
  /\ root = r.anchor_root =>
       reads_as(cp(r.store.unrealized_justifications[root]),
                selector(r, root, "unrealized_justified"))

ImportedBlockFinalizationLag(r, root) ==
  LET raw == cp(state_of(r, root).finalized_checkpoint)
  IN  reads_as(raw, r.anchor) \/ raw.epoch + 2 <= epoch_of(r, root)

checkpoint_root_accepted(r, root) ==
  \A e \in r.anchor.epoch..epoch_of(r, root)+2 :
    checkpoint_at(r, root, e).root \in roots_of(r)

checkpoint_comp(r, root) ==
  \A e \in r.anchor.epoch..epoch_of(r, root)+2 : \A source \in r.anchor.epoch..e :
    LET c == checkpoint_at(r, root, e)
    IN  c.root \in roots_of(r)
        /\ checkpoint_at(r, c.root, source) = checkpoint_at(r, root, source)

endpoints_on_carrier(r, root) ==
  \A link \in r.evidence[root].links :
    link.source \in r.evidence[root].formed =>
      /\ link.source = checkpoint_at(r, root, link.source.epoch)
      /\ link.target = checkpoint_at(r, root, link.target.epoch)

available_checkpoint_of_known(r, root) ==
  \A c \in available(r, root) : c = checkpoint_at(r, root, c.epoch)

projection_laws(r, root) ==
  [ImportedBlockFinalizationLag |-> ImportedBlockFinalizationLag(r, root),
   checkpoint_root_accepted |-> checkpoint_root_accepted(r, root),
   checkpoint_comp |-> checkpoint_comp(r, root),
   endpoints_on_carrier |-> endpoints_on_carrier(r, root),
   available_checkpoint_of_known |-> available_checkpoint_of_known(r, root)]

anchor_laws(r) ==
  LET state == state_of(r, r.anchor_root)
  IN  /\ passes(r, "anchor", r.anchor_root = r.anchor.root)
      /\ passes(r, "GenesisOrNormalizedAnchor",
                \/ r.anchor.epoch = 0
                \/ /\ cp(state.current_justified_checkpoint) = r.anchor
                   /\ cp(state.finalized_checkpoint) = r.anchor)

-----------------------------------------------------------------------------
(* EventualCheckpointInclusion, sampled.  The antecedent: base stays on    *)
(* the head's chain at every import of epoch e + 1, and the votes included *)
(* by then give a two-thirds link from its source to its checkpoint.       *)

carried_au(r, tip) ==
  {selector(r, root, field) : root \in chain(r, tip), field \in Selectors}

extension_form(r, tip, c) ==
  LET carried == carried_au(r, tip)
  IN  \/ c \in carried
      \/ \E j \in carried : j.epoch > c.epoch /\ ancestor(r, j.root, c.root)

sampled_antecedent(r, base, e) ==
  LET c == checkpoint_at(r, base, e)
      source == selector(r, base, IF epoch_of(r, base) = e THEN "realized_justified"
                                  ELSE "unrealized_justified")
      views == {snap \in Range(r.snapshots) : compute_epoch_at_slot(snap.slot) = e + 1}
      signers(snap) ==
        UNION {vote.signers : vote \in
                 {v \in UNION {Range(r.votes[root]) : root \in snap.known} :
                    link_of(r, v) = [source |-> source, target |-> c]}}
  IN  /\ views # {}
      /\ \A snap \in views :
           /\ base \in snap.known
           /\ ancestor(r, snap.head, base)
           /\ 3 * balance(r, signers(snap)) >= 2 * total_balance(r)

last_epoch_of(r) == Max({epoch_of(r, root) : root \in roots_of(r)})

(* Bound: the epochs sampled. *)
LAST_SAMPLED_EPOCH == 6

(* The consequent: a block of an epoch up to e + 1 on base's branch carries *)
(* the checkpoint, or a later one above it.                                *)
inclusion_samples(r) ==
  {<<base, e, snap>> \in roots_of(r) \X (0..LAST_SAMPLED_EPOCH-1) \X Range(r.snapshots) :
     /\ epoch_of(r, base) <= e
     /\ e < last_epoch_of(r) - 1
     /\ snap.slot >= E * (e + 2)
     /\ base \in snap.known}

candidates(r, base, e, snap) ==
  {tip \in snap.known :
     /\ ancestor(r, tip, base)
     /\ slot_of(r, tip) < E * (e + 2)
     /\ e = 0 \/ epoch_of(r, tip) > 1}

sampled_inclusion(r) ==
  \A sample \in inclusion_samples(r) :
    LET base == sample[1]
        e == sample[2]
    IN  sampled_antecedent(r, base, e) =>
          \E tip \in candidates(r, base, e, sample[3]) :
            extension_form(r, tip, checkpoint_at(r, base, e))

-----------------------------------------------------------------------------
(* Properties. *)

(* The checkpoints the states carry are the ones the votes of their chains *)
(* have earned: every law of AcceptedBlockFFGState holds at every block    *)
(* that check_run visits, or is outside the run's scope.                   *)
StateLawsPass ==
  \A root \in roots_of(run) : \A law \in DOMAIN state_laws(run, root) :
    passes(run, law, state_laws(run, root)[law])

(* A read of the store agrees with the projected checkpoint of the block,  *)
(* also where genesis left a stub root in the state.                       *)
ReadsAgree ==
  \A root \in roots_of(run) : passes(run, "FFGStateReadAgreement", reads_agree(run, root))

(* Finality lags two epochs, checkpoints of a checkpoint are checkpoints   *)
(* of the block, and the links and the available checkpoints of a block    *)
(* lie on its chain.                                                       *)
ProjectionLawsPass ==
  /\ anchor_laws(run)
  /\ \A root \in roots_of(run) :
       \A law \in DOMAIN projection_laws(run, root) :
         passes(run, law, projection_laws(run, root)[law])

(* No slot run justifies a checkpoint that has not already been formed by  *)
(* the votes on the chain of the block it starts from.                     *)
SlotRunsJustifyFormed ==
  \A root \in roots_of(run) :
    passes(run, "RealizableBySlotRun", RealizableBySlotRun(run, root))

(* Every formed checkpoint goes back to one validator's earlier vote, and  *)
(* every aggregate of a body splits into the votes of its signers.         *)
EvidenceIsCausal ==
  \A root \in roots_of(run) : aggregates_split(run, root) /\ evidence_causal(run, root)

(* The paper's inclusion law on the one view a run has: support throughout *)
(* an epoch puts the checkpoint, or one above it, into a block in time.    *)
SampledInclusionHolds ==
  passes(run, "EventualCheckpointInclusion", sampled_inclusion(run))

(* Each fixture reaches the case it was made for, and every fixture's      *)
(* blocks and votes are taken by the handlers.                             *)
FixturesShowTheirCase ==
  /\ todo = <<>> => shows_its_case(name, run)
  /\ run.errors = 0

(* What check_run records of a run, a line for every law: of any chain the  *)
(* checkpoints are the ones its votes have earned, the reads agree, and no  *)
(* slot run justifies what no vote has formed.                              *)
RunLawsPass ==
  StateLawsPass /\ ReadsAgree /\ ProjectionLawsPass /\ SlotRunsJustifyFormed

(* What the store takes for justified has been formed by the votes of a     *)
(* chain it knows, and its clock has realized what the blocks of earlier    *)
(* epochs justify, also where it was moved for a block that was refused, or *)
(* back again.                                                              *)
StoreFollowsEvidence ==
  LET justified == normalized(run, cp(run.store.justified_checkpoint))
      earlier == {root \in roots_of(run) :
                    epoch_of(run, root) < get_current_store_epoch(run.store)}
  IN  /\ \E root \in roots_of(run) : justified \in available(run, root)
      /\ \A root \in earlier :
           selector(run, root, "unrealized_justified").epoch <= justified.epoch

(* What is behind the lines: the evidence of every block is causal, the     *)
(* store's checkpoint has evidence, and a fixture reaches its case and      *)
(* includes its support in time.                                            *)
EvidenceHolds ==
  /\ EvidenceIsCausal
  /\ StoreFollowsEvidence
  /\ name # "free" => SampledInclusionHolds /\ FixturesShowTheirCase
=============================================================================
