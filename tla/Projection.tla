------------------------------ MODULE Projection ------------------------------
(***************************************************************************)
(* The projection check: blocks are imported into a fork-choice store that *)
(* runs the concrete transition, and the votes of their bodies, collected  *)
(* along each chain, must explain the checkpoints the states carry.        *)
(*                                                                         *)
(* A run is a record: the store, its anchor checkpoint and block, the      *)
(* accepted roots in order (roots), the root each one was built on         *)
(* (parents), its body votes with their signers (votes), a snapshot per    *)
(* import, and the number of calls a handler refused (errors).  The caches *)
(* evidence (_formed and _links) and eager (_eager) are filled when a      *)
(* block is imported; they depend on the block's own chain only.           *)
(***************************************************************************)
EXTENDS ConcreteBridge, SequencesExt

CONSTANTS
  GENESIS,           \* the concrete genesis state
  FREE_PLANS(_),     \* the blocks a run of no fixture may be given next
  build(_, _),       \* a valid signed block of a run, by its plan
  FREE_SLOTS,        \* bound: the last slot of a run of no fixture
  FREE_ERRORS,       \* bound: such a run stops at so many refused calls
  CASES              \* the runs of this instance, by name

VARIABLES
  name,              \* of the fixture, or "free"
  run,
  todo               \* the plans of the batches still to import

vars == <<name, run, todo>>

NoParent == -1

cp(checkpoint) == [epoch |-> checkpoint.epoch, root |-> checkpoint.root]

(* Two epoch-0 checkpoints read as one. *)
reads_as(raw, semantic) ==
  \/ raw = semantic
  \/ raw.epoch = 0 /\ semantic.epoch = 0

-----------------------------------------------------------------------------
(* Reads of a run. *)

roots_of(r) == Range(r.roots)

events_of(r) == roots_of(r) \ {r.anchor_root}

state_of(r, root) == r.store.block_states[root]

slot_of(r, root) == r.store.blocks[root].slot

epoch_of(r, root) == compute_epoch_at_slot(slot_of(r, root))

(* The blocks from the anchor to tip. *)
chain(r, tip) ==
  LET up[root \in roots_of(r) \cup {NoParent}] ==
        IF root = NoParent THEN {} ELSE {root} \cup up[r.parents[root]]
  IN  up[tip]

ancestor(r, tip, root) == root \in chain(r, tip)

(* Mutant: the block at the start of the next epoch. *)
checkpoint_at_next_start(r, root, epoch) ==
  [epoch |-> epoch, root |-> get_checkpoint_block(r.store, root, epoch + 1)]

checkpoint_at(r, root, epoch) ==
  [epoch |-> epoch, root |-> get_checkpoint_block(r.store, root, epoch)]

(* Mutant: the genesis stub is kept. *)
normalized_never(r, checkpoint) == checkpoint

(* An epoch-0 checkpoint reads as the anchor of a genesis run. *)
normalized(r, checkpoint) ==
  IF checkpoint.epoch = 0 /\ r.anchor.epoch = 0 THEN r.anchor ELSE checkpoint

Selectors ==
  {"realized_justified", "unrealized_justified", "realized_finalized", "unrealized_finalized"}

(* Mutant: the unrealized checkpoints are read from the realized state. *)
raw_selector_realized(r, root, field) ==
  IF field \in {"realized_justified", "unrealized_justified"}
  THEN cp(state_of(r, root).current_justified_checkpoint)
  ELSE cp(state_of(r, root).finalized_checkpoint)

raw_selector(r, root, field) ==
  LET state == IF field \in {"unrealized_justified", "unrealized_finalized"}
               THEN r.eager[root] ELSE state_of(r, root)
  IN  IF field \in {"realized_justified", "unrealized_justified"}
      THEN cp(state.current_justified_checkpoint) ELSE cp(state.finalized_checkpoint)

selector(r, root, field) == normalized(r, raw_selector(r, root, field))

-----------------------------------------------------------------------------
(* What the votes of a chain justify. *)

balance(r, indices) ==
  MapThenSumSet(LAMBDA i : state_of(r, r.anchor_root).ffg.validators[i].effective_balance,
                indices)

total_balance(r) ==
  balance(r, T!active_indices(state_of(r, r.anchor_root).ffg, 0))

chain_votes(r, carrier) == UNION {Range(r.votes[root]) : root \in chain(r, carrier)}

link_of(r, vote) ==
  [source |-> normalized(r, cp(vote.attestation.data.source)),
   target |-> cp(vote.attestation.data.target)]

(* The links along the carrier's chain that two thirds have voted for. *)
links_of(r, carrier) ==
  LET votes == {vote \in chain_votes(r, carrier) :
                  LET link == link_of(r, vote)
                  IN  /\ link.source.epoch < link.target.epoch
                      /\ ancestor(r, link.target.root, link.source.root)
                      /\ ancestor(r, carrier, link.target.root)}
      signers(link) == UNION {vote.signers : vote \in {v \in votes : link_of(r, v) = link}}
  IN  {link \in {link_of(r, vote) : vote \in votes} :
         3 * balance(r, signers(link)) >= 2 * total_balance(r)}

(* The targets the links reach from the anchor. *)
certified(r, links) ==
  LET reach[n \in Nat] ==
        IF n = 0 THEN {r.anchor}
        ELSE reach[n - 1]
               \cup {link.target : link \in {l \in links : l.source \in reach[n - 1]}}
  IN  reach[Cardinality(links)]

(* A target is formed with a strictly earlier vote for it on the chain. *)
formed(r, carrier, links) ==
  {r.anchor} \cup
  {c \in certified(r, links) :
     /\ ancestor(r, carrier, c.root)
     /\ \E vote \in chain_votes(r, carrier) :
          /\ cp(vote.attestation.data.target) = c
          /\ vote.attestation.data.slot < slot_of(r, carrier)}

formed_and_links(r, carrier) ==
  LET links == links_of(r, carrier)
  IN  [formed |-> formed(r, carrier, links), links |-> links]

available(r, root) == UNION {r.evidence[carrier].formed : carrier \in chain(r, root)}

(* The target epochs of the links that finalize c: one epoch later, or two *)
(* with a formed checkpoint above c between.                               *)
finalized_links(r, root, c) ==
  {target_epoch \in c.epoch+1..c.epoch+2 :
     \E carrier \in chain(r, root) :
       /\ c \in r.evidence[carrier].formed
       /\ \E link \in r.evidence[carrier].links :
            link.source = c /\ link.target.epoch = target_epoch
       /\ target_epoch = c.epoch + 2 =>
            \E middle \in r.evidence[carrier].formed :
              middle.epoch = c.epoch + 1 /\ ancestor(r, middle.root, c.root)}

finalized_evidence(r, root, c, bound, strict) ==
  \/ c = r.anchor
  \/ \E e \in finalized_links(r, root, c) : IF strict THEN e < bound ELSE e <= bound

epoch_one_one_step(r, root, c) ==
  c = r.anchor \/ c.epoch # 1 \/ 2 \in finalized_links(r, root, c)
-----------------------------------------------------------------------------
(* Run.__init__: one step per batch. *)

new_run(state, anchor_block, later, out_of_scope) ==
  LET store == get_forkchoice_store(state, anchor_block)
      root == anchor_block.root
      only(value) == put(EmptyDict, root, value)
  IN  [store |-> store,
       anchor |-> cp(store.justified_checkpoint), anchor_root |-> root,
       roots |-> <<root>>, parents |-> only(NoParent), votes |-> only(<<>>),
       snapshots |-> <<>>, errors |-> 0, later |-> later, out_of_scope |-> out_of_scope,
       eager |-> only(process_justification_and_finalization(state)),
       evidence |-> only([formed |-> {cp(store.justified_checkpoint)}, links |-> {}])]

(* Mutant: the clock is set without the work of the slots it passes. *)
tick_clock_only(r, slot) ==
  [r EXCEPT !.store.time = (slot * SLOT_DURATION_MS) \div 1000]

(* The clock is set to the slot's start, also when it already is later. *)
tick(r, slot) ==
  [r EXCEPT !.store = on_tick(@, (slot * SLOT_DURATION_MS) \div 1000)]

(* store: the one on_block returns. *)
add_block(r, signed_block, store) ==
  LET root == signed_block.root
  IN  [r EXCEPT
         !.store = store,
         !.roots = Append(@, root),
         !.parents = put(@, root, signed_block.message.parent_root),
         !.votes = put(@, root, <<>>),
         !.eager = put(@, root, process_justification_and_finalization(store.block_states[root]))]

kept_vote(attestation) ==
  [attestation |-> attestation, signers |-> T!get_attesting_indices(attestation)]

(* Mutant: a body vote is kept when the fork choice has taken it. *)
add_vote_taken(r, root, attestation) ==
  IF on_attestation_accepts(r.store, indexed(attestation), TRUE)
  THEN [r EXCEPT !.votes = put(@, root, Append(@[root], kept_vote(attestation))),
                 !.store = on_attestation(@, indexed(attestation))]
  ELSE [r EXCEPT !.errors = @ + 1]

(* A body vote is kept before the fork choice is asked to take it. *)
add_vote(r, root, attestation) ==
  LET kept == [r EXCEPT !.votes = put(@, root, Append(@[root], kept_vote(attestation)))]
  IN  IF on_attestation_accepts(r.store, indexed(attestation), TRUE)
      THEN [kept EXCEPT !.store = on_attestation(@, indexed(attestation))]
      ELSE [kept EXCEPT !.errors = @ + 1]

snapshot(r, root) ==
  [slot |-> slot_of(r, root), root |-> root, known |-> roots_of(r),
   head |-> get_head(r.store).root, justified |-> cp(r.store.justified_checkpoint)]

add_votes(r, root, attestations) ==
  LET step(acc, attestation) == add_vote(acc, root, attestation)
  IN  FoldLeft(step, r, attestations)

(* The end of import_block: the block's snapshot and what its chain formed. *)
finish(r, root) ==
  [r EXCEPT !.snapshots = Append(@, snapshot(r, root)),
            !.evidence = put(@, root, formed_and_links(r, root))]

-----------------------------------------------------------------------------
(* make_runs: the fixtures.  A plan names the root and slot of a block, its *)
(* parent, and the votes its body brings, each by slot, committees, index.  *)

E == SLOTS_PER_EPOCH
AllCommittees == 0..MAX_COMMITTEES_PER_SLOT-1

vote_at(slot, committees) == [slot |-> slot, committees |-> committees, index |-> 0]

votes_of(vote_slots) == {vote_at(s, AllCommittees) : s \in vote_slots \ {0}}

plan(root, slot, parent, votes) ==
  [root |-> root, slot |-> slot, parent |-> parent, votes |-> votes]

(* Every block brings the votes of the slot before. *)
full(n) == [k \in 1..n |-> plan(k + 1, k, k, votes_of({k - 1}))]

(* No votes for two epochs, then late ones of just above two thirds. *)
late_two_thirds ==
  LET late(k) == IF k < (5 * E) \div 2 THEN AllCommittees ELSE {0}
  IN  [k \in 1..3*E |->
         plan(k + 1, k, k, IF k < 2 * E THEN {}
                           ELSE {vote_at(k - E, late(k))})]

skipped_epoch ==
  LET slot(k) == IF k < E THEN k ELSE k + E
  IN  [k \in 1..3*E |->
         plan(k + 1, slot(k), k, IF k = E THEN {} ELSE votes_of({slot(k) - 1}))]

(* Two branches from the anchor, one of them without votes. *)
two_forks ==
  LET slot(k) == (k + 1) \div 2
  IN  [k \in 1..4*E |->
         plan(k + 1, slot(k), IF k <= 2 THEN 1 ELSE k - 1,
              IF k % 2 = 1 THEN votes_of({slot(k) - 1}) ELSE {})]

(* The votes of epochs 2 and 3 come together one epoch later; those of the *)
(* epochs in skip never come.                                              *)
delayed_votes(skip) ==
  LET votes(k) ==
        CASE k = 3 * E -> 2*E..3*E-1
          [] k = 4 * E -> 3*E..4*E-1
          [] OTHER -> IF k >= 2 /\ (k - 1) \div E \notin {2, 3} \cup skip THEN {k - 1} ELSE {}
  IN  [k \in 1..(11*E) \div 2 |-> plan(k + 1, k, k, votes_of(votes(k)))]

batches ==
  [full |-> full(6 * E), review |-> full(2 * E), late |-> late_two_thirds,
   skipped |-> skipped_epoch, forks |-> two_forks, later |-> full(3 * E),
   epoch_one |-> delayed_votes({}), two_step |-> delayed_votes({1}), free |-> full(2 * E)]

genesis_block ==
  [root |-> 1,
   message |-> [slot |-> 0, parent_root |-> 0, proposer_index |-> 1, parent_block_hash |-> 0,
                block_hash |-> 0, body |-> [attestations |-> <<>>],
                payload_attestations |-> <<>>]]

genesis_run(out_of_scope) == new_run(project(GENESIS), genesis_block, FALSE, out_of_scope)

(* The fixture whose first epoch-1 finality is outside one law's scope. *)
start_run(n) ==
  genesis_run(IF n \in {"epoch_one", "free"} THEN {"epoch_one_finalization_one_step"} ELSE {})

(* What make_runs asserts of each fixture. *)
shows_its_case(n, r) ==
  LET last == Last(r.roots)
      final(field) == selector(r, last, field)
      target_votes(epoch) ==
        {root \in roots_of(r) : \E vote \in Range(r.votes[root]) :
                                 vote.attestation.data.target.epoch = epoch}
  IN  CASE n = "full" -> /\ epoch_of(r, last) >= 6
                         /\ final("realized_justified").epoch > 0
                         /\ final("realized_finalized").epoch > 0
        [] n = "review" -> /\ final("realized_justified").epoch = 0
                           /\ final("unrealized_justified").epoch = 1
        [] n = "late" ->
             LET forming == {root \in roots_of(r) :
                               \E c \in r.evidence[root].formed : c.epoch = 1}
                 signers == UNION {vote.signers : vote \in
                                     {v \in chain_votes(r, last) : v.attestation.data.target.epoch = 1}}
             IN  /\ forming # {}
                 /\ \A root \in forming \cup target_votes(1) : slot_of(r, root) >= 2 * E
                 /\ 3 * balance(r, signers) >= 2 * total_balance(r)
                 /\ signers # DOMAIN REGISTRY
        [] n = "skipped" -> \A root \in events_of(r) : epoch_of(r, root) # 1
        [] n = "forks" ->
             LET tips == {root \in events_of(r) : slot_of(r, root) = 2 * E}
             IN  /\ Cardinality(tips) = 2
                 /\ Cardinality({Cardinality(chain_votes(r, tip)) : tip \in tips}) = 2
        [] n = "later" -> r.later => r.anchor.epoch # 0
        [] n = "epoch_one" ->
             \E root \in roots_of(r) :
               LET c == selector(r, root, "unrealized_finalized")
               IN  c.epoch = 1 /\ finalized_links(r, last, c) = {3}
        [] n = "two_step" ->
             /\ final("realized_finalized").epoch = 2
             /\ finalized_links(r, last, final("realized_finalized")) = {4}
             /\ \A root \in roots_of(r) :
                  /\ selector(r, root, "realized_finalized").epoch # 1
                  /\ selector(r, root, "unrealized_finalized").epoch # 1
        [] OTHER -> TRUE

-----------------------------------------------------------------------------
(* The specification.  A run of no fixture begins with two full epochs and *)
(* then takes any plan it is offered.                                      *)

Init ==
  /\ name \in CASES
  /\ run = start_run(name)
  /\ todo = batches[name]

next_plans ==
  IF todo # <<>> THEN {Head(todo)}
  ELSE IF name = "free" /\ run.errors < FREE_ERRORS
       THEN {p \in FREE_PLANS(run) : p.slot <= FREE_SLOTS} ELSE {}

(* import_block of a block that the store takes: the clock, the handler,   *)
(* the votes of the body one after the other, and the snapshot.            *)
ImportBlock ==
  /\ \E p \in next_plans : \E signed_block \in {build(run, p)} :
     \E ticked \in {tick(run, p.slot)} :
       /\ on_block_accepts(ticked.store, signed_block)
       /\ \E store \in {on_block(ticked.store, signed_block)} :
          \E added \in {add_block(ticked, signed_block, store)} :
          \E voted \in {add_votes(added, p.root, signed_block.message.body.attestations)} :
            run' = finish(voted, p.root)
  /\ todo' = IF todo = <<>> THEN todo ELSE Tail(todo)
  /\ UNCHANGED name

(* One it refuses leaves the clock moved, and a line in the errors. *)
RefuseBlock ==
  /\ \E p \in next_plans : \E signed_block \in {build(run, p)} :
     \E ticked \in {tick(run, p.slot)} :
       /\ ~on_block_accepts(ticked.store, signed_block)
       /\ run' = [ticked EXCEPT !.errors = @ + 1]
  /\ todo' = IF todo = <<>> THEN todo ELSE Tail(todo)
  /\ UNCHANGED name

(* The run whose anchor is the last block of a chain built before. *)
StartAtLastBlock ==
  /\ name = "later"
  /\ todo = <<>>
  /\ ~run.later
  /\ LET root == Last(run.roots)
         block == [root |-> root, message |-> run.store.blocks[root]]
     IN  run' = new_run(state_of(run, root), block, TRUE, {})
  /\ UNCHANGED <<name, todo>>

Next == ImportBlock \/ RefuseBlock \/ StartAtLastBlock

Spec == Init /\ [][Next]_vars
=============================================================================
