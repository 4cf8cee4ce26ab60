--------------------------- MODULE ForkChoiceProofs ---------------------------
(***************************************************************************)
(* What the traversals of the fork choice compute: on a tree whose parents *)
(* have smaller slots the recursions of get_ancestor, of the filter of the *)
(* block tree and of get_head end, so each obeys its own equation, and     *)
(* descent from a node is an order.  The induction is over minimal         *)
(* counterexamples: a set of naturals has a least element.                 *)
(*                                                                         *)
(* Then the safety of the store: its tree, its boost, the votes of its     *)
(* validators and PTC members, the payload branches they support, the      *)
(* chains of its checkpoints, the head, and the catch-up of on_tick.       *)
(***************************************************************************)
EXTENDS CheckpointRefinementProofs, FiniteSums

-----------------------------------------------------------------------------
(* A recursive definition over a set S with values in V: at n it reads the *)
(* values at pred[n] alone, and these have a smaller rank.  A definition   *)
(* of this form has a solution, and any two solutions agree.               *)

Recursion(S, V, pred, rank, body) ==
  /\ V # {}
  /\ rank \in [S -> Nat]
  /\ \A n \in S : pred[n] \subseteq S /\ \A p \in pred[n] : rank[p] < rank[n]
  /\ body \in [S \X [S -> V] -> V]
  /\ \A n \in S, f, g \in [S -> V] :
       (\A p \in pred[n] : f[p] = g[p]) => body[<<n, f>>] = body[<<n, g>>]

(* f obeys the definition as far as the ranks below k.                     *)
SolvesBelow(S, V, rank, body, k, f) ==
  /\ f \in [S -> V]
  /\ \A n \in S : rank[n] < k => f[n] = body[<<n, f>>]

LEMMA SolutionsAgree ==
  ASSUME NEW S, NEW V, NEW pred, NEW rank, NEW body, Recursion(S, V, pred, rank, body),
         NEW k \in Nat, NEW f, NEW g,
         SolvesBelow(S, V, rank, body, k, f), SolvesBelow(S, V, rank, body, k, g)
  PROVE  \A n \in S : rank[n] < k => f[n] = g[n]
<1> DEFINE apart == {n \in S : rank[n] < k /\ f[n] # g[n]}
           ranks == {rank[n] : n \in apart}
<1> SUFFICES ASSUME apart # {} PROVE FALSE
  OBVIOUS
<1>1. ranks \subseteq Nat /\ ranks # {}
  <2>1. \A n \in S : rank[n] \in Nat
    BY DEF Recursion
  <2> QED BY ONLY <2>1, apart # {}
<1>2. PICK m \in ranks : \A other \in ranks : m <= other
  BY <1>1, LeastNatural
<1>3. PICK n \in apart : m = rank[n]
  OBVIOUS
<1>4. ASSUME NEW p \in pred[n] PROVE f[p] = g[p]
  <2>1. p \in S /\ rank[p] \in Nat /\ rank[n] \in Nat /\ rank[p] < rank[n]
    BY <1>3 DEF Recursion
  <2>2. rank[p] < k
    BY <1>3, <2>1
  <2>3. p \in apart => rank[n] <= rank[p]
    BY <1>2, <1>3
  <2> QED BY <2>1, <2>2, <2>3
<1>5. body[<<n, f>>] = body[<<n, g>>]
  BY <1>3, <1>4 DEF Recursion, SolvesBelow
<1> QED BY <1>3, <1>5 DEF SolvesBelow

LEMMA SolutionsReachFar ==
  ASSUME NEW S, NEW V, NEW pred, NEW rank, NEW body, Recursion(S, V, pred, rank, body),
         NEW k \in Nat
  PROVE  \E f : SolvesBelow(S, V, rank, body, k, f)
<1> DEFINE far(j) == \E f : SolvesBelow(S, V, rank, body, j, f)
           missing == {j \in Nat : ~ far(j)}
<1> SUFFICES ASSUME missing # {} PROVE FALSE
  OBVIOUS
<1>1. PICK m \in missing : \A other \in missing : m <= other
  BY LeastNatural
<1>2. m # 0
  <2>1. PICK v \in V : TRUE
    BY DEF Recursion
  <2>2. SolvesBelow(S, V, rank, body, 0, [n \in S |-> v])
    BY DEF SolvesBelow, Recursion
  <2> QED BY <1>1, <2>2
<1>3. m - 1 \in Nat /\ m - 1 \notin missing
  BY <1>1, <1>2
<1>4. PICK f : SolvesBelow(S, V, rank, body, m - 1, f)
  BY <1>3
<1> DEFINE g == [n \in S |-> IF rank[n] = m - 1 THEN body[<<n, f>>] ELSE f[n]]
<1>5. g \in [S -> V]
  BY <1>4 DEF SolvesBelow, Recursion
<1>6. ASSUME NEW n \in S, rank[n] < m PROVE g[n] = body[<<n, g>>]
  <2>1. rank[n] \in Nat
    BY DEF Recursion
  <2>2. ASSUME NEW p \in pred[n] PROVE f[p] = g[p]
    <3>1. p \in S /\ rank[p] \in Nat /\ rank[p] < rank[n]
      BY DEF Recursion
    <3> QED BY <1>1, <1>6, <2>1, <3>1
  <2>3. body[<<n, f>>] = body[<<n, g>>]
    <3> HIDE DEF g
    <3> QED BY <1>4, <1>5, <2>2 DEF Recursion, SolvesBelow
  <2>4. rank[n] # m - 1 => f[n] = body[<<n, f>>]
    BY <1>1, <1>4, <1>6, <2>1 DEF SolvesBelow
  <2>5. g[n] = IF rank[n] = m - 1 THEN body[<<n, f>>] ELSE f[n]
    OBVIOUS
  <2> QED BY ONLY <2>3, <2>4, <2>5
<1> HIDE DEF g
<1> QED BY <1>1, <1>5, <1>6 DEF SolvesBelow

LEMMA RecursionExists ==
  ASSUME NEW S, NEW V, NEW pred, NEW rank, NEW body, Recursion(S, V, pred, rank, body)
  PROVE  \E f \in [S -> V] : \A n \in S : f[n] = body[<<n, f>>]
<1> DEFINE reach(k) == CHOOSE f : SolvesBelow(S, V, rank, body, k, f)
           f == [n \in S |-> reach(rank[n] + 1)[n]]
<1>1. \A k \in Nat : SolvesBelow(S, V, rank, body, k, reach(k))
  BY SolutionsReachFar
<1> HIDE DEF reach
<1>2. \A n \in S : rank[n] \in Nat /\ rank[n] + 1 \in Nat
  BY DEF Recursion
<1>3. ASSUME NEW n \in S, NEW k \in Nat, rank[n] < k
      PROVE  f[n] = reach(k)[n]
  <2> DEFINE j == rank[n] + 1
  <2>1. rank[n] \in Nat /\ j \in Nat /\ rank[n] < j /\ j <= k
    BY <1>2, <1>3
  <2>2. SolvesBelow(S, V, rank, body, j, reach(k))
    <3>1. \A other \in S : rank[other] < j => rank[other] < k
      BY <1>2, <1>3, <2>1
    <3> QED BY <1>1, <3>1 DEF SolvesBelow
  <2>3. SolvesBelow(S, V, rank, body, j, reach(j))
    BY <1>1, <2>1
  <2>4. f[n] = reach(j)[n]
    OBVIOUS
  <2> HIDE DEF f, j
  <2> QED BY <2>1, <2>2, <2>3, <2>4, SolutionsAgree
<1>4. f \in [S -> V]
  BY <1>1, <1>2 DEF SolvesBelow
<1> HIDE DEF f
<1>5. ASSUME NEW n \in S PROVE f[n] = body[<<n, f>>]
  <2> DEFINE k == rank[n] + 1
  <2>1. k \in Nat /\ rank[n] \in Nat /\ rank[n] < k
    BY <1>2
  <2>2. ASSUME NEW p \in pred[n] PROVE f[p] = reach(k)[p]
    <3>1. p \in S /\ rank[p] < rank[n] /\ rank[p] \in Nat
      BY DEF Recursion
    <3>2. rank[p] < k
      BY <2>1, <3>1
    <3> QED BY <1>3, <2>1, <3>1, <3>2
  <2> HIDE DEF k
  <2>3. SolvesBelow(S, V, rank, body, k, reach(k))
    BY <1>1, <2>1
  <2>4. body[<<n, f>>] = body[<<n, reach(k)>>]
    BY <1>4, <2>2, <2>3 DEF Recursion, SolvesBelow
  <2>5. f[n] = reach(k)[n]
    BY <1>3, <2>1
  <2> QED BY <2>1, <2>3, <2>4, <2>5 DEF SolvesBelow
<1> QED BY <1>4, <1>5

(* Among finitely many, one is as good as every other, when any two can be *)
(* compared.                                                               *)
LEMMA BestExists ==
  ASSUME NEW S, IsFiniteSet(S), S # {}, NEW R,
         \A a, b \in S : <<a, b>> \in R \/ <<b, a>> \in R,
         \A a, b, c \in S : <<a, b>> \in R /\ <<b, c>> \in R => <<a, c>> \in R
  PROVE  \E best \in S : \A other \in S : <<best, other>> \in R
<1> DEFINE good(s) == \E best \in s : \A other \in s : <<best, other>> \in R
           bad == {s \in SUBSET S : s # {} /\ ~ good(s)}
<1> SUFFICES ASSUME bad # {} PROVE FALSE
  OBVIOUS
<1>1. PICK s \in bad : \A t \in bad : t \subseteq s => t = s
  <2>1. bad \subseteq SUBSET S
    OBVIOUS
  <2> HIDE DEF bad
  <2> QED BY <2>1, LeastSet
<1>2. PICK x \in s : TRUE
  OBVIOUS
<1> DEFINE rest == s \ {x}
<1>3. rest \notin bad
  <2>1. rest \subseteq s /\ rest # s
    BY <1>2
  <2> QED BY <1>1, <2>1
<1>4. CASE rest = {}
  BY <1>1, <1>2, <1>4
<1>5. CASE rest # {}
  <2>1. PICK y \in rest : \A other \in rest : <<y, other>> \in R
    BY <1>3, <1>5
  <2>2. x \in S /\ y \in S /\ s \subseteq S
    OBVIOUS
  <2>3. CASE <<x, y>> \in R
    <3>1. \A other \in s : <<x, other>> \in R
      BY <2>1, <2>2, <2>3
    <3> QED BY <1>1, <1>2, <3>1
  <2>4. CASE <<y, x>> \in R
    <3>1. \A other \in s : <<y, other>> \in R
      BY <2>1, <2>4
    <3> QED BY <1>1, <2>1, <3>1
  <2> QED BY <2>2, <2>3, <2>4
<1> QED BY <1>4, <1>5

-----------------------------------------------------------------------------
(* The ancestor walk of a store, at a slot above which every known block   *)
(* has a smaller parent.  A block that is not known reads as slot 0, where *)
(* the walk ends.                                                          *)

Descending(s, slot) ==
  \A root \in DOMAIN s.blocks :
    s.blocks[root].slot > slot
      => block_slot(s, s.blocks[root].parent_root) < s.blocks[root].slot

LEMMA BlockSlotType ==
  ASSUME NEW s, IsStore(s), NEW root
  PROVE  block_slot(s, root) \in Nat
BY ConfigAssumption DEF block_slot, block_at, IsStore, StoreOver, BeaconBlock

LEMMA NewNodeType ==
  ASSUME NEW root \in Root, NEW status \in PayloadStatus
  PROVE  /\ NewNode(root, status) \in ForkChoiceNode
         /\ NewNode(root, status).root = root
         /\ NewNode(root, status).payload_status = status
BY DEF NewNode, ForkChoiceNode

(* The parent of a known block is a node.                                  *)
LEMMA ParentNodeType ==
  ASSUME NEW s, IsStore(s), NEW node \in ForkChoiceNode, node.root \in DOMAIN s.blocks
  PROVE  /\ parent_node(s, node) \in ForkChoiceNode
         /\ parent_node(s, node).root = s.blocks[node.root].parent_root
         /\ parent_node(s, node).payload_status
              = get_parent_payload_status(s, s.blocks[node.root])
<1>1. s.blocks[node.root] \in BeaconBlock
  BY DEF IsStore, StoreOver
<1>2. s.blocks[node.root].parent_root \in Root
  BY <1>1 DEF BeaconBlock
<1>3. get_parent_payload_status(s, s.blocks[node.root]) \in PayloadStatus
  BY DEF get_parent_payload_status, PayloadStatus
<1> QED BY <1>2, <1>3, NewNodeType DEF parent_node, block_at

(* The equation of get_ancestor.                                           *)
LEMMA AncestorEquation ==
  ASSUME NEW s, IsStore(s), NEW slot \in Nat, Descending(s, slot),
         NEW node \in ForkChoiceNode
  PROVE  get_ancestor(s, node, slot)
           = IF block_slot(s, node.root) > slot
             THEN get_ancestor(s, parent_node(s, node), slot) ELSE node
<1> DEFINE S == ForkChoiceNode
           Deep == {n \in S : block_slot(s, n.root) > slot}
           step == [n \in Deep |-> parent_node(s, n)]
           pred == [n \in S |-> IF n \in Deep THEN {step[n]} ELSE {}]
           rank == [n \in S |-> block_slot(s, n.root)]
           body == [a \in S \X [S -> S] |->
                      IF a[1] \in Deep THEN a[2][step[a[1]]] ELSE a[1]]
           walk == CHOOSE w : w = [n \in ForkChoiceNode |->
                     IF block_slot(s, n.root) > slot THEN w[parent_node(s, n)] ELSE n]
<1>1. ASSUME NEW n \in Deep PROVE step[n] \in S /\ rank[step[n]] < rank[n]
  <2>1. n.root \in DOMAIN s.blocks
    BY ConfigAssumption DEF block_slot, block_at
  <2>2. /\ parent_node(s, n) \in ForkChoiceNode
        /\ parent_node(s, n).root = s.blocks[n.root].parent_root
    BY <2>1, ParentNodeType
  <2>3. block_slot(s, n.root) = s.blocks[n.root].slot
    BY <2>1 DEF block_slot, block_at
  <2> QED BY <2>1, <2>2, <2>3 DEF Descending
<1>2. Recursion(S, S, pred, rank, body)
  <2>1. rank \in [S -> Nat]
    BY BlockSlotType
  <2> HIDE DEF S, Deep, step, rank
  <2>2. Deep \subseteq S
    BY DEF Deep
  <2>3. \A n \in S : pred[n] \subseteq S /\ \A other \in pred[n] : rank[other] < rank[n]
    BY <1>1, <2>2
  <2>4. body \in [S \X [S -> S] -> S]
    BY <1>1
  <2>5. \A n \in S, f, g \in [S -> S] :
          (\A other \in pred[n] : f[other] = g[other]) => body[<<n, f>>] = body[<<n, g>>]
    OBVIOUS
  <2>6. S # {}
    BY DEF S
  <2> HIDE DEF pred, body
  <2> QED BY <2>1, <2>3, <2>4, <2>5, <2>6 DEF Recursion
<1>3. PICK f \in [S -> S] : \A n \in S : f[n] = body[<<n, f>>]
  <2> HIDE DEF S, pred, rank, body
  <2> QED BY <1>2, RecursionExists
<1>4. f = [n \in ForkChoiceNode |->
             IF block_slot(s, n.root) > slot THEN f[parent_node(s, n)] ELSE n]
  <2>1. \A n \in S : f[n] = IF block_slot(s, n.root) > slot
                            THEN f[parent_node(s, n)] ELSE n
    BY <1>3
  <2> HIDE DEF Deep, step, body
  <2> QED BY <2>1
<1>5. walk = [n \in ForkChoiceNode |->
                IF block_slot(s, n.root) > slot THEN walk[parent_node(s, n)] ELSE n]
  <2> HIDE DEF Deep, step, rank, pred, body
  <2> QED BY <1>4
<1>6. \A n : get_ancestor(s, n, slot) = walk[n]
  BY DEF get_ancestor
<1> HIDE DEF S, Deep, step, rank, pred, body, walk
<1>7. walk[node] = IF block_slot(s, node.root) > slot
                   THEN walk[parent_node(s, node)] ELSE node
  BY <1>5
<1> QED BY <1>6, <1>7

(* A set of nodes that the walk does not leave holds the walk's end.       *)
LEMMA AncestorInduction ==
  ASSUME NEW s, IsStore(s), NEW slot \in Nat, Descending(s, slot),
         NEW P \in SUBSET ForkChoiceNode, NEW node \in P,
         \A n \in P : block_slot(s, n.root) > slot => parent_node(s, n) \in P
  PROVE  /\ get_ancestor(s, node, slot) \in P
         /\ block_slot(s, get_ancestor(s, node, slot).root) <= slot
<1> DEFINE found(n) == get_ancestor(s, n, slot)
           bad == {n \in P : ~ (found(n) \in P /\ block_slot(s, found(n).root) <= slot)}
           ranks == {block_slot(s, n.root) : n \in bad}
<1> SUFFICES ASSUME bad # {} PROVE FALSE
  OBVIOUS
<1>1. ranks \subseteq Nat /\ ranks # {}
  BY BlockSlotType
<1>2. PICK m \in ranks : \A other \in ranks : m <= other
  BY <1>1, LeastNatural
<1>3. PICK n \in bad : m = block_slot(s, n.root)
  OBVIOUS
<1>4. block_slot(s, n.root) > slot
  <2>1. ~ (block_slot(s, n.root) > slot) => found(n) = n
    BY AncestorEquation
  <2> QED BY <2>1, BlockSlotType
<1>5. parent_node(s, n) \in P /\ found(n) = found(parent_node(s, n))
  BY <1>4, AncestorEquation
<1>6. block_slot(s, parent_node(s, n).root) < block_slot(s, n.root)
  <2>1. n.root \in DOMAIN s.blocks
    BY <1>4, ConfigAssumption DEF block_slot, block_at
  <2> QED BY <1>4, <2>1, ParentNodeType DEF Descending, block_slot, block_at
<1>7. parent_node(s, n) \notin bad
  <2>1. parent_node(s, n) \in bad => m <= block_slot(s, parent_node(s, n).root)
    BY <1>2
  <2> HIDE DEF bad
  <2> QED BY <1>3, <1>6, <2>1, BlockSlotType
<1> QED BY <1>5, <1>7

LEMMA DescendingAbove ==
  ASSUME NEW s, IsStore(s), NEW slot \in Nat, Descending(s, slot), NEW later \in Nat, slot <= later
  PROVE  Descending(s, later)
<1> SUFFICES ASSUME NEW root \in DOMAIN s.blocks, s.blocks[root].slot > later
             PROVE  block_slot(s, s.blocks[root].parent_root) < s.blocks[root].slot
  BY DEF Descending
<1>1. s.blocks[root].slot = block_slot(s, root)
  BY DEF block_slot, block_at
<1>2. s.blocks[root].slot > slot
  BY <1>1, BlockSlotType
<1> QED BY <1>2 DEF Descending

LEMMA AncestorType ==
  ASSUME NEW s, IsStore(s), NEW slot \in Nat, Descending(s, slot), NEW node \in ForkChoiceNode
  PROVE  /\ get_ancestor(s, node, slot) \in ForkChoiceNode
         /\ block_slot(s, get_ancestor(s, node, slot).root) <= slot
<1>1. ASSUME NEW n \in ForkChoiceNode, block_slot(s, n.root) > slot
      PROVE  parent_node(s, n) \in ForkChoiceNode
  <2>1. n.root \in DOMAIN s.blocks
    BY <1>1, ConfigAssumption DEF block_slot, block_at
  <2> QED BY <2>1, ParentNodeType
<1> DEFINE P == ForkChoiceNode
<1>2. /\ P \in SUBSET ForkChoiceNode /\ node \in P
      /\ \A n \in P : block_slot(s, n.root) > slot => parent_node(s, n) \in P
  BY <1>1
<1>3. /\ get_ancestor(s, node, slot) \in P
      /\ block_slot(s, get_ancestor(s, node, slot).root) <= slot
  <2> HIDE DEF P
  <2> QED BY <1>2, AncestorInduction
<1> QED BY <1>3

(* The ancestor of an ancestor is the ancestor.                            *)
LEMMA AncestorOfAncestor ==
  ASSUME NEW s, IsStore(s), NEW slot \in Nat, Descending(s, slot),
         NEW later \in Nat, slot <= later, NEW node \in ForkChoiceNode
  PROVE  get_ancestor(s, get_ancestor(s, node, later), slot) = get_ancestor(s, node, slot)
<1> DEFINE found == get_ancestor(s, node, slot)
           P == {n \in ForkChoiceNode : get_ancestor(s, n, slot) = found}
<1>1. Descending(s, later)
  BY DescendingAbove
<1>2. ASSUME NEW n \in P, block_slot(s, n.root) > later
      PROVE  parent_node(s, n) \in P
  <2>1. n.root \in DOMAIN s.blocks
    BY <1>2, ConfigAssumption DEF block_slot, block_at
  <2>2. parent_node(s, n) \in ForkChoiceNode
    BY <2>1, ParentNodeType
  <2>3. block_slot(s, n.root) > slot
    BY <1>2, BlockSlotType
  <2>4. get_ancestor(s, n, slot) = get_ancestor(s, parent_node(s, n), slot)
    BY <2>3, AncestorEquation
  <2> QED BY <2>2, <2>4
<1>3. P \in SUBSET ForkChoiceNode /\ node \in P
  OBVIOUS
<1>4. get_ancestor(s, node, later) \in P
  <2> HIDE DEF P
  <2> QED BY <1>1, <1>2, <1>3, AncestorInduction
<1> QED BY <1>4

(* Whoever reaches a child reaches the branch the child builds on.         *)
LEMMA BranchOfChild ==
  ASSUME NEW s, IsStore(s), NEW child \in DOMAIN s.blocks, NEW branch \in ForkChoiceNode,
         parent_node(s, NewNode(child, PENDING)) = branch,
         block_slot(s, branch.root) < block_slot(s, child),
         NEW slot \in Nat, block_slot(s, branch.root) <= slot, slot < block_slot(s, child),
         Descending(s, block_slot(s, branch.root)), Descending(s, slot),
         NEW node \in ForkChoiceNode,
         get_ancestor(s, node, block_slot(s, child)).root = child
  PROVE  get_ancestor(s, node, slot) = branch
<1> DEFINE found == get_ancestor(s, node, block_slot(s, child))
<1>1. block_slot(s, child) \in Nat /\ block_slot(s, branch.root) \in Nat
  BY BlockSlotType
<1>2. Descending(s, block_slot(s, child))
  <2> DEFINE sc == block_slot(s, child)
  <2>1. sc \in Nat /\ slot <= sc
    BY <1>1
  <2> HIDE DEF sc
  <2> QED BY <2>1, DescendingAbove DEF sc
<1>3. found \in ForkChoiceNode
  BY <1>1, <1>2, AncestorType
<1>4. get_ancestor(s, node, slot) = get_ancestor(s, found, slot)
  BY <1>1, AncestorOfAncestor
<1>5. get_ancestor(s, found, slot) = get_ancestor(s, parent_node(s, found), slot)
  BY <1>3, AncestorEquation
<1>6. parent_node(s, found) = branch
  BY DEF parent_node, NewNode
<1>7. get_ancestor(s, branch, slot) = branch
  <2>1. ~ (block_slot(s, branch.root) > slot)
    BY <1>1
  <2> QED BY <2>1, AncestorEquation
<1> QED BY <1>4, <1>5, <1>6, <1>7

-----------------------------------------------------------------------------
(* Weights. *)

balances == [i \in ValidatorIndex |-> REGISTRY[i].effective_balance]

(* The validators whose balances make the attestation score of a node.     *)
supporters(s, node, state) ==
  {i \in get_active_validator_indices(state, get_current_epoch(state)) :
     /\ ~REGISTRY[i].slashed
     /\ i \in DOMAIN s.latest_messages
     /\ i \notin s.equivocating_indices
     /\ is_ancestor(s, get_supported_node(s, s.latest_messages[i]), node)}

(* The scores of several nodes together. *)
score_sum(s, state, nodes) ==
  MapThenSumSet(LAMBDA n : get_attestation_score(s, n, state), nodes)

LEMMA BalancesType ==
  /\ IsFiniteSet(ValidatorIndex)
  /\ \A i \in ValidatorIndex : balances[i] \in Nat
BY RegistryAssumption DEF balances

LEMMA BalanceIsTotal ==
  ASSUME NEW indices \in SUBSET ValidatorIndex
  PROVE  /\ balance_of(indices) = Total(balances, indices)
         /\ IsFiniteSet(indices)
<1> DEFINE sum == CHOOSE iter : iter = [s \in SUBSET indices |->
                    IF s = {} THEN 0
                    ELSE LET x == CHOOSE x \in s : TRUE
                         IN  REGISTRY[x].effective_balance + iter[s \ {x}]]
           f == [s \in SUBSET indices |-> Total(balances, s)]
<1>1. IsFiniteSet(indices) /\ \A i \in indices : balances[i] \in Nat
  BY BalancesType, FS_Subset
<1>2. Sums(balances, indices, f)
  BY <1>1, TotalSums
<1>3. f = [s \in SUBSET indices |->
             IF s = {} THEN 0
             ELSE LET x == CHOOSE x \in s : TRUE
                  IN  REGISTRY[x].effective_balance + f[s \ {x}]]
  <2> SUFFICES ASSUME NEW s \in SUBSET indices
               PROVE  f[s] = IF s = {} THEN 0
                             ELSE LET x == CHOOSE x \in s : TRUE
                                  IN  REGISTRY[x].effective_balance + f[s \ {x}]
    OBVIOUS
  <2> DEFINE x == CHOOSE x \in s : TRUE
  <2>1. f[s] = IF s = {} THEN 0 ELSE balances[x] + f[s \ {x}]
    BY <1>2 DEF Sums
  <2>2. s # {} => balances[x] = REGISTRY[x].effective_balance
    <3>1. s # {} => x \in s
      OBVIOUS
    <3> HIDE DEF x
    <3> QED BY <3>1 DEF balances
  <2> HIDE DEF f, x
  <2> QED BY <2>1, <2>2 DEF x
<1>4. sum = [s \in SUBSET indices |->
               IF s = {} THEN 0
               ELSE LET x == CHOOSE x \in s : TRUE
                    IN  REGISTRY[x].effective_balance + sum[s \ {x}]]
  <2> HIDE DEF f
  <2> QED BY <1>3
<1>5. balance_of(indices) = sum[indices]
  BY DEF balance_of, MapThenSumSet, MapThenFoldSet
<1> HIDE DEF sum, f
<1>6. Sums(balances, indices, sum)
  <2> SUFFICES ASSUME NEW s \in SUBSET indices
               PROVE  sum[s] = IF s = {} THEN 0
                               ELSE LET x == CHOOSE x \in s : TRUE
                                    IN  balances[x] + sum[s \ {x}]
    BY DEF Sums
  <2> DEFINE x == CHOOSE x \in s : TRUE
  <2>1. sum[s] = IF s = {} THEN 0 ELSE REGISTRY[x].effective_balance + sum[s \ {x}]
    BY <1>4
  <2>2. s # {} => balances[x] = REGISTRY[x].effective_balance
    <3>1. s # {} => x \in s
      OBVIOUS
    <3> HIDE DEF x
    <3> QED BY <3>1 DEF balances
  <2> HIDE DEF x
  <2> QED BY <2>1, <2>2 DEF x
<1>7. sum[indices] = Total(balances, indices)
  <2>1. indices \in SUBSET indices
    OBVIOUS
  <2> QED BY <1>1, <1>6, <2>1, SumsAreTotals
<1> QED BY <1>1, <1>5, <1>7

LEMMA SupportersType ==
  ASSUME NEW s, NEW node, NEW state, state.validators \subseteq ValidatorIndex
  PROVE  /\ supporters(s, node, state) \in SUBSET ValidatorIndex
         /\ IsFiniteSet(supporters(s, node, state))
         /\ get_attestation_score(s, node, state) = Total(balances, supporters(s, node, state))
         /\ get_attestation_score(s, node, state) \in Nat
<1> DEFINE voters == supporters(s, node, state)
<1>1. voters \in SUBSET ValidatorIndex
  BY DEF supporters, get_active_validator_indices
<1>2. get_attestation_score(s, node, state) = balance_of(voters)
  BY DEF get_attestation_score, supporters
<1> HIDE DEF voters
<1>3. IsFiniteSet(voters) /\ balance_of(voters) = Total(balances, voters)
  BY <1>1, BalanceIsTotal
<1>4. Total(balances, voters) \in Nat
  BY <1>1, <1>3, BalancesType, TotalType
<1> QED BY <1>1, <1>2, <1>3, <1>4 DEF voters

(* The two payload nodes of a block share its weight.                      *)
LEMMA PayloadsSplit ==
  ASSUME NEW s, NEW root, NEW state, state.validators \subseteq ValidatorIndex
  PROVE  get_attestation_score(s, NewNode(root, EMPTY), state)
           + get_attestation_score(s, NewNode(root, FULL), state)
             <= get_attestation_score(s, NewNode(root, PENDING), state)
<1> DEFINE empty == supporters(s, NewNode(root, EMPTY), state)
           full == supporters(s, NewNode(root, FULL), state)
           both == supporters(s, NewNode(root, PENDING), state)
<1>1. empty \subseteq both /\ full \subseteq both
  BY DEF supporters, is_ancestor, NewNode
<1>2. empty \cap full = {}
  BY DEF supporters, is_ancestor, NewNode, EMPTY, FULL, PENDING
<1>3. /\ IsFiniteSet(empty) /\ IsFiniteSet(full) /\ IsFiniteSet(both)
      /\ both \in SUBSET ValidatorIndex
      /\ get_attestation_score(s, NewNode(root, EMPTY), state) = Total(balances, empty)
      /\ get_attestation_score(s, NewNode(root, FULL), state) = Total(balances, full)
      /\ get_attestation_score(s, NewNode(root, PENDING), state) = Total(balances, both)
  BY SupportersType
<1> HIDE DEF empty, full, both
<1>4. \A i \in both : balances[i] \in Nat
  BY <1>3, BalancesType
<1>5. Total(balances, empty \cup full) = Total(balances, empty) + Total(balances, full)
  <2>1. \A i \in empty \cup full : balances[i] \in Nat
    BY <1>1, <1>4
  <2> QED BY <1>2, <1>3, <2>1, TotalUnion
<1>6. Total(balances, empty \cup full) <= Total(balances, both)
  <2>1. empty \cup full \subseteq both
    BY <1>1
  <2> QED BY <1>3, <1>4, <2>1, TotalMonotone
<1> QED BY <1>3, <1>5, <1>6

(* The known children of a branch, each younger than the branch.           *)
ChildrenOf(s, branch, nodes) ==
  \A n \in nodes :
    /\ n.root \in DOMAIN s.blocks
    /\ n = NewNode(n.root, PENDING)
    /\ parent_node(s, n) = branch
    /\ block_slot(s, branch.root) < block_slot(s, n.root)

(* A vote's walk passes through one child only.                            *)
LEMMA OneChild ==
  ASSUME NEW s, IsStore(s), NEW branch \in ForkChoiceNode, NEW nodes, ChildrenOf(s, branch, nodes),
         Descending(s, block_slot(s, branch.root)), NEW node \in ForkChoiceNode,
         NEW c \in nodes, get_ancestor(s, node, block_slot(s, c.root)).root = c.root,
         NEW d \in nodes, get_ancestor(s, node, block_slot(s, d.root)).root = d.root,
         block_slot(s, c.root) <= block_slot(s, d.root)
  PROVE  c = d
<1> DEFINE b == block_slot(s, branch.root)
           sc == block_slot(s, c.root)
           sd == block_slot(s, d.root)
<1>1. b \in Nat /\ sc \in Nat /\ sd \in Nat /\ b < sc /\ b < sd /\ sc <= sd
  BY BlockSlotType DEF ChildrenOf
<1>2. CASE sc = sd
  <2>1. c.root = d.root
    BY <1>2
  <2> QED BY <2>1 DEF ChildrenOf
<1>3. CASE sc < sd
  <2>1. Descending(s, sc)
    <3>1. b <= sc
      BY <1>1
    <3> HIDE DEF b, sc
    <3> QED BY <1>1, <3>1, DescendingAbove DEF b
  <2>2. /\ d.root \in DOMAIN s.blocks
        /\ parent_node(s, NewNode(d.root, PENDING)) = branch
    BY DEF ChildrenOf
  <2>3. get_ancestor(s, node, sc) = branch
    <3>1. b <= sc
      BY <1>1
    <3> QED BY <1>1, <1>3, <2>1, <2>2, <3>1, BranchOfChild
  <2>4. c.root = branch.root
    BY <2>3
  <2> QED BY <1>1, <2>4
<1> QED BY <1>1, <1>2, <1>3

(* Scores add up like balances.                                            *)
LEMMA ScoreSumIsTotal ==
  ASSUME NEW s, NEW state, state.validators \subseteq ValidatorIndex,
         NEW nodes, IsFiniteSet(nodes)
  PROVE  score_sum(s, state, nodes)
           = Total([n \in nodes |-> get_attestation_score(s, n, state)], nodes)
<1> DEFINE score == [n \in nodes |-> get_attestation_score(s, n, state)]
           sum == CHOOSE iter : iter = [t \in SUBSET nodes |->
                    IF t = {} THEN 0
                    ELSE LET x == CHOOSE x \in t : TRUE
                         IN  get_attestation_score(s, x, state) + iter[t \ {x}]]
           f == [t \in SUBSET nodes |-> Total(score, t)]
<1>1. \A n \in nodes : score[n] \in Nat
  BY SupportersType
<1>2. Sums(score, nodes, f)
  <2> HIDE DEF score
  <2> QED BY <1>1, TotalSums
<1>8. \A t \in SUBSET nodes : t # {} =>
        LET x == CHOOSE x \in t : TRUE IN score[x] = get_attestation_score(s, x, state)
  <2> SUFFICES ASSUME NEW t \in SUBSET nodes, t # {}
               PROVE  LET x == CHOOSE x \in t : TRUE
                      IN  score[x] = get_attestation_score(s, x, state)
    OBVIOUS
  <2> DEFINE x == CHOOSE x \in t : TRUE
  <2>1. x \in t
    OBVIOUS
  <2> HIDE DEF x
  <2>2. score[x] = get_attestation_score(s, x, state)
    BY <2>1
  <2> QED BY <2>2 DEF x
<1>3. f = [t \in SUBSET nodes |->
             IF t = {} THEN 0
             ELSE LET x == CHOOSE x \in t : TRUE
                  IN  get_attestation_score(s, x, state) + f[t \ {x}]]
  <2> SUFFICES ASSUME NEW t \in SUBSET nodes
               PROVE  f[t] = IF t = {} THEN 0
                             ELSE LET x == CHOOSE x \in t : TRUE
                                  IN  get_attestation_score(s, x, state) + f[t \ {x}]
    OBVIOUS
  <2> DEFINE x == CHOOSE x \in t : TRUE
  <2> HIDE DEF score
  <2>1. f[t] = IF t = {} THEN 0 ELSE score[x] + f[t \ {x}]
    BY <1>2 DEF Sums
  <2>2. t # {} => score[x] = get_attestation_score(s, x, state)
    BY <1>8
  <2> HIDE DEF f, x
  <2> QED BY <2>1, <2>2 DEF x
<1>4. sum = [t \in SUBSET nodes |->
               IF t = {} THEN 0
               ELSE LET x == CHOOSE x \in t : TRUE
                    IN  get_attestation_score(s, x, state) + sum[t \ {x}]]
  <2> HIDE DEF f
  <2> QED BY <1>3
<1>5. score_sum(s, state, nodes) = sum[nodes]
  BY DEF score_sum, MapThenSumSet, MapThenFoldSet
<1> HIDE DEF sum, f, score
<1>6. Sums(score, nodes, sum)
  <2> SUFFICES ASSUME NEW t \in SUBSET nodes
               PROVE  sum[t] = IF t = {} THEN 0
                               ELSE LET x == CHOOSE x \in t : TRUE
                                    IN  score[x] + sum[t \ {x}]
    BY DEF Sums
  <2> DEFINE x == CHOOSE x \in t : TRUE
  <2>1. sum[t] = IF t = {} THEN 0 ELSE get_attestation_score(s, x, state) + sum[t \ {x}]
    BY <1>4
  <2>2. t # {} => score[x] = get_attestation_score(s, x, state)
    BY <1>8
  <2> HIDE DEF x
  <2> QED BY <2>1, <2>2 DEF x
<1>7. sum[nodes] = Total(score, nodes)
  <2>1. nodes \in SUBSET nodes
    OBVIOUS
  <2> QED BY <1>1, <1>6, <2>1, SumsAreTotals
<1> QED BY <1>5, <1>7 DEF score

(* The children of a branch share its weight.                              *)
LEMMA ChildrenSplit ==
  ASSUME NEW s, IsStore(s), NEW state, state.validators \subseteq ValidatorIndex,
         NEW branch \in ForkChoiceNode, NEW nodes, IsFiniteSet(nodes),
         ChildrenOf(s, branch, nodes), Descending(s, block_slot(s, branch.root)),
         \A i \in DOMAIN s.latest_messages :
           get_supported_node(s, s.latest_messages[i]) \in ForkChoiceNode
  PROVE  score_sum(s, state, nodes) <= get_attestation_score(s, branch, state)
<1> DEFINE support == supporters(s, branch, state)
           voters == [n \in nodes |-> supporters(s, n, state)]
           score == [n \in nodes |-> get_attestation_score(s, n, state)]
           vote(i) == get_supported_node(s, s.latest_messages[i])
<1>1. ASSUME NEW n \in nodes, NEW i \in voters[n]
      PROVE  /\ vote(i) \in ForkChoiceNode
             /\ get_ancestor(s, vote(i), block_slot(s, n.root)).root = n.root
  BY DEF supporters, is_ancestor
<1>2. ASSUME NEW n \in nodes PROVE voters[n] \subseteq support
  <2> SUFFICES ASSUME NEW i \in voters[n] PROVE i \in support
    OBVIOUS
  <2>1. /\ vote(i) \in ForkChoiceNode
        /\ get_ancestor(s, vote(i), block_slot(s, n.root)).root = n.root
    BY <1>1
  <2>2. /\ n.root \in DOMAIN s.blocks
        /\ parent_node(s, NewNode(n.root, PENDING)) = branch
        /\ block_slot(s, branch.root) < block_slot(s, n.root)
    BY DEF ChildrenOf
  <2>3. block_slot(s, branch.root) \in Nat /\ block_slot(s, branch.root) <= block_slot(s, branch.root)
    BY BlockSlotType
  <2>4. get_ancestor(s, vote(i), block_slot(s, branch.root)) = branch
    <3> HIDE DEF vote
    <3> QED BY <2>1, <2>2, <2>3, BranchOfChild
  <2>5. is_ancestor(s, vote(i), branch)
    BY <2>4 DEF is_ancestor
  <2> QED BY <2>5 DEF supporters
<1>3. ASSUME NEW c \in nodes, NEW d \in nodes, c # d PROVE voters[c] \cap voters[d] = {}
  <2> SUFFICES ASSUME NEW i \in voters[c], i \in voters[d] PROVE FALSE
    OBVIOUS
  <2>1. /\ vote(i) \in ForkChoiceNode
        /\ get_ancestor(s, vote(i), block_slot(s, c.root)).root = c.root
        /\ get_ancestor(s, vote(i), block_slot(s, d.root)).root = d.root
    BY <1>1
  <2>2. \/ block_slot(s, c.root) <= block_slot(s, d.root)
        \/ block_slot(s, d.root) <= block_slot(s, c.root)
    BY BlockSlotType
  <2> HIDE DEF vote, voters
  <2> QED BY <1>3, <2>1, <2>2, OneChild
<1>4. /\ IsFiniteSet(support)
      /\ \A i \in support : balances[i] \in Nat
      /\ get_attestation_score(s, branch, state) = Total(balances, support)
  BY SupportersType, BalancesType
<1>5. \A n \in nodes : score[n] = Total(balances, voters[n])
  BY SupportersType
<1> HIDE DEF support, voters, score
<1>6. Total(score, nodes) <= Total(balances, support)
  BY <1>2, <1>3, <1>4, <1>5, TotalOfParts
<1>7. score_sum(s, state, nodes) = Total(score, nodes)
  BY ScoreSumIsTotal DEF score
<1> QED BY <1>4, <1>6, <1>7
-----------------------------------------------------------------------------
(* Descent.  In a tree whose slots grow from parent to child the ancestor  *)
(* walk makes the blocks a partial order.                                  *)

Tree(s) ==
  /\ IsStore(s)
  /\ IsFiniteSet(DOMAIN s.blocks)
  /\ \A child \in DOMAIN s.blocks :
       s.blocks[child].parent_root \in DOMAIN s.blocks
         => s.blocks[s.blocks[child].parent_root].slot < s.blocks[child].slot

LEMMA TreeDescends ==
  ASSUME NEW s, Tree(s)
  PROVE  IsStore(s) /\ \A slot \in Nat : Descending(s, slot)
<1> SUFFICES ASSUME NEW slot \in Nat, NEW root \in DOMAIN s.blocks, s.blocks[root].slot > slot
             PROVE  block_slot(s, s.blocks[root].parent_root) < s.blocks[root].slot
  BY DEF Tree, Descending
<1>1. s.blocks[root].slot \in Nat
  BY DEF Tree, IsStore, StoreOver, BeaconBlock
<1>2. CASE s.blocks[root].parent_root \in DOMAIN s.blocks
  BY <1>2 DEF Tree, block_slot, block_at
<1>3. CASE s.blocks[root].parent_root \notin DOMAIN s.blocks
  <2>1. block_slot(s, s.blocks[root].parent_root) = 0
    BY <1>3, ConfigAssumption DEF block_slot, block_at
  <2> QED BY <1>1, <2>1
<1> QED BY <1>2, <1>3

below(s, root, ancestor) ==
  is_ancestor(s, NewNode(root, PENDING), NewNode(ancestor, PENDING))

(* The payload status of a node does not decide which blocks it descends   *)
(* from.                                                                   *)
LEMMA AncestorRoot ==
  ASSUME NEW s, Tree(s), NEW slot \in Nat, NEW node \in ForkChoiceNode
  PROVE  get_ancestor(s, node, slot).root
           = get_ancestor(s, NewNode(node.root, PENDING), slot).root
<1> DEFINE other == NewNode(node.root, PENDING)
<1>1. node.root \in Root
  BY DEF ForkChoiceNode
<1>2. other \in ForkChoiceNode /\ other.root = node.root
  BY <1>1, NewNodeType DEF PayloadStatus
<1> HIDE DEF other
<1>3. parent_node(s, other) = parent_node(s, node)
  BY <1>2 DEF parent_node
<1>4. /\ get_ancestor(s, node, slot)
           = IF block_slot(s, node.root) > slot
             THEN get_ancestor(s, parent_node(s, node), slot) ELSE node
      /\ get_ancestor(s, other, slot)
           = IF block_slot(s, other.root) > slot
             THEN get_ancestor(s, parent_node(s, other), slot) ELSE other
  BY TreeDescends, <1>2, AncestorEquation
<1> QED BY <1>2, <1>3, <1>4 DEF other

LEMMA BelowMeans ==
  ASSUME NEW s, NEW root, NEW ancestor
  PROVE  below(s, root, ancestor)
           <=> get_ancestor(s, NewNode(root, PENDING), block_slot(s, ancestor)).root = ancestor
BY DEF below, is_ancestor, NewNode, PENDING

(* A node descends from a block as its root does.                          *)
LEMMA NodeBelow ==
  ASSUME NEW s, Tree(s), NEW node \in ForkChoiceNode, NEW ancestor
  PROVE  is_ancestor(s, node, NewNode(ancestor, PENDING)) <=> below(s, node.root, ancestor)
<1>1. block_slot(s, ancestor) \in Nat
  BY TreeDescends, BlockSlotType
<1>2. is_ancestor(s, node, NewNode(ancestor, PENDING))
        <=> get_ancestor(s, node, block_slot(s, ancestor)).root = ancestor
  BY DEF is_ancestor, NewNode, PENDING
<1> QED BY <1>1, <1>2, AncestorRoot, BelowMeans

LEMMA PendingNode ==
  ASSUME NEW root \in Root
  PROVE  NewNode(root, PENDING) \in ForkChoiceNode /\ NewNode(root, PENDING).root = root
BY NewNodeType DEF PayloadStatus

LEMMA BelowSelf ==
  ASSUME NEW s, Tree(s), NEW root \in Root
  PROVE  below(s, root, root)
<1> DEFINE node == NewNode(root, PENDING)
           slot == block_slot(s, root)
<1>1. node \in ForkChoiceNode /\ node.root = root /\ slot \in Nat
  BY TreeDescends, PendingNode, BlockSlotType
<1>2. get_ancestor(s, node, slot) = IF block_slot(s, node.root) > slot
                                    THEN get_ancestor(s, parent_node(s, node), slot) ELSE node
  <2> HIDE DEF node, slot
  <2> QED BY TreeDescends, <1>1, AncestorEquation
<1>3. ~ (slot > slot)
  BY <1>1
<1>4. get_ancestor(s, node, slot).root = root
  BY ONLY <1>1, <1>2, <1>3
<1> QED BY <1>4, BelowMeans

LEMMA BelowSlots ==
  ASSUME NEW s, Tree(s), NEW root \in Root, NEW ancestor, below(s, root, ancestor)
  PROVE  block_slot(s, ancestor) <= block_slot(s, root)
<1> DEFINE node == NewNode(root, PENDING)
           slot == block_slot(s, ancestor)
<1>1. node \in ForkChoiceNode /\ node.root = root /\ slot \in Nat /\ block_slot(s, root) \in Nat
  BY TreeDescends, PendingNode, BlockSlotType
<1>2. get_ancestor(s, node, slot) = IF block_slot(s, node.root) > slot
                                    THEN get_ancestor(s, parent_node(s, node), slot) ELSE node
  <2> HIDE DEF node, slot
  <2> QED BY TreeDescends, <1>1, AncestorEquation
<1>3. get_ancestor(s, node, slot).root = ancestor
  BY BelowMeans
<1>4. CASE block_slot(s, root) > slot
  BY <1>1, <1>4
<1>5. CASE ~ (block_slot(s, root) > slot)
  <2>1. root = ancestor
    BY ONLY <1>1, <1>2, <1>3, <1>5
  <2> QED BY <1>1, <2>1
<1> QED BY <1>4, <1>5

LEMMA BelowTransitive ==
  ASSUME NEW s, Tree(s), NEW root \in Root, NEW middle \in Root, NEW ancestor,
         below(s, root, middle), below(s, middle, ancestor)
  PROVE  below(s, root, ancestor)
<1> DEFINE node == NewNode(root, PENDING)
           slot == block_slot(s, ancestor)
           later == block_slot(s, middle)
           found == get_ancestor(s, node, later)
<1>1. node \in ForkChoiceNode /\ slot \in Nat /\ later \in Nat /\ slot <= later
  BY TreeDescends, PendingNode, BlockSlotType, BelowSlots
<1>2. found.root = middle /\ get_ancestor(s, NewNode(middle, PENDING), slot).root = ancestor
  BY BelowMeans
<1> HIDE DEF node, slot, later
<1>3. found \in ForkChoiceNode
  BY TreeDescends, <1>1, AncestorType
<1>4. get_ancestor(s, found, slot) = get_ancestor(s, node, slot)
  BY TreeDescends, <1>1, AncestorOfAncestor
<1>5. get_ancestor(s, found, slot).root = ancestor
  BY <1>1, <1>2, <1>3, AncestorRoot
<1> QED BY <1>4, <1>5, BelowMeans DEF node, slot

(* Two ancestors of a block are on one chain.                              *)
LEMMA BelowLinear ==
  ASSUME NEW s, Tree(s), NEW root \in Root, NEW middle \in Root, NEW ancestor,
         below(s, root, middle), below(s, root, ancestor),
         block_slot(s, ancestor) <= block_slot(s, middle)
  PROVE  below(s, middle, ancestor)
<1> DEFINE node == NewNode(root, PENDING)
           slot == block_slot(s, ancestor)
           later == block_slot(s, middle)
           found == get_ancestor(s, node, later)
<1>1. node \in ForkChoiceNode /\ slot \in Nat /\ later \in Nat /\ slot <= later
  BY TreeDescends, PendingNode, BlockSlotType
<1>2. found.root = middle /\ get_ancestor(s, node, slot).root = ancestor
  BY BelowMeans
<1> HIDE DEF node, slot, later
<1>3. found \in ForkChoiceNode
  BY TreeDescends, <1>1, AncestorType
<1>4. get_ancestor(s, found, slot) = get_ancestor(s, node, slot)
  BY TreeDescends, <1>1, AncestorOfAncestor
<1>5. get_ancestor(s, NewNode(middle, PENDING), slot).root = ancestor
  BY <1>1, <1>2, <1>3, <1>4, AncestorRoot
<1> QED BY <1>5, BelowMeans DEF slot

(* A child descends from what its parent descends from.                    *)
LEMMA BelowParent ==
  ASSUME NEW s, Tree(s), NEW child \in DOMAIN s.blocks, NEW ancestor,
         s.blocks[child].parent_root \in DOMAIN s.blocks,
         below(s, s.blocks[child].parent_root, ancestor)
  PROVE  below(s, child, ancestor)
<1> DEFINE node == NewNode(child, PENDING)
           parent == s.blocks[child].parent_root
           slot == block_slot(s, ancestor)
<1>1. /\ child \in Root /\ parent \in Root /\ node \in ForkChoiceNode /\ node.root = child
      /\ slot \in Nat /\ block_slot(s, parent) \in Nat /\ block_slot(s, child) \in Nat
  BY TreeDescends, PendingNode, BlockSlotType DEF IsStore, StoreOver, BeaconBlock
<1>2. block_slot(s, child) > slot
  <2>1. slot <= block_slot(s, parent)
    BY <1>1, BelowSlots
  <2>2. block_slot(s, parent) < block_slot(s, child)
    BY DEF Tree, block_slot, block_at
  <2> QED BY <1>1, <2>1, <2>2
<1>3. get_ancestor(s, NewNode(parent, PENDING), slot).root = ancestor
  BY BelowMeans
<1>4. parent_node(s, node) \in ForkChoiceNode /\ parent_node(s, node).root = parent
  BY TreeDescends, <1>1, ParentNodeType
<1> HIDE DEF node, parent, slot
<1>5. get_ancestor(s, node, slot) = get_ancestor(s, parent_node(s, node), slot)
  BY TreeDescends, <1>1, <1>2, AncestorEquation
<1>6. get_ancestor(s, parent_node(s, node), slot).root = ancestor
  BY <1>1, <1>3, <1>4, AncestorRoot
<1> QED BY <1>5, <1>6, BelowMeans DEF node, slot

(* Some slot is as high as every block's.                                  *)
LEMMA HighestSlot ==
  ASSUME NEW s, Tree(s)
  PROVE  \E top \in Nat : \A root \in DOMAIN s.blocks : s.blocks[root].slot <= top
<1> DEFINE S == DOMAIN s.blocks
           R == {pair \in S \X S : s.blocks[pair[2]].slot <= s.blocks[pair[1]].slot}
<1>1. \A root \in S : s.blocks[root].slot \in Nat
  BY DEF Tree, IsStore, StoreOver, BeaconBlock
<1>2. CASE S = {}
  <2>1. 0 \in Nat /\ \A root \in S : s.blocks[root].slot <= 0
    BY <1>2
  <2> QED BY <2>1
<1>3. CASE S # {}
  <2>1. \A a, b \in S : <<a, b>> \in R <=> s.blocks[b].slot <= s.blocks[a].slot
    OBVIOUS
  <2>2. /\ \A a, b \in S : <<a, b>> \in R \/ <<b, a>> \in R
        /\ \A a, b, c \in S : <<a, b>> \in R /\ <<b, c>> \in R => <<a, c>> \in R
    <3> HIDE DEF S, R
    <3> QED BY <1>1, <2>1
  <2>3. IsFiniteSet(S)
    BY DEF Tree
  <2>4. PICK best \in S : \A other \in S : <<best, other>> \in R
    <3> HIDE DEF S, R
    <3> QED BY <1>3, <2>2, <2>3, BestExists
  <2>5. \A other \in S : s.blocks[other].slot <= s.blocks[best].slot
    BY <2>1, <2>4
  <2> QED BY <1>1, <2>5
<1> QED BY <1>2, <1>3

(* How far a block is from the highest slot: children are nearer.          *)
Heights(s, height) ==
  /\ height \in [Root -> Nat]
  /\ \A root \in Root : \A child \in children_of(s, root) :
       child \in Root /\ height[child] < height[root]

LEMMA HeightsExist ==
  ASSUME NEW s, Tree(s)
  PROVE  \E height : Heights(s, height)
<1>1. PICK top \in Nat : \A root \in DOMAIN s.blocks : s.blocks[root].slot <= top
  BY HighestSlot
<1> DEFINE height == [root \in Root |-> IF root \in DOMAIN s.blocks
                                        THEN top - s.blocks[root].slot ELSE top + 1]
<1>2. \A root \in DOMAIN s.blocks : s.blocks[root].slot \in Nat /\ root \in Root
  BY DEF Tree, IsStore, StoreOver, BeaconBlock
<1>3. \A root \in DOMAIN s.blocks : top - s.blocks[root].slot \in Nat
  BY <1>1, <1>2
<1>4. height \in [Root -> Nat]
  BY <1>3
<1>5. ASSUME NEW root \in Root, NEW child \in children_of(s, root)
      PROVE  child \in Root /\ height[child] < height[root]
  <2>1. child \in DOMAIN s.blocks /\ s.blocks[child].parent_root = root /\ child \in Root
    BY <1>2 DEF children_of
  <2>2. height[child] = top - s.blocks[child].slot
    BY <2>1
  <2>3. CASE root \in DOMAIN s.blocks
    <3>1. s.blocks[root].slot < s.blocks[child].slot
      BY <2>1, <2>3 DEF Tree
    <3>2. height[root] = top - s.blocks[root].slot
      BY <2>3
    <3> HIDE DEF height
    <3> QED BY <1>2, <2>1, <2>2, <2>3, <3>1, <3>2
  <2>4. CASE root \notin DOMAIN s.blocks
    <3>1. height[root] = top + 1
      BY <2>4
    <3> HIDE DEF height
    <3> QED BY <1>2, <2>1, <2>2, <3>1
  <2> QED BY <2>3, <2>4
<1> HIDE DEF height
<1> QED BY <1>4, <1>5 DEF Heights

-----------------------------------------------------------------------------
(* The filtered tree.                                                      *)

Filters(s, f) ==
  /\ DOMAIN f = Root
  /\ \A root \in Root :
       LET children == children_of(s, root)
           kept == UNION {f[child] : child \in children}
       IN  f[root] = IF children = {}
                     THEN IF is_viable_leaf(s, root) THEN {root} ELSE {}
                     ELSE IF kept = {} THEN {} ELSE kept \cup {root}

LEMMA FilterExists ==
  ASSUME NEW s, Tree(s), s.justified_checkpoint.root \in Root
  PROVE  \E f : Filters(s, f) /\ get_filtered_block_tree(s) = f[s.justified_checkpoint.root]
<1> DEFINE S == Root
           V == SUBSET Root
           pred == [root \in S |-> children_of(s, root)]
           kept(root, f) == UNION {f[child] : child \in pred[root]}
           viable == {root \in S : is_viable_leaf(s, root)}
           body == [a \in S \X [S -> V] |->
                      IF pred[a[1]] = {}
                      THEN IF a[1] \in viable THEN {a[1]} ELSE {}
                      ELSE IF kept(a[1], a[2]) = {} THEN {} ELSE kept(a[1], a[2]) \cup {a[1]}]
           filter == CHOOSE w : w = [root \in Root |->
                       LET children == children_of(s, root)
                           below_kept == UNION {w[child] : child \in children}
                       IN  IF children = {}
                           THEN IF is_viable_leaf(s, root) THEN {root} ELSE {}
                           ELSE IF below_kept = {} THEN {} ELSE below_kept \cup {root}]
<1>1. PICK height : Heights(s, height)
  BY HeightsExist
<1>2. \A n \in S : pred[n] \subseteq S /\ \A p \in pred[n] : height[p] < height[n]
  BY <1>1 DEF Heights
<1>3. Recursion(S, V, pred, height, body)
  <2>1. V # {} /\ height \in [S -> Nat]
    BY <1>1 DEF Heights
  <2> HIDE DEF pred, viable
  <2>2. ASSUME NEW n \in S, NEW f \in [S -> V] PROVE kept(n, f) \in V
    BY <1>2
  <2>3. body \in [S \X [S -> V] -> V]
    <3> HIDE DEF kept
    <3>1. \A a \in S \X [S -> V] :
            (IF pred[a[1]] = {}
             THEN IF a[1] \in viable THEN {a[1]} ELSE {}
             ELSE IF kept(a[1], a[2]) = {} THEN {} ELSE kept(a[1], a[2]) \cup {a[1]}) \in V
      BY <2>2
    <3> QED BY <3>1
  <2>4. ASSUME NEW n \in S, NEW f \in [S -> V], NEW g \in [S -> V],
               \A p \in pred[n] : f[p] = g[p]
        PROVE  body[<<n, f>>] = body[<<n, g>>]
    <3>1. kept(n, f) = kept(n, g)
      BY <2>4
    <3> HIDE DEF kept
    <3> QED BY <3>1
  <2> HIDE DEF S, V, body
  <2> QED BY <1>2, <2>1, <2>3, <2>4 DEF Recursion
<1>4. PICK f \in [S -> V] : \A n \in S : f[n] = body[<<n, f>>]
  <2> HIDE DEF S, V, pred, body
  <2> QED BY <1>3, RecursionExists
<1>5. \A root \in Root :
        f[root] = IF children_of(s, root) = {}
                  THEN IF is_viable_leaf(s, root) THEN {root} ELSE {}
                  ELSE IF UNION {f[child] : child \in children_of(s, root)} = {} THEN {}
                       ELSE {root} \cup UNION {f[child] : child \in children_of(s, root)}
  <2> SUFFICES ASSUME NEW root \in Root
               PROVE  f[root] = IF children_of(s, root) = {}
                  THEN IF is_viable_leaf(s, root) THEN {root} ELSE {}
                  ELSE IF UNION {f[child] : child \in children_of(s, root)} = {} THEN {}
                       ELSE {root} \cup UNION {f[child] : child \in children_of(s, root)}
    OBVIOUS
  <2>1. pred[root] = children_of(s, root) /\ (root \in viable <=> is_viable_leaf(s, root))
    OBVIOUS
  <2>2. f[root] = body[<<root, f>>]
    BY <1>4
  <2>3. kept(root, f) = UNION {f[child] : child \in children_of(s, root)}
    BY <2>1
  <2> HIDE DEF pred, viable, kept
  <2>4. body[<<root, f>>] =
          IF pred[root] = {}
                      THEN IF root \in viable THEN {root} ELSE {}
                      ELSE IF kept(root, f) = {} THEN {} ELSE kept(root, f) \cup {root}
    OBVIOUS
  <2> HIDE DEF body
  <2> QED BY ONLY <2>1, <2>2, <2>3, <2>4
<1> HIDE DEF S, V, pred, viable, kept, body
<1>6. f \in [Root -> SUBSET Root]
  BY <1>4 DEF S, V
<1>7. f = [root \in Root |->
             LET children == children_of(s, root)
                 below_kept == UNION {f[child] : child \in children}
             IN  IF children = {}
                 THEN IF is_viable_leaf(s, root) THEN {root} ELSE {}
                 ELSE IF below_kept = {} THEN {} ELSE below_kept \cup {root}]
  BY <1>5, <1>6
<1>8. filter = [root \in Root |->
             LET children == children_of(s, root)
                 below_kept == UNION {filter[child] : child \in children}
             IN  IF children = {}
                 THEN IF is_viable_leaf(s, root) THEN {root} ELSE {}
                 ELSE IF below_kept = {} THEN {} ELSE below_kept \cup {root}]
  BY <1>7
<1>9. get_filtered_block_tree(s) = filter[s.justified_checkpoint.root]
  BY DEF get_filtered_block_tree
<1> HIDE DEF filter
<1>10. \A root \in Root :
         LET children == children_of(s, root)
             below_kept == UNION {filter[child] : child \in children}
         IN  filter[root] = IF children = {}
                 THEN IF is_viable_leaf(s, root) THEN {root} ELSE {}
                 ELSE IF below_kept = {} THEN {} ELSE below_kept \cup {root}
  BY <1>8
<1>11. DOMAIN filter = Root
  BY <1>8
<1> QED BY <1>9, <1>10, <1>11 DEF Filters

(* A child of a known block descends from it.                              *)
LEMMA ChildBelow ==
  ASSUME NEW s, Tree(s), NEW root \in DOMAIN s.blocks, NEW child \in children_of(s, root)
  PROVE  child \in DOMAIN s.blocks /\ child \in Root /\ root \in Root /\ below(s, child, root)
<1>1. child \in DOMAIN s.blocks /\ s.blocks[child].parent_root = root
  BY DEF children_of
<1>2. child \in Root /\ root \in Root
  BY <1>1, TreeDescends DEF IsStore
<1>3. below(s, root, root)
  BY <1>2, BelowSelf
<1> QED BY <1>1, <1>2, <1>3, BelowParent

(* The filter keeps blocks that descend from the block it starts at, each  *)
(* with what the filter keeps above it.                                    *)
Keeps(s, f, root, r) ==
  /\ r \in DOMAIN s.blocks
  /\ below(s, r, root)
  /\ r \in f[r]
  /\ f[r] \subseteq f[root]

LEMMA FilterKeeps ==
  ASSUME NEW s, Tree(s), NEW f, Filters(s, f), NEW root \in DOMAIN s.blocks, NEW r \in f[root]
  PROVE  Keeps(s, f, root, r)
<1> DEFINE bad == {n \in DOMAIN s.blocks : \E kept \in f[n] : ~ Keeps(s, f, n, kept)}
<1> SUFFICES ASSUME bad # {} PROVE FALSE
  OBVIOUS
<1>1. PICK height : Heights(s, height)
  BY HeightsExist
<1>2. DOMAIN s.blocks \subseteq Root
  BY TreeDescends DEF IsStore
<1> DEFINE ranks == {height[n] : n \in bad}
<1>3. ranks \subseteq Nat /\ ranks # {}
  <2>1. \A n \in Root : height[n] \in Nat
    BY <1>1 DEF Heights
  <2>2. bad \subseteq Root
    BY <1>2
  <2> HIDE DEF bad
  <2> QED BY <2>1, <2>2
<1>4. PICK m \in ranks : \A other \in ranks : m <= other
  BY <1>3, LeastNatural
<1>5. PICK n \in bad : m = height[n]
  OBVIOUS
<1>6. PICK kept \in f[n] : ~ Keeps(s, f, n, kept)
  OBVIOUS
<1>7. n \in DOMAIN s.blocks /\ n \in Root
  BY <1>2
<1>8. below(s, n, n)
  BY <1>7, BelowSelf
<1>9. ASSUME NEW child \in children_of(s, n) PROVE child \notin bad
  <2>1. height[child] < height[n] /\ height[child] \in Nat /\ height[n] \in Nat
    BY <1>1, <1>7 DEF Heights
  <2>2. child \in bad => height[n] <= height[child]
    BY <1>4, <1>5
  <2> HIDE DEF bad
  <2> QED BY <2>1, <2>2
<1> DEFINE above == UNION {f[child] : child \in children_of(s, n)}
<1>10. f[n] = IF children_of(s, n) = {}
              THEN IF is_viable_leaf(s, n) THEN {n} ELSE {}
              ELSE IF above = {} THEN {} ELSE above \cup {n}
  BY <1>7 DEF Filters
<1>11. CASE kept = n
  BY <1>6, <1>7, <1>8, <1>11 DEF Keeps
<1>12. CASE kept # n
  <2>1. kept \in above /\ above \subseteq f[n]
    BY ONLY <1>6, <1>10, <1>12
  <2>2. PICK child \in children_of(s, n) : kept \in f[child]
    BY <2>1
  <2>3. child \in DOMAIN s.blocks /\ child \in Root /\ below(s, child, n)
    BY <1>7, ChildBelow
  <2>4. Keeps(s, f, child, kept)
    BY <1>9, <2>2, <2>3
  <2>5. kept \in Root
    BY <1>2, <2>4 DEF Keeps
  <2>6. below(s, kept, n)
    BY <2>3, <2>4, <2>5, BelowTransitive DEF Keeps
  <2>7. f[child] \subseteq f[n]
    BY <2>1
  <2> QED BY <1>6, <2>4, <2>6, <2>7 DEF Keeps
<1> QED BY <1>11, <1>12

(* Above every block that the filter keeps it has kept a viable leaf.      *)
LEMMA FilterLeaf ==
  ASSUME NEW s, Tree(s), NEW f, Filters(s, f), NEW root \in DOMAIN s.blocks, root \in f[root]
  PROVE  \E leaf \in DOMAIN s.blocks :
           /\ children_of(s, leaf) = {}
           /\ is_viable_leaf(s, leaf)
           /\ below(s, leaf, root)
<1> DEFINE leaves(n) == {leaf \in DOMAIN s.blocks : /\ children_of(s, leaf) = {}
                                                    /\ is_viable_leaf(s, leaf)
                                                    /\ below(s, leaf, n)}
           bad == {n \in DOMAIN s.blocks : n \in f[n] /\ leaves(n) = {}}
<1> SUFFICES ASSUME bad # {} PROVE FALSE
  OBVIOUS
<1>1. PICK height : Heights(s, height)
  BY HeightsExist
<1>2. DOMAIN s.blocks \subseteq Root
  BY TreeDescends DEF IsStore
<1> DEFINE ranks == {height[n] : n \in bad}
<1>3. ranks \subseteq Nat /\ ranks # {}
  <2>1. \A n \in Root : height[n] \in Nat
    BY <1>1 DEF Heights
  <2>2. bad \subseteq Root
    BY <1>2
  <2> HIDE DEF bad
  <2> QED BY <2>1, <2>2
<1>4. PICK m \in ranks : \A other \in ranks : m <= other
  BY <1>3, LeastNatural
<1>5. PICK n \in bad : m = height[n]
  OBVIOUS
<1>7. n \in DOMAIN s.blocks /\ n \in Root /\ n \in f[n] /\ leaves(n) = {}
  BY <1>2
<1>9. ASSUME NEW child \in children_of(s, n) PROVE child \notin bad
  <2>1. height[child] < height[n] /\ height[child] \in Nat /\ height[n] \in Nat
    BY <1>1, <1>7 DEF Heights
  <2>2. child \in bad => height[n] <= height[child]
    BY <1>4, <1>5
  <2> HIDE DEF bad
  <2> QED BY <2>1, <2>2
<1> DEFINE above == UNION {f[child] : child \in children_of(s, n)}
<1>10. f[n] = IF children_of(s, n) = {}
              THEN IF is_viable_leaf(s, n) THEN {n} ELSE {}
              ELSE IF above = {} THEN {} ELSE above \cup {n}
  BY <1>7 DEF Filters
<1>11. CASE children_of(s, n) = {}
  <2>1. is_viable_leaf(s, n)
    BY <1>7, <1>10, <1>11
  <2>2. below(s, n, n)
    BY <1>7, BelowSelf
  <2> QED BY <1>7, <1>11, <2>1, <2>2
<1>12. CASE children_of(s, n) # {}
  <2>1. above # {}
    BY ONLY <1>7, <1>10, <1>12
  <2>2. PICK child \in children_of(s, n) : f[child] # {}
    BY <2>1
  <2>3. child \in DOMAIN s.blocks /\ child \in Root /\ below(s, child, n)
    BY <1>7, ChildBelow
  <2>4. child \in f[child]
    BY <2>2, <2>3 DEF Filters
  <2>5. PICK leaf \in leaves(child) : TRUE
    BY <1>9, <2>3, <2>4
  <2>6. leaf \in Root /\ below(s, leaf, child)
    BY <1>2, <2>5
  <2>7. below(s, leaf, n)
    BY <1>7, <2>3, <2>6, BelowTransitive
  <2> QED BY <1>7, <2>5, <2>7
<1> QED BY <1>11, <1>12

-----------------------------------------------------------------------------
(* The head.                                                               *)

LEMMA WeightType ==
  ASSUME NEW s, Tree(s), justified_state(s).validators \subseteq ValidatorIndex, NEW node
  PROVE  get_weight(s, node) \in Nat
<1> DEFINE state == justified_state(s)
           voters == get_active_validator_indices(state, get_current_epoch(state))
<1>1. get_attestation_score(s, node, state) \in Nat
  BY SupportersType
<1>2. balance_of(voters) \in Nat
  <2>1. voters \in SUBSET ValidatorIndex
    BY DEF get_active_validator_indices
  <2> HIDE DEF voters
  <2>2. balance_of(voters) = Total(balances, voters) /\ IsFiniteSet(voters)
    BY <2>1, BalanceIsTotal
  <2> QED BY <2>1, <2>2, BalancesType, TotalType
<1>3. get_total_active_balance(state) \in Nat
  BY <1>2, ConfigAssumption DEF get_total_active_balance
<1> DEFINE part == get_total_active_balance(state) \div SLOTS_PER_EPOCH
<1>4. part \in Nat
  BY <1>3, ConfigAssumption
<1>5. part * PROPOSER_SCORE_BOOST \in Nat
  BY <1>4, ConfigAssumption
<1>6. get_proposer_score(s) = (part * PROPOSER_SCORE_BOOST) \div 100
  BY DEF get_proposer_score, compute_proposer_score, calculate_committee_fraction
<1> HIDE DEF part, state, voters
<1>7. get_proposer_score(s) \in Nat
  BY <1>5, <1>6
<1> QED BY <1>1, <1>7 DEF get_weight, state

(* Among the children of a node one beats them all.                        *)
best_child(s, children) ==
  CHOOSE best \in children : \A other \in children : beats(s, best, other)

LEMMA TiebreakerType ==
  ASSUME NEW s, NEW node \in ForkChoiceNode
  PROVE  get_payload_status_tiebreaker(s, node) \in Nat
BY DEF get_payload_status_tiebreaker, ForkChoiceNode, PayloadStatus, EMPTY, FULL, PENDING

LEMMA BestChild ==
  ASSUME NEW s, Tree(s), justified_state(s).validators \subseteq ValidatorIndex,
         NEW children, children \subseteq ForkChoiceNode, IsFiniteSet(children), children # {}
  PROVE  /\ best_child(s, children) \in children
         /\ \A other \in children : beats(s, best_child(s, children), other)
<1> DEFINE R == {pair \in children \X children : beats(s, pair[1], pair[2])}
           w == [n \in children |-> get_weight(s, n)]
           t == [n \in children |-> get_payload_status_tiebreaker(s, n)]
           r == [n \in children |-> n.root]
<1>1. \A n \in children : w[n] \in Nat /\ t[n] \in Nat /\ r[n] \in Nat
  BY WeightType, TiebreakerType, ConfigAssumption DEF ForkChoiceNode
<1>2. \A a, b \in children :
        <<a, b>> \in R <=>
          \/ w[a] > w[b]
          \/ w[a] = w[b] /\ r[a] > r[b]
          \/ w[a] = w[b] /\ r[a] = r[b] /\ t[a] >= t[b]
  BY DEF beats
<1>3. \A a, b \in children : <<a, b>> \in R <=> beats(s, a, b)
  OBVIOUS
<1> HIDE DEF R, w, t, r
<1>4. ASSUME NEW a \in children, NEW b \in children, <<b, a>> \notin R
      PROVE  <<a, b>> \in R
  <2>1. /\ ~ (w[b] > w[a])
        /\ ~ (w[b] = w[a] /\ r[b] > r[a])
        /\ ~ (w[b] = w[a] /\ r[b] = r[a] /\ t[b] >= t[a])
    BY <1>2, <1>4
  <2>2. /\ w[a] \in Nat /\ w[b] \in Nat /\ t[a] \in Nat /\ t[b] \in Nat
        /\ r[a] \in Nat /\ r[b] \in Nat
    BY <1>1
  <2>3. \/ w[a] > w[b]
        \/ w[a] = w[b] /\ r[a] > r[b]
        \/ w[a] = w[b] /\ r[a] = r[b] /\ t[a] >= t[b]
    BY ONLY <2>1, <2>2
  <2> QED BY <1>2, <2>3
<1>5. \A a, b, c \in children : <<a, b>> \in R /\ <<b, c>> \in R => <<a, c>> \in R
  BY <1>1, <1>2
<1>6. \E best \in children : \A other \in children : <<best, other>> \in R
  BY <1>4, <1>5, BestExists
<1>7. \E best \in children : \A other \in children : beats(s, best, other)
  BY <1>3, <1>6
<1> QED BY <1>7 DEF best_child

(* The children of a node are its payload nodes, or the kept blocks that   *)
(* build on it.                                                            *)
LEMMA NodeChildrenType ==
  ASSUME NEW s, Tree(s), NEW blocks, blocks \subseteq DOMAIN s.blocks, NEW node \in ForkChoiceNode
  PROVE  LET children == get_node_children(s, blocks, node)
         IN  /\ IsFiniteSet(children)
             /\ \A child \in children :
                  /\ child \in ForkChoiceNode
                  /\ IF node.payload_status = PENDING
                     THEN /\ child.root = node.root
                          /\ child.payload_status # PENDING
                          /\ child.payload_status = FULL => is_payload_verified(s, node.root)
                     ELSE /\ child.payload_status = PENDING
                          /\ child.root \in blocks
                          /\ child.root \in children_of(s, node.root)
<1> DEFINE children == get_node_children(s, blocks, node)
<1>1. node.root \in Root /\ DOMAIN s.blocks \subseteq Root
  BY TreeDescends DEF ForkChoiceNode, IsStore
<1>2. CASE node.payload_status = PENDING
  <2>1. children \subseteq {NewNode(node.root, EMPTY), NewNode(node.root, FULL)}
    BY <1>2 DEF get_node_children
  <2>2. IsFiniteSet({NewNode(node.root, EMPTY), NewNode(node.root, FULL)})
    <3>1. {NewNode(node.root, EMPTY), NewNode(node.root, FULL)}
            = {NewNode(node.root, EMPTY)} \cup {NewNode(node.root, FULL)}
      OBVIOUS
    <3>2. IsFiniteSet({NewNode(node.root, EMPTY)})
      BY FS_Singleton
    <3>3. IsFiniteSet({NewNode(node.root, EMPTY)} \cup {NewNode(node.root, FULL)})
      BY ONLY <3>2, FS_AddElement
    <3> QED BY <3>1, <3>3
  <2>3. IsFiniteSet(children)
    BY <2>1, <2>2, FS_Subset
  <2>4. \A status \in {EMPTY, FULL} :
          /\ NewNode(node.root, status) \in ForkChoiceNode
          /\ NewNode(node.root, status).root = node.root
          /\ NewNode(node.root, status).payload_status = status
    BY <1>1, NewNodeType DEF PayloadStatus
  <2>5. \A child \in children : child = NewNode(node.root, FULL) =>
          is_payload_verified(s, node.root)
    <3>1. NewNode(node.root, FULL) # NewNode(node.root, EMPTY)
      BY <2>4 DEF EMPTY, FULL
    <3> QED BY <1>2, <3>1 DEF get_node_children
  <2> HIDE DEF children
  <2>6. ASSUME NEW child \in children
        PROVE  /\ child \in ForkChoiceNode /\ child.root = node.root
               /\ child.payload_status # PENDING
               /\ child.payload_status = FULL => is_payload_verified(s, node.root)
    <3>1. CASE child = NewNode(node.root, EMPTY)
      BY <2>4, <3>1 DEF EMPTY, FULL, PENDING
    <3>2. CASE child = NewNode(node.root, FULL)
      BY <2>4, <2>5, <3>2 DEF EMPTY, FULL, PENDING
    <3> QED BY <2>1, <3>1, <3>2
  <2> QED BY <1>2, <2>3, <2>6 DEF children
<1>3. CASE node.payload_status # PENDING
  <2> DEFINE builders == {r \in blocks : /\ s.blocks[r].parent_root = node.root
                                         /\ get_parent_payload_status(s, s.blocks[r])
                                              = node.payload_status}
  <2>1. children = {NewNode(root, PENDING) : root \in builders}
    BY <1>3 DEF get_node_children
  <2>2. IsFiniteSet(builders)
    <3>1. IsFiniteSet(DOMAIN s.blocks) /\ builders \subseteq DOMAIN s.blocks
      BY DEF Tree
    <3> QED BY <3>1, FS_Subset
  <2>3. \A r \in builders : r \in blocks /\ r \in children_of(s, node.root) /\ r \in Root
    BY <1>1 DEF children_of
  <2> HIDE DEF children, builders
  <2>4. IsFiniteSet(children)
    <3> DEFINE node_of == [r \in builders |-> NewNode(r, PENDING)]
    <3>1. node_of \in Surjection(builders, children)
      BY <2>1 DEF Surjection
    <3> HIDE DEF node_of
    <3> QED BY <2>2, <3>1, FS_Surjection
  <2>5. ASSUME NEW child \in children
        PROVE  /\ child \in ForkChoiceNode /\ child.payload_status = PENDING
               /\ child.root \in blocks /\ child.root \in children_of(s, node.root)
    <3>1. PICK r \in builders : child = NewNode(r, PENDING)
      BY <2>1
    <3>2. child \in ForkChoiceNode /\ child.root = r /\ child.payload_status = PENDING
      BY <2>3, <3>1, NewNodeType DEF PayloadStatus
    <3> QED BY <2>3, <3>2
  <2> QED BY <1>3, <2>4, <2>5 DEF children
<1> QED BY <1>2, <1>3

(* A pending node comes before its payload nodes, and these before their   *)
(* children.                                                               *)
LEMMA NodeHeightsExist ==
  ASSUME NEW s, Tree(s), NEW blocks, blocks \subseteq DOMAIN s.blocks
  PROVE  \E rank \in [ForkChoiceNode -> Nat] :
           \A node \in ForkChoiceNode :
             \A child \in get_node_children(s, blocks, node) : rank[child] < rank[node]
<1>1. PICK height : Heights(s, height)
  BY HeightsExist
<1> DEFINE rank == [n \in ForkChoiceNode |->
                      2 * height[n.root] + (IF n.payload_status = PENDING THEN 1 ELSE 0)]
<1>2. \A n \in ForkChoiceNode : n.root \in Root /\ height[n.root] \in Nat
  BY <1>1 DEF Heights, ForkChoiceNode
<1>3. rank \in [ForkChoiceNode -> Nat]
  BY <1>2
<1>4. ASSUME NEW node \in ForkChoiceNode, NEW child \in get_node_children(s, blocks, node)
      PROVE  rank[child] < rank[node]
  <2>1. /\ child \in ForkChoiceNode
        /\ IF node.payload_status = PENDING
           THEN child.root = node.root /\ child.payload_status # PENDING
           ELSE child.payload_status = PENDING /\ child.root \in children_of(s, node.root)
    BY NodeChildrenType
  <2>2. /\ rank[child] = 2 * height[child.root]
                           + (IF child.payload_status = PENDING THEN 1 ELSE 0)
        /\ rank[node] = 2 * height[node.root]
                          + (IF node.payload_status = PENDING THEN 1 ELSE 0)
    BY <2>1
  <2>3. height[child.root] \in Nat /\ height[node.root] \in Nat
    BY <1>2, <2>1
  <2> HIDE DEF rank
  <2>4. CASE node.payload_status = PENDING
    BY <2>1, <2>2, <2>3, <2>4
  <2>5. CASE node.payload_status # PENDING
    <3>1. height[child.root] < height[node.root]
      BY <1>1, <1>2, <2>1, <2>5 DEF Heights
    <3> QED BY <2>1, <2>2, <2>3, <2>5, <3>1
  <2> QED BY <2>4, <2>5
<1> HIDE DEF rank
<1> QED BY <1>3, <1>4

(* The equation of get_head's walk.                                        *)
Descends(s, blocks, d) ==
  \A node \in ForkChoiceNode :
    LET children == get_node_children(s, blocks, node)
    IN  d[node] = IF children = {} THEN node ELSE d[best_child(s, children)]

LEMMA DescentExists ==
  ASSUME NEW s, Tree(s), justified_state(s).validators \subseteq ValidatorIndex,
         NEW blocks, blocks = get_filtered_block_tree(s), blocks \subseteq DOMAIN s.blocks
  PROVE  \E d : /\ Descends(s, blocks, d)
                /\ get_head(s) = d[NewNode(s.justified_checkpoint.root, PENDING)]
<1> DEFINE S == ForkChoiceNode
           children(n) == get_node_children(s, blocks, n)
           inner == {n \in S : children(n) # {}}
           next == [n \in inner |-> best_child(s, children(n))]
           pred == [n \in S |-> IF n \in inner THEN {next[n]} ELSE {}]
           body == [a \in S \X [S -> S] |-> IF a[1] \in inner THEN a[2][next[a[1]]] ELSE a[1]]
           descend == CHOOSE w : w = [node \in ForkChoiceNode |->
                        LET kids == get_node_children(s, blocks, node)
                        IN  IF kids = {} THEN node
                            ELSE w[CHOOSE best \in kids :
                                     \A other \in kids : beats(s, best, other)]]
<1>1. PICK rank \in [S -> Nat] :
        \A node \in S : \A child \in children(node) : rank[child] < rank[node]
  BY NodeHeightsExist
<1>2. ASSUME NEW n \in inner PROVE next[n] \in children(n) /\ next[n] \in S
  <2>1. n \in S /\ children(n) # {}
    OBVIOUS
  <2>2. IsFiniteSet(children(n)) /\ children(n) \subseteq ForkChoiceNode
    BY <2>1, NodeChildrenType
  <2>3. best_child(s, children(n)) \in children(n)
    <3> HIDE DEF children
    <3> QED BY <2>1, <2>2, BestChild
  <2>4. next[n] = best_child(s, children(n))
    OBVIOUS
  <2> HIDE DEF next, children
  <2> QED BY <2>2, <2>3, <2>4
<1>3. Recursion(S, S, pred, rank, body)
  <2> HIDE DEF S, children, next
  <2>1. inner \subseteq S
    OBVIOUS
  <2> HIDE DEF inner
  <2>2. \A n \in S : pred[n] \subseteq S /\ \A other \in pred[n] : rank[other] < rank[n]
    BY <1>1, <1>2
  <2>3. body \in [S \X [S -> S] -> S]
    BY <1>2
  <2>4. \A n \in S, f, g \in [S -> S] :
          (\A other \in pred[n] : f[other] = g[other]) => body[<<n, f>>] = body[<<n, g>>]
    OBVIOUS
  <2>5. S # {}
    BY ConfigAssumption, NewNodeType DEF S, PayloadStatus
  <2> HIDE DEF pred, body
  <2> QED BY <1>1, <2>2, <2>3, <2>4, <2>5 DEF Recursion
<1>4. PICK f \in [S -> S] : \A n \in S : f[n] = body[<<n, f>>]
  <2> HIDE DEF S, pred, body
  <2> QED BY <1>3, RecursionExists
<1>5. \A n \in S : f[n] = IF children(n) = {} THEN n ELSE f[best_child(s, children(n))]
  <2> SUFFICES ASSUME NEW n \in S
               PROVE  f[n] = IF children(n) = {} THEN n ELSE f[best_child(s, children(n))]
    OBVIOUS
  <2>1. n \in inner => next[n] = best_child(s, children(n))
    OBVIOUS
  <2>2. n \in inner <=> children(n) # {}
    OBVIOUS
  <2> HIDE DEF next, inner, children
  <2>3. body[<<n, f>>] = IF n \in inner THEN f[next[n]] ELSE n
    OBVIOUS
  <2> HIDE DEF body
  <2> QED BY <1>4, <2>1, <2>2, <2>3
<1>6. f = [node \in ForkChoiceNode |->
             LET kids == get_node_children(s, blocks, node)
             IN  IF kids = {} THEN node
                 ELSE f[CHOOSE best \in kids : \A other \in kids : beats(s, best, other)]]
  <2>1. \A n \in S : f[n] = LET kids == get_node_children(s, blocks, n)
             IN  IF kids = {} THEN n
                 ELSE f[CHOOSE best \in kids : \A other \in kids : beats(s, best, other)]
    BY <1>5 DEF best_child
  <2> HIDE DEF inner, next, pred, body, children
  <2> QED BY <2>1
<1>7. descend = [node \in ForkChoiceNode |->
             LET kids == get_node_children(s, blocks, node)
             IN  IF kids = {} THEN node
                 ELSE descend[CHOOSE best \in kids : \A other \in kids : beats(s, best, other)]]
  <2> HIDE DEF S, inner, next, pred, body, children
  <2> QED BY <1>6
<1>8. get_head(s) = descend[NewNode(s.justified_checkpoint.root, PENDING)]
  BY DEF get_head
<1> HIDE DEF descend, S, inner, next, pred, body, children
<1>9. Descends(s, blocks, descend)
  <2> SUFFICES ASSUME NEW n \in ForkChoiceNode
               PROVE  descend[n] = IF get_node_children(s, blocks, n) = {} THEN n
                                   ELSE descend[best_child(s, get_node_children(s, blocks, n))]
    BY DEF Descends
  <2> QED BY <1>7 DEF best_child
<1> QED BY <1>8, <1>9

(* A set of nodes that the walk does not leave holds the head, which has   *)
(* no children.                                                            *)
LEMMA HeadInduction ==
  ASSUME NEW s, Tree(s), justified_state(s).validators \subseteq ValidatorIndex,
         NEW blocks, blocks = get_filtered_block_tree(s), blocks \subseteq DOMAIN s.blocks,
         NEW P \in SUBSET ForkChoiceNode, NewNode(s.justified_checkpoint.root, PENDING) \in P,
         \A node \in P : get_node_children(s, blocks, node) \subseteq P
  PROVE  /\ get_head(s) \in P
         /\ get_node_children(s, blocks, get_head(s)) = {}
<1>1. PICK d : /\ Descends(s, blocks, d)
               /\ get_head(s) = d[NewNode(s.justified_checkpoint.root, PENDING)]
  BY DescentExists
<1> DEFINE good(n) == d[n] \in P /\ get_node_children(s, blocks, d[n]) = {}
           bad == {n \in P : ~ good(n)}
<1> SUFFICES ASSUME bad # {} PROVE FALSE
  BY <1>1
<1>2. PICK rank \in [ForkChoiceNode -> Nat] :
        \A node \in ForkChoiceNode :
          \A child \in get_node_children(s, blocks, node) : rank[child] < rank[node]
  BY NodeHeightsExist
<1> DEFINE ranks == {rank[n] : n \in bad}
<1>3. ranks \subseteq Nat /\ ranks # {}
  OBVIOUS
<1>4. PICK m \in ranks : \A other \in ranks : m <= other
  BY <1>3, LeastNatural
<1>5. PICK n \in bad : m = rank[n]
  OBVIOUS
<1> DEFINE children == get_node_children(s, blocks, n)
<1>6. n \in P /\ n \in ForkChoiceNode /\ ~ good(n) /\ children \subseteq P
  OBVIOUS
<1>7. d[n] = IF children = {} THEN n ELSE d[best_child(s, children)]
  BY <1>1, <1>6 DEF Descends
<1>8. CASE children = {}
  BY <1>6, <1>7, <1>8
<1>9. CASE children # {}
  <2> DEFINE best == best_child(s, children)
  <2>1. IsFiniteSet(children)
    BY <1>6, NodeChildrenType
  <2>2. best \in children
    <3> HIDE DEF children
    <3> QED BY <1>6, <1>9, <2>1, BestChild
  <2>3. rank[best] < rank[n] /\ best \in P
    <3> HIDE DEF best
    <3> QED BY <1>2, <1>6, <2>2
  <2>4. best \in bad => rank[n] <= rank[best]
    <3> HIDE DEF best
    <3> QED BY <1>4, <1>5
  <2>5. rank[best] \in Nat /\ rank[n] \in Nat
    BY <1>2, <1>6, <2>3
  <2>6. best \notin bad
    <3> HIDE DEF bad, best
    <3> QED BY <2>3, <2>4, <2>5
  <2>7. d[n] = d[best]
    BY <1>7, <1>9
  <2> HIDE DEF best
  <2> QED BY <1>6, <2>3, <2>6, <2>7
<1> QED BY <1>8, <1>9

(* What get_head returns: a payload node of a known block that descends    *)
(* from the justified one and that, unless it is the justified one, has a  *)
(* viable leaf among its descendants.                                      *)
LEMMA HeadFacts ==
  ASSUME NEW s, Tree(s), justified_state(s).validators \subseteq ValidatorIndex,
         s.justified_checkpoint.root \in DOMAIN s.blocks
  PROVE  LET head == get_head(s)
             justified == s.justified_checkpoint.root
         IN  /\ head \in ForkChoiceNode
             /\ head.root \in DOMAIN s.blocks
             /\ below(s, head.root, justified)
             /\ head.payload_status # PENDING
             /\ head.payload_status = FULL => is_payload_verified(s, head.root)
             /\ \/ head.root = justified
                \/ \E leaf \in DOMAIN s.blocks : /\ is_viable_leaf(s, leaf)
                                                 /\ below(s, leaf, head.root)
<1> DEFINE justified == s.justified_checkpoint.root
           blocks == get_filtered_block_tree(s)
           head == get_head(s)
           P == {n \in ForkChoiceNode :
                   /\ n.root \in {justified} \cup blocks
                   /\ n.payload_status = FULL => is_payload_verified(s, n.root)}
<1>1. DOMAIN s.blocks \subseteq Root /\ justified \in Root
  BY TreeDescends DEF IsStore
<1>2. PICK f : Filters(s, f) /\ blocks = f[justified]
  BY <1>1, FilterExists
<1>3. \A r \in blocks : Keeps(s, f, justified, r)
  BY <1>2, FilterKeeps
<1>4. blocks \subseteq DOMAIN s.blocks
  BY <1>3 DEF Keeps
<1>5. NewNode(justified, PENDING) \in P
  BY <1>1, PendingNode, NewNodeType DEF PayloadStatus, PENDING, FULL
<1>6. ASSUME NEW n \in P PROVE get_node_children(s, blocks, n) \subseteq P
  <2> SUFFICES ASSUME NEW child \in get_node_children(s, blocks, n) PROVE child \in P
    OBVIOUS
  <2>1. /\ child \in ForkChoiceNode
        /\ IF n.payload_status = PENDING
           THEN /\ child.root = n.root
                /\ child.payload_status = FULL => is_payload_verified(s, n.root)
           ELSE child.payload_status = PENDING /\ child.root \in blocks
    <3>1. n \in ForkChoiceNode
      OBVIOUS
    <3> HIDE DEF P, blocks
    <3> QED BY <1>4, <3>1, NodeChildrenType
  <2> HIDE DEF blocks
  <2> QED BY <2>1 DEF PENDING, FULL
<1>7. head \in P /\ get_node_children(s, blocks, head) = {}
  <2>1. P \in SUBSET ForkChoiceNode
    OBVIOUS
  <2>2. blocks = get_filtered_block_tree(s)
    OBVIOUS
  <2> HIDE DEF P, blocks
  <2> QED BY <1>4, <1>5, <1>6, <2>1, <2>2, HeadInduction
<1>8. head.payload_status # PENDING
  <2>1. head.payload_status = PENDING
          => NewNode(head.root, EMPTY) \in get_node_children(s, blocks, head)
    BY DEF get_node_children
  <2> QED BY <1>7, <2>1
<1> HIDE DEF blocks, head
<1>9. CASE head.root = justified
  <2>1. below(s, justified, justified)
    BY <1>1, BelowSelf
  <2> QED BY <1>7, <1>8, <1>9, <2>1 DEF head
<1>10. CASE head.root # justified
  <2>1. head.root \in blocks
    BY <1>7, <1>10
  <2>2. Keeps(s, f, justified, head.root)
    BY <1>3, <2>1
  <2>3. \E leaf \in DOMAIN s.blocks : is_viable_leaf(s, leaf) /\ below(s, leaf, head.root)
    BY <1>2, <2>2, FilterLeaf DEF Keeps
  <2> QED BY <1>7, <1>8, <2>2, <2>3 DEF head, Keeps
<1> QED BY <1>9, <1>10

-----------------------------------------------------------------------------
(* What the functions of Handlers leave alone.                             *)

SameBlocks(s, t) ==
  /\ t.blocks = s.blocks
  /\ t.block_states = s.block_states
  /\ t.block_timeliness = s.block_timeliness
  /\ t.unrealized_justifications = s.unrealized_justifications

SamePtcVotes(s, t) ==
  /\ t.payload_timeliness_vote = s.payload_timeliness_vote
  /\ t.payload_data_availability_vote = s.payload_data_availability_vote

SameVotes(s, t) ==
  /\ t.latest_messages = s.latest_messages
  /\ t.equivocating_indices = s.equivocating_indices

SameClock(s, t) ==
  /\ t.time = s.time
  /\ t.proposer_boost_root = s.proposer_boost_root

(* Replacing checkpoints replaces nothing else.                            *)
LEMMA CheckpointsLeave ==
  ASSUME NEW s, Shaped(s), NEW j, NEW f
  PROVE  /\ \A t \in {update_checkpoints(s, j, f), update_unrealized_checkpoints(s, j, f)} :
              /\ SameBlocks(s, t) /\ SamePtcVotes(s, t) /\ SameVotes(s, t)
              /\ SameClock(s, t) /\ t.payloads = s.payloads
              /\ t.checkpoint_states = s.checkpoint_states
<1> USE DEF Shaped, StoreOver, SameBlocks, SamePtcVotes, SameVotes, SameClock
<1>1. /\ SameBlocks(s, update_checkpoints(s, j, f))
      /\ SamePtcVotes(s, update_checkpoints(s, j, f))
      /\ SameVotes(s, update_checkpoints(s, j, f))
      /\ SameClock(s, update_checkpoints(s, j, f))
      /\ update_checkpoints(s, j, f).payloads = s.payloads
      /\ update_checkpoints(s, j, f).checkpoint_states = s.checkpoint_states
  BY DEF update_checkpoints
<1>2. /\ SameBlocks(s, update_unrealized_checkpoints(s, j, f))
      /\ SamePtcVotes(s, update_unrealized_checkpoints(s, j, f))
      /\ SameVotes(s, update_unrealized_checkpoints(s, j, f))
      /\ SameClock(s, update_unrealized_checkpoints(s, j, f))
      /\ update_unrealized_checkpoints(s, j, f).payloads = s.payloads
      /\ update_unrealized_checkpoints(s, j, f).checkpoint_states = s.checkpoint_states
  BY DEF update_unrealized_checkpoints
<1> QED BY <1>1, <1>2

(* A tick moves the clock, and takes the boost away when a slot begins.    *)
LEMMA TickLeaves ==
  ASSUME NEW s, Shaped(s), NEW time \in Nat
  PROVE  LET t == on_tick_per_slot(s, time)
         IN  /\ SameBlocks(s, t) /\ SamePtcVotes(s, t) /\ SameVotes(s, t)
             /\ t.payloads = s.payloads
             /\ t.checkpoint_states = s.checkpoint_states
             /\ t.time = time
             /\ t.proposer_boost_root = IF slot_at(time) > get_current_slot(s)
                                        THEN NoRoot ELSE s.proposer_boost_root
<1> DEFINE boost == IF slot_at(time) > get_current_slot(s)
                    THEN NoRoot ELSE s.proposer_boost_root
           ticked == [s EXCEPT !.time = time, !.proposer_boost_root = boost]
           t == on_tick_per_slot(s, time)
<1>1. \/ t = ticked
      \/ t = update_checkpoints(ticked, s.unrealized_justified_checkpoint,
                                s.unrealized_finalized_checkpoint)
  BY DEF on_tick_per_slot, Shaped, StoreOver
<1>2. boost \in Root \cup {NoRoot}
  BY DEF Shaped, StoreOver
<1> HIDE DEF t, boost
<1>3. /\ Shaped(ticked)
      /\ SameBlocks(s, ticked) /\ SamePtcVotes(s, ticked) /\ SameVotes(s, ticked)
      /\ ticked.payloads = s.payloads
      /\ ticked.checkpoint_states = s.checkpoint_states
      /\ ticked.time = time
      /\ ticked.proposer_boost_root = boost
  BY <1>2 DEF Shaped, StoreOver, SameBlocks, SamePtcVotes, SameVotes
<1> HIDE DEF ticked
<1>4. /\ SameBlocks(s, t) /\ SamePtcVotes(s, t) /\ SameVotes(s, t)
      /\ t.payloads = s.payloads
      /\ t.checkpoint_states = s.checkpoint_states
      /\ t.time = time
      /\ t.proposer_boost_root = boost
  BY <1>1, <1>3, CheckpointsLeave DEF SameBlocks, SamePtcVotes, SameVotes, SameClock
<1> QED BY <1>4 DEF t, boost

(* The messages that write position i of the block's vote lists.           *)
writers_of(s, messages, root, i) ==
  {k \in DOMAIN messages :
     /\ messages[k].beacon_block_root = root
     /\ messages[k].slot = block_state(s, root).slot
     /\ i \in ptc_indices(messages[k].slot, messages[k].validator_index)}

(* Recording PTC votes adds to the positions of each list those that are   *)
(* written, the same ones in both lists; the last writer decides.          *)
written_positions(s, messages, root) ==
  {j \in 0..PTC_SIZE-1 : writers_of(s, messages, root, j) # {}}

last_writer_says(s, messages, root, i, field) ==
  \E k \in writers_of(s, messages, root, i) :
    /\ messages[k][field]
    /\ \A other \in writers_of(s, messages, root, i) : other <= k

recorded_votes(s, messages, votes, field) ==
  [root \in DOMAIN votes |->
     [i \in DOMAIN votes[root] \cup written_positions(s, messages, root) |->
        IF writers_of(s, messages, root, i) = {} THEN votes[root][i]
        ELSE last_writer_says(s, messages, root, i, field)]]

LEMMA RecordVotesLeaves ==
  ASSUME NEW s, Shaped(s), NEW messages
  PROVE  LET t == record_ptc_votes(s, messages)
         IN  /\ SameBlocks(s, t) /\ SameVotes(s, t) /\ SameClock(s, t)
             /\ t.payloads = s.payloads
             /\ t.payload_timeliness_vote
                  = recorded_votes(s, messages, s.payload_timeliness_vote, "payload_present")
             /\ t.payload_data_availability_vote
                  = recorded_votes(s, messages, s.payload_data_availability_vote,
                                   "blob_data_available")
<1> DEFINE t == record_ptc_votes(s, messages)
<1>1. t = [s EXCEPT
             !.payload_timeliness_vote =
               recorded_votes(s, messages, s.payload_timeliness_vote, "payload_present"),
             !.payload_data_availability_vote =
               recorded_votes(s, messages, s.payload_data_availability_vote,
                              "blob_data_available")]
  BY DEF record_ptc_votes, recorded_votes, last_writer_says, written_positions, writers_of,
         Shaped, StoreOver
<1> HIDE DEF t
<1>2. /\ SameBlocks(s, t) /\ SameVotes(s, t) /\ SameClock(s, t)
      /\ t.payloads = s.payloads
      /\ t.payload_timeliness_vote
           = recorded_votes(s, messages, s.payload_timeliness_vote, "payload_present")
      /\ t.payload_data_availability_vote
           = recorded_votes(s, messages, s.payload_data_availability_vote,
                            "blob_data_available")
  BY <1>1 DEF Shaped, StoreOver, SameBlocks, SameVotes, SameClock
<1> QED BY <1>2 DEF t

LEMMA TimelinessLeaves ==
  ASSUME NEW s, Shaped(s), NEW root
  PROVE  LET t == record_block_timeliness(s, root)
         IN  /\ t.blocks = s.blocks
             /\ t.block_states = s.block_states
             /\ t.unrealized_justifications = s.unrealized_justifications
             /\ SamePtcVotes(s, t) /\ SameVotes(s, t) /\ SameClock(s, t)
             /\ t.payloads = s.payloads
             /\ \E entry \in Timeliness :
                  /\ t.block_timeliness = put(s.block_timeliness, root, entry)
                  /\ entry.attestation => get_current_slot(s) = s.blocks[root].slot
<1> DEFINE in_time(threshold) ==
             /\ get_current_slot(s) = s.blocks[root].slot
             /\ (s.time * 1000) % SLOT_DURATION_MS < threshold
           entry == [attestation |-> in_time(get_attestation_due_ms),
                     ptc |-> in_time(get_payload_attestation_due_ms)]
           t == record_block_timeliness(s, root)
<1>1. t = [s EXCEPT !.block_timeliness = put(s.block_timeliness, root, entry)]
  BY DEF record_block_timeliness, Shaped, StoreOver
<1>2. entry.attestation => get_current_slot(s) = s.blocks[root].slot
  OBVIOUS
<1>3. entry \in Timeliness
  <2>1. \A threshold : in_time(threshold) \in BOOLEAN
    OBVIOUS
  <2> HIDE DEF in_time
  <2> QED BY <2>1 DEF Timeliness
<1> HIDE DEF t, entry
<1>4. /\ t.blocks = s.blocks
      /\ t.block_states = s.block_states
      /\ t.unrealized_justifications = s.unrealized_justifications
      /\ SamePtcVotes(s, t) /\ SameVotes(s, t) /\ SameClock(s, t)
      /\ t.payloads = s.payloads
      /\ t.block_timeliness = put(s.block_timeliness, root, entry)
  BY <1>1 DEF Shaped, StoreOver, SamePtcVotes, SameVotes, SameClock
<1> QED BY <1>2, <1>3, <1>4 DEF t

LEMMA BoostLeaves ==
  ASSUME NEW s, Shaped(s), NEW head, NEW root
  PROVE  LET t == update_proposer_boost_root(s, head, root)
         IN  /\ SameBlocks(s, t) /\ SamePtcVotes(s, t) /\ SameVotes(s, t)
             /\ t.payloads = s.payloads
             /\ t.time = s.time
             /\ \/ t.proposer_boost_root = s.proposer_boost_root
                \/ /\ s.proposer_boost_root = NoRoot
                   /\ t.proposer_boost_root = root
                   /\ timeliness(s, root).attestation
<1> DEFINE boosted == [s EXCEPT !.proposer_boost_root = root]
           t == update_proposer_boost_root(s, head, root)
<1>1. \/ t = s
      \/ /\ t = boosted
         /\ s.proposer_boost_root = NoRoot
         /\ timeliness(s, root).attestation
  BY DEF update_proposer_boost_root
<1>2. /\ SameBlocks(s, boosted) /\ SamePtcVotes(s, boosted) /\ SameVotes(s, boosted)
      /\ boosted.payloads = s.payloads
      /\ boosted.time = s.time
      /\ boosted.proposer_boost_root = root
  BY DEF Shaped, StoreOver, SameBlocks, SamePtcVotes, SameVotes
<1>3. SameBlocks(s, s) /\ SamePtcVotes(s, s) /\ SameVotes(s, s)
  BY DEF SameBlocks, SamePtcVotes, SameVotes
<1> HIDE DEF t, boosted
<1> QED BY <1>1, <1>2, <1>3 DEF t

LEMMA PulledUpLeaves ==
  ASSUME NEW s, Shaped(s), NEW root \in DOMAIN s.block_states
  PROVE  LET t == compute_pulled_up_tip(s, root)
         IN  /\ t.block_timeliness = s.block_timeliness
             /\ SamePtcVotes(s, t) /\ SameVotes(s, t) /\ SameClock(s, t)
             /\ t.payloads = s.payloads
<1> DEFINE state == process_justification_and_finalization(s.block_states[root])
           j == state.current_justified_checkpoint
           f == state.finalized_checkpoint
           u == [s EXCEPT !.unrealized_justifications =
                   put(s.unrealized_justifications, root, j)]
           p == update_unrealized_checkpoints(u, j, f)
           t == compute_pulled_up_tip(s, root)
           same(v) == /\ v.block_timeliness = s.block_timeliness
                      /\ SamePtcVotes(s, v) /\ SameVotes(s, v) /\ SameClock(s, v)
                      /\ v.payloads = s.payloads
<1>1. j \in Checkpoint /\ f \in Checkpoint
  BY ExternalsAssumption DEF Shaped, StoreOver, BeaconState
<1>2. t = p \/ t = update_checkpoints(p, j, f)
  BY DEF compute_pulled_up_tip, Shaped, StoreOver
<1>3. s.unrealized_justifications \in [DOMAIN s.unrealized_justifications -> Checkpoint]
  BY DEF Shaped, StoreOver
<1> HIDE DEF t, state, j, f
<1>4. put(s.unrealized_justifications, root, j)
        \in [DOMAIN put(s.unrealized_justifications, root, j) -> Checkpoint]
  BY <1>1, <1>3 DEF put
<1>5. u.unrealized_justifications = put(s.unrealized_justifications, root, j)
  BY DEF Shaped, StoreOver
<1>6. Shaped(u)
  BY <1>4, <1>5 DEF Shaped, StoreOver
<1>7. same(u)
  BY DEF Shaped, StoreOver, SamePtcVotes, SameVotes, SameClock
<1> HIDE DEF u
<1>8. same(p)
  BY <1>6, <1>7, CheckpointsLeave DEF SameBlocks, SamePtcVotes, SameVotes, SameClock
<1>9. Shaped(p)
  BY <1>1, <1>6, UpdateUnrealizedType
<1> HIDE DEF p
<1>10. same(update_checkpoints(p, j, f))
  BY <1>8, <1>9, CheckpointsLeave DEF SameBlocks, SamePtcVotes, SameVotes, SameClock
<1> QED BY <1>2, <1>8, <1>10 DEF t

(* What the import writes beside the checkpoints: the block with its       *)
(* state, timeliness and vote lists, and perhaps the boost.                *)
LEMMA OnBlockLeaves ==
  ASSUME NEW s, IsStore(s), NEW sb \in SIGNED_BLOCKS, on_block_accepts(s, sb)
  PROVE  LET t == on_block(s, sb)
             notified == notify_ptc_messages(insert_block(s, sb), post_state(s, sb),
                                             sb.message.payload_attestations)
         IN  /\ SameVotes(s, t)
             /\ t.payloads = s.payloads
             /\ t.time = s.time
             /\ SamePtcVotes(notified, t)
             /\ \E entry \in Timeliness :
                  /\ t.block_timeliness = put(s.block_timeliness, sb.root, entry)
                  /\ entry.attestation => get_current_slot(s) = sb.message.slot
                  /\ \/ t.proposer_boost_root = s.proposer_boost_root
                     \/ /\ s.proposer_boost_root = NoRoot
                        /\ t.proposer_boost_root = sb.root
                        /\ entry.attestation
<1> DEFINE root == sb.root
           state == post_state(s, sb)
           inserted == insert_block(s, sb)
           notified == notify_ptc_messages(inserted, state, sb.message.payload_attestations)
           timed == record_block_timeliness(notified, root)
           boosted == update_proposer_boost_root(timed, get_head(s).root, root)
           updated == update_checkpoints(boosted, state.current_justified_checkpoint,
                                         state.finalized_checkpoint)
           t == compute_pulled_up_tip(updated, root)
<1>1. t = on_block(s, sb)
  BY DEF on_block, import_block
<1>2. root \in Root
  BY MessagesAssumption DEF SignedBeaconBlock
<1>3. /\ state \in BeaconStates
      /\ state.current_justified_checkpoint \in Checkpoint
      /\ state.finalized_checkpoint \in Checkpoint
  BY PostStateType DEF BeaconState
<1>4. /\ Shaped(inserted)
      /\ SameVotes(s, inserted) /\ SameClock(s, inserted)
      /\ inserted.payloads = s.payloads
      /\ inserted.block_timeliness = s.block_timeliness
      /\ inserted.blocks = put(s.blocks, root, sb.message)
      /\ inserted.block_states = put(s.block_states, root, state)
  <2>1. Shaped(inserted)
    BY <1>3, InsertBlockType
  <2> QED BY <2>1 DEF insert_block, IsStore, StoreOver, SameVotes, SameClock
<1> HIDE DEF state, root, inserted
<1>5. /\ Shaped(notified)
      /\ SameBlocks(inserted, notified) /\ SameVotes(inserted, notified)
      /\ SameClock(inserted, notified)
      /\ notified.payloads = inserted.payloads
  <2>1. \/ notified = inserted
        \/ notified = record_ptc_votes(inserted, sb.message.payload_attestations)
    BY DEF notify_ptc_messages
  <2>2. SameBlocks(inserted, inserted) /\ SameVotes(inserted, inserted)
        /\ SameClock(inserted, inserted)
    BY DEF SameBlocks, SameVotes, SameClock
  <2>3. Shaped(notified)
    BY <1>4, NotifyType
  <2>4. LET recorded == record_ptc_votes(inserted, sb.message.payload_attestations)
        IN  /\ SameBlocks(inserted, recorded) /\ SameVotes(inserted, recorded)
            /\ SameClock(inserted, recorded)
            /\ recorded.payloads = inserted.payloads
    BY <1>4, RecordVotesLeaves
  <2> HIDE DEF notified
  <2> QED BY <2>1, <2>2, <2>3, <2>4
<1> HIDE DEF notified
<1>6. /\ Shaped(timed)
      /\ timed.blocks = notified.blocks
      /\ timed.block_states = notified.block_states
      /\ SamePtcVotes(notified, timed) /\ SameVotes(notified, timed)
      /\ SameClock(notified, timed)
      /\ timed.payloads = notified.payloads
  BY <1>5, TimelinessType, TimelinessLeaves
<1>7. PICK entry \in Timeliness :
        /\ timed.block_timeliness = put(notified.block_timeliness, root, entry)
        /\ entry.attestation => get_current_slot(notified) = notified.blocks[root].slot
  BY <1>5, TimelinessLeaves
<1> HIDE DEF timed
<1>8. /\ Shaped(boosted)
      /\ SameBlocks(timed, boosted) /\ SamePtcVotes(timed, boosted)
      /\ SameVotes(timed, boosted)
      /\ boosted.payloads = timed.payloads
      /\ boosted.time = timed.time
      /\ \/ boosted.proposer_boost_root = timed.proposer_boost_root
         \/ /\ timed.proposer_boost_root = NoRoot
            /\ boosted.proposer_boost_root = root
            /\ timeliness(timed, root).attestation
  BY <1>2, <1>6, BoostType, BoostLeaves
<1>9. timeliness(timed, root) = entry
  BY <1>7 DEF timeliness, put
<1>10. /\ notified.blocks[root].slot = sb.message.slot
       /\ get_current_slot(notified) = get_current_slot(s)
  BY <1>4, <1>5 DEF SameBlocks, SameClock, get_current_slot, put
<1> HIDE DEF boosted
<1>11. /\ Shaped(updated)
       /\ SameBlocks(boosted, updated) /\ SamePtcVotes(boosted, updated)
       /\ SameVotes(boosted, updated) /\ SameClock(boosted, updated)
       /\ updated.payloads = boosted.payloads
  BY <1>3, <1>8, UpdateCheckpointsType, CheckpointsLeave
<1>12. root \in DOMAIN updated.block_states
  BY <1>4, <1>5, <1>6, <1>8, <1>11 DEF SameBlocks, put
<1> HIDE DEF updated
<1>13. /\ t.block_timeliness = updated.block_timeliness
       /\ SamePtcVotes(updated, t) /\ SameVotes(updated, t) /\ SameClock(updated, t)
       /\ t.payloads = updated.payloads
  BY <1>11, <1>12, PulledUpLeaves
<1> HIDE DEF t
<1>14. /\ SameVotes(s, t) /\ t.payloads = s.payloads /\ t.time = s.time
       /\ SamePtcVotes(notified, t)
  BY <1>4, <1>5, <1>6, <1>8, <1>11, <1>13 DEF SameVotes, SamePtcVotes, SameClock
<1>15. t.block_timeliness = put(s.block_timeliness, root, entry)
  BY <1>4, <1>5, <1>7, <1>8, <1>11, <1>13 DEF SameBlocks
<1>16. \/ t.proposer_boost_root = s.proposer_boost_root
       \/ /\ s.proposer_boost_root = NoRoot
          /\ t.proposer_boost_root = root
          /\ entry.attestation
  BY <1>4, <1>5, <1>6, <1>8, <1>9, <1>11, <1>13 DEF SameClock
<1>17. entry.attestation => get_current_slot(s) = sb.message.slot
  BY <1>7, <1>10
<1> QED BY <1>1, <1>14, <1>15, <1>16, <1>17 DEF root, state, inserted, notified

(* A vote replaces the message of those of its voters that are not known   *)
(* to equivocate and whose message is older.                               *)
newer_voters(s, a) ==
  {i \in a.attesting_indices \ s.equivocating_indices : is_newer_vote(s, i, a.data.slot)}

LEMMA OnAttestationLeaves ==
  ASSUME NEW s, IsStore(s), NEW a
  PROVE  LET t == on_attestation(s, a)
             message == [slot |-> a.data.slot, root |-> a.data.beacon_block_root,
                         payload_present |-> a.data.index = 1]
         IN  /\ SameBlocks(s, t) /\ SamePtcVotes(s, t) /\ SameClock(s, t)
             /\ t.payloads = s.payloads
             /\ t.equivocating_indices = s.equivocating_indices
             /\ t.latest_messages =
                  [i \in DOMAIN s.latest_messages \cup newer_voters(s, a) |->
                     IF i \in newer_voters(s, a) THEN message ELSE s.latest_messages[i]]
<1> DEFINE r == store_target_checkpoint_state(s, a.data.target)
           t == update_latest_messages(r, a)
           message == [slot |-> a.data.slot, root |-> a.data.beacon_block_root,
                       payload_present |-> a.data.index = 1]
           votes(v) == [i \in DOMAIN v.latest_messages \cup newer_voters(v, a) |->
                          IF i \in newer_voters(v, a) THEN message ELSE v.latest_messages[i]]
<1>1. \/ r = s
      \/ \E states : r = [s EXCEPT !.checkpoint_states = states]
  BY DEF store_target_checkpoint_state, IsStore, StoreOver
<1> HIDE DEF r
<1>2. /\ SameBlocks(s, r) /\ SamePtcVotes(s, r) /\ SameVotes(s, r) /\ SameClock(s, r)
      /\ r.payloads = s.payloads
  BY <1>1 DEF IsStore, StoreOver, SameBlocks, SamePtcVotes, SameVotes, SameClock
<1>3. r = [time |-> r.time,
           justified_checkpoint |-> r.justified_checkpoint,
           finalized_checkpoint |-> r.finalized_checkpoint,
           unrealized_justified_checkpoint |-> r.unrealized_justified_checkpoint,
           unrealized_finalized_checkpoint |-> r.unrealized_finalized_checkpoint,
           proposer_boost_root |-> r.proposer_boost_root,
           equivocating_indices |-> r.equivocating_indices,
           blocks |-> r.blocks,
           block_states |-> r.block_states,
           block_timeliness |-> r.block_timeliness,
           checkpoint_states |-> r.checkpoint_states,
           latest_messages |-> r.latest_messages,
           unrealized_justifications |-> r.unrealized_justifications,
           payloads |-> r.payloads,
           payload_timeliness_vote |-> r.payload_timeliness_vote,
           payload_data_availability_vote |-> r.payload_data_availability_vote]
  BY <1>1 DEF IsStore, StoreOver
<1>4. t = [r EXCEPT !.latest_messages = votes(r)]
  BY <1>3 DEF update_latest_messages, newer_voters
<1>5. newer_voters(r, a) = newer_voters(s, a) /\ votes(r) = votes(s)
  BY <1>2 DEF newer_voters, is_newer_vote, SameVotes
<1> HIDE DEF t, votes
<1>6. /\ SameBlocks(r, t) /\ SamePtcVotes(r, t) /\ SameClock(r, t)
      /\ t.payloads = r.payloads
      /\ t.equivocating_indices = r.equivocating_indices
      /\ t.latest_messages = votes(s)
  BY <1>3, <1>4, <1>5 DEF SameBlocks, SamePtcVotes, SameClock
<1> QED BY <1>2, <1>6 DEF t, r, votes, on_attestation, SameBlocks, SamePtcVotes,
                          SameVotes, SameClock

LEMMA OnAttesterSlashingLeaves ==
  ASSUME NEW s, Shaped(s), NEW slashing
  PROVE  LET t == on_attester_slashing(s, slashing)
         IN  /\ SameBlocks(s, t) /\ SamePtcVotes(s, t) /\ SameClock(s, t)
             /\ t.payloads = s.payloads
             /\ t.latest_messages = s.latest_messages
             /\ s.equivocating_indices \subseteq t.equivocating_indices
BY DEF on_attester_slashing, Shaped, StoreOver, SameBlocks, SamePtcVotes, SameClock

LEMMA OnEnvelopeLeaves ==
  ASSUME NEW s, Shaped(s), NEW root
  PROVE  LET t == on_execution_payload_envelope(s, root)
         IN  /\ SameBlocks(s, t) /\ SamePtcVotes(s, t) /\ SameVotes(s, t)
             /\ SameClock(s, t)
             /\ t.payloads = s.payloads \cup {root}
BY DEF on_execution_payload_envelope, Shaped, StoreOver, SameBlocks, SamePtcVotes,
       SameVotes, SameClock

-----------------------------------------------------------------------------
(* The steps.                                                              *)

(* An iteration of on_tick, which never moves the clock to an earlier slot.*)
TickStep ==
  \E time \in Nat : /\ store' = on_tick_per_slot(store, time)
                    /\ get_current_slot(store) <= slot_at(time)

(* A step is a stutter for the store, a tick or a handler that accepts.    *)
LEMMA StepKinds ==
  ASSUME TypeOK, [Next]_vars
  PROVE  \/ store' = store
         \/ TickStep
         \/ \E sb \in SIGNED_BLOCKS :
              on_block_accepts(store, sb) /\ store' = on_block(store, sb)
         \/ \E a \in ATTESTATIONS, from_block \in BOOLEAN :
              on_attestation_accepts(store, a, from_block) /\ store' = on_attestation(store, a)
         \/ \E slashing \in SLASHINGS : store' = on_attester_slashing(store, slashing)
         \/ \E root \in ENVELOPES : store' = on_execution_payload_envelope(store, root)
         \/ \E message \in PTC_MESSAGES, from_block \in BOOLEAN :
              /\ on_payload_attestation_message_accepts(store, message, from_block)
              /\ store' = on_payload_attestation_message(store, message)
<1>1. /\ store.time \in Nat /\ tick_time \in Nat
      /\ get_current_slot(store) \in Nat
  <2>1. store.time \in Nat /\ tick_time \in Nat
    BY DEF TypeOK, IsStore, StoreOver
  <2> QED BY <2>1, SlotType DEF get_current_slot
<1>2. CASE CatchUp
  <2>1. /\ next_slot_start(store) \in Nat
        /\ slot_at(next_slot_start(store)) = get_current_slot(store) + 1
    BY <1>1, NextSlotStartType, NextSlotStart
  <2>2. get_current_slot(store) <= slot_at(next_slot_start(store))
    BY <1>1, <2>1
  <2>3. store' = on_tick_per_slot(store, next_slot_start(store))
    BY <1>2 DEF CatchUp
  <2> QED BY <2>1, <2>2, <2>3 DEF TickStep
<1>3. CASE EndTick
  <2>1. get_current_slot(store) <= slot_at(tick_time)
    BY <1>1, <1>3, SlotMonotone DEF EndTick, get_current_slot
  <2>2. store' = on_tick_per_slot(store, tick_time)
    BY <1>3 DEF EndTick
  <2> QED BY <1>1, <2>1, <2>2 DEF TickStep
<1>4. CASE UNCHANGED vars
  BY <1>4 DEF vars
<1>5. \A time \in TickTimes : BeginTick(time) => store' = store
  BY DEF BeginTick
<1> QED BY <1>2, <1>3, <1>4, <1>5 DEF Next, OnBlock, OnAttestation, OnAttesterSlashing,
           OnExecutionPayloadEnvelope, OnPayloadAttestationMessage

(* Time does not go back.                                                  *)
LEMMA ClockStep ==
  ASSUME TypeOK, [Next]_vars
  PROVE  /\ get_current_slot(store) <= get_current_slot(store')
         /\ ~ TickStep => get_current_slot(store') = get_current_slot(store)
<1>1. IsStore(store) /\ Shaped(store) /\ get_current_slot(store) \in Nat
  BY SlotType DEF TypeOK, IsStore, Shaped, StoreOver, get_current_slot
<1>2. store'.time = store.time => get_current_slot(store') = get_current_slot(store)
  BY DEF get_current_slot
<1>3. CASE TickStep
  BY <1>1, <1>3, TickLeaves DEF TickStep, get_current_slot
<1>4. ASSUME NEW sb \in SIGNED_BLOCKS, on_block_accepts(store, sb),
             store' = on_block(store, sb)
      PROVE  store'.time = store.time
  BY <1>1, <1>4, OnBlockLeaves
<1>5. ASSUME NEW a, store' = on_attestation(store, a)
      PROVE  store'.time = store.time
  BY <1>1, <1>5, OnAttestationLeaves DEF SameClock
<1>6. ASSUME NEW slashing, store' = on_attester_slashing(store, slashing)
      PROVE  store'.time = store.time
  BY <1>1, <1>6, OnAttesterSlashingLeaves DEF SameClock
<1>7. ASSUME NEW root, store' = on_execution_payload_envelope(store, root)
      PROVE  store'.time = store.time
  BY <1>1, <1>7, OnEnvelopeLeaves DEF SameClock
<1>8. ASSUME NEW message, store' = on_payload_attestation_message(store, message)
      PROVE  store'.time = store.time
  BY <1>1, <1>8, RecordVotesLeaves DEF SameClock, on_payload_attestation_message
<1>9. store'.time = store.time \/ TickStep
  BY <1>4, <1>5, <1>6, <1>7, <1>8, StepKinds
<1> QED BY <1>1, <1>2, <1>3, <1>9

(* Only an import changes what is recorded of blocks.                      *)
LEMMA BlocksStep ==
  ASSUME TypeOK, [Next]_vars
  PROVE  \/ SameBlocks(store, store')
         \/ \E sb \in SIGNED_BLOCKS :
              on_block_accepts(store, sb) /\ store' = on_block(store, sb)
<1>1. IsStore(store) /\ Shaped(store)
  BY DEF TypeOK, IsStore, Shaped
<1>2. TickStep => SameBlocks(store, store')
  BY <1>1, TickLeaves DEF TickStep
<1>3. ASSUME NEW a, store' = on_attestation(store, a)
      PROVE  SameBlocks(store, store')
  BY <1>1, <1>3, OnAttestationLeaves
<1>4. \A slashing : store' = on_attester_slashing(store, slashing)
        => SameBlocks(store, store')
  BY <1>1, OnAttesterSlashingLeaves
<1>5. \A root : store' = on_execution_payload_envelope(store, root)
        => SameBlocks(store, store')
  BY <1>1, OnEnvelopeLeaves
<1>6. \A message : store' = on_payload_attestation_message(store, message)
        => SameBlocks(store, store')
  BY <1>1, RecordVotesLeaves DEF on_payload_attestation_message
<1>7. store' = store => SameBlocks(store, store')
  BY DEF SameBlocks
<1> QED BY <1>2, <1>3, <1>4, <1>5, <1>6, <1>7, StepKinds

(* A verified payload stays verified.                                      *)
LEMMA PayloadsStep ==
  ASSUME TypeOK, [Next]_vars
  PROVE  store.payloads \subseteq store'.payloads
<1>1. IsStore(store) /\ Shaped(store)
  BY DEF TypeOK, IsStore, Shaped
<1>2. TickStep => store'.payloads = store.payloads
  BY <1>1, TickLeaves DEF TickStep
<1>3. \A sb \in SIGNED_BLOCKS : on_block_accepts(store, sb) /\ store' = on_block(store, sb)
        => store'.payloads = store.payloads
  BY <1>1, OnBlockLeaves
<1>4. ASSUME NEW a, store' = on_attestation(store, a)
      PROVE  store'.payloads = store.payloads
  BY <1>1, <1>4, OnAttestationLeaves
<1>5. \A slashing : store' = on_attester_slashing(store, slashing)
        => store'.payloads = store.payloads
  BY <1>1, OnAttesterSlashingLeaves
<1>6. \A root : store' = on_execution_payload_envelope(store, root)
        => store.payloads \subseteq store'.payloads
  BY <1>1, OnEnvelopeLeaves
<1>7. \A message : store' = on_payload_attestation_message(store, message)
        => store'.payloads = store.payloads
  BY <1>1, RecordVotesLeaves DEF on_payload_attestation_message
<1> QED BY <1>2, <1>3, <1>4, <1>5, <1>6, <1>7, StepKinds

-----------------------------------------------------------------------------
(* The inductive invariant.  Blocks form a tree below the anchor in which  *)
(* slots grow, every state is at its block's slot, and PTC votes stand at  *)
(* positions of their block's committee.                                   *)

TreeSound(s) ==
  /\ ANCHOR_BLOCK.root \in DOMAIN s.blocks
  /\ \A root \in DOMAIN s.blocks :
       /\ s.block_states[root].slot = s.blocks[root].slot
       /\ s.blocks[ANCHOR_BLOCK.root].slot <= s.blocks[root].slot
  /\ \A root \in DOMAIN s.blocks \ {ANCHOR_BLOCK.root} :
       LET parent == s.blocks[root].parent_root
       IN  parent \in DOMAIN s.blocks /\ s.blocks[parent].slot < s.blocks[root].slot

(* The tree is finite, and the anchor is its root: nothing has the anchor's *)
(* parent root.                                                            *)
AnchorSound(s) ==
  /\ IsFiniteSet(DOMAIN s.blocks)
  /\ ANCHOR_BLOCK.root \in DOMAIN s.blocks
  /\ s.blocks[ANCHOR_BLOCK.root] = ANCHOR_BLOCK.message
  /\ ANCHOR_BLOCK.message.parent_root \notin DOMAIN s.blocks

PtcSound(s) ==
  \A root \in DOMAIN s.blocks :
    LET slot == s.blocks[root].slot
        timely == s.payload_timeliness_vote[root]
        available == s.payload_data_availability_vote[root]
    IN  /\ s.block_states[root].slot = slot
        /\ DOMAIN timely = DOMAIN available
        /\ \A i \in DOMAIN timely :
             /\ i \in 0..Len(get_ptc(slot))-1
             /\ \A j \in ptc_indices(slot, get_ptc(slot)[i + 1]) :
                  /\ j \in DOMAIN timely
                  /\ timely[i] = timely[j]
                  /\ available[i] = available[j]

StoreSound ==
  /\ TreeSound(store)
  /\ AnchorSound(store)
  /\ FullParentVerified
  /\ PtcSound(store)
  /\ LatestMessagesSound
  /\ BoostIsTimelyBlock

(* Messages that the handler accepts keep the PTC votes paired: whoever    *)
(* writes one position of a member writes all of them.                     *)
LEMMA RecordKeepsPtcSound ==
  ASSUME NEW s, Shaped(s), PtcSound(s), NEW messages,
         DOMAIN s.block_states = DOMAIN s.blocks,
         DOMAIN s.payload_timeliness_vote = DOMAIN s.blocks,
         DOMAIN s.payload_data_availability_vote = DOMAIN s.blocks,
         \A k \in DOMAIN messages :
           on_payload_attestation_message_accepts(s, messages[k], TRUE)
             \/ on_payload_attestation_message_accepts(s, messages[k], FALSE)
  PROVE  PtcSound(record_ptc_votes(s, messages))
<1> DEFINE t == record_ptc_votes(s, messages)
<1>1. /\ SameBlocks(s, t)
      /\ t.payload_timeliness_vote
           = recorded_votes(s, messages, s.payload_timeliness_vote, "payload_present")
      /\ t.payload_data_availability_vote
           = recorded_votes(s, messages, s.payload_data_availability_vote,
                            "blob_data_available")
  BY RecordVotesLeaves
<1> HIDE DEF t
<1> SUFFICES ASSUME NEW root \in DOMAIN t.blocks
             PROVE  LET slot == t.blocks[root].slot
                        timely == t.payload_timeliness_vote[root]
                        available == t.payload_data_availability_vote[root]
                    IN  /\ t.block_states[root].slot = slot
                        /\ DOMAIN timely = DOMAIN available
                        /\ \A i \in DOMAIN timely :
                             /\ i \in 0..Len(get_ptc(slot))-1
                             /\ \A j \in ptc_indices(slot, get_ptc(slot)[i + 1]) :
                                  /\ j \in DOMAIN timely
                                  /\ timely[i] = timely[j]
                                  /\ available[i] = available[j]
  BY DEF PtcSound, t
<1> DEFINE slot == s.blocks[root].slot
           writers(i) == writers_of(s, messages, root, i)
           new == written_positions(s, messages, root)
           timely == s.payload_timeliness_vote[root]
           available == s.payload_data_availability_vote[root]
           says(i, field) == last_writer_says(s, messages, root, i, field)
<1>2. /\ t.blocks = s.blocks /\ t.block_states = s.block_states
      /\ root \in DOMAIN s.blocks
      /\ root \in DOMAIN s.payload_timeliness_vote
      /\ root \in DOMAIN s.payload_data_availability_vote
      /\ block_state(s, root).slot = slot
      /\ s.block_states[root].slot = slot
  BY <1>1 DEF SameBlocks, PtcSound, block_state
<1>3. /\ DOMAIN timely = DOMAIN available
      /\ \A i \in DOMAIN timely :
           /\ i \in 0..Len(get_ptc(slot))-1
           /\ \A j \in ptc_indices(slot, get_ptc(slot)[i + 1]) :
                /\ j \in DOMAIN timely
                /\ timely[i] = timely[j]
                /\ available[i] = available[j]
  BY <1>2 DEF PtcSound
<1>4. /\ t.payload_timeliness_vote[root]
           = [i \in DOMAIN timely \cup new |->
                IF writers(i) = {} THEN timely[i] ELSE says(i, "payload_present")]
      /\ t.payload_data_availability_vote[root]
           = [i \in DOMAIN available \cup new |->
                IF writers(i) = {} THEN available[i] ELSE says(i, "blob_data_available")]
  BY <1>1, <1>2 DEF recorded_votes
<1>5. ASSUME NEW i, NEW k \in writers(i)
      PROVE  /\ i \in ptc_indices(slot, messages[k].validator_index)
             /\ ptc_indices(slot, messages[k].validator_index) \subseteq 0..PTC_SIZE-1
  <2>1. /\ k \in DOMAIN messages
        /\ messages[k].beacon_block_root = root
        /\ messages[k].slot = slot
        /\ i \in ptc_indices(slot, messages[k].validator_index)
    BY <1>2, <1>5 DEF writers_of
  <2>2. ptc_indices(slot, messages[k].validator_index) \subseteq 0..PTC_SIZE-1
    BY <1>2, <2>1 DEF on_payload_attestation_message_accepts
  <2> QED BY <2>1, <2>2
<1>6. ASSUME NEW i \in 0..Len(get_ptc(slot))-1, NEW j \in ptc_indices(slot, get_ptc(slot)[i + 1])
      PROVE  writers(i) = writers(j)
  <2>1. /\ j \in 0..Len(get_ptc(slot))-1
        /\ get_ptc(slot)[j + 1] = get_ptc(slot)[i + 1]
    BY DEF ptc_indices
  <2>2. \A v : i \in ptc_indices(slot, v) <=> j \in ptc_indices(slot, v)
    BY <2>1 DEF ptc_indices
  <2>3. ASSUME NEW k \in DOMAIN messages
        PROVE  k \in writers(i) <=> k \in writers(j)
    BY <1>2, <2>2 DEF writers_of
  <2> QED BY <2>3 DEF writers_of
<1>7. ASSUME NEW i \in DOMAIN timely \cup new PROVE i \in 0..Len(get_ptc(slot))-1
  <2>1. CASE i \in DOMAIN timely
    BY <1>3, <2>1
  <2>2. CASE i \in new
    <3>1. PICK k : k \in writers(i)
      BY <2>2 DEF written_positions
    <3> QED BY <1>5, <3>1 DEF ptc_indices
  <2> QED BY <2>1, <2>2
<1>8. ASSUME NEW i \in DOMAIN timely \cup new,
             NEW j \in ptc_indices(slot, get_ptc(slot)[i + 1])
      PROVE  /\ j \in DOMAIN timely \cup new
             /\ writers(i) = {} => /\ timely[i] = timely[j]
                                   /\ available[i] = available[j]
  <2>1. writers(i) = writers(j)
    BY <1>6, <1>7
  <2>2. CASE writers(i) = {}
    <3>1. i \in DOMAIN timely
      BY <2>2 DEF written_positions
    <3> QED BY <1>3, <3>1
  <2>3. CASE writers(i) # {}
    <3>1. PICK k : k \in writers(j)
      BY <2>1, <2>3
    <3>2. j \in 0..PTC_SIZE-1
      BY <1>5, <3>1
    <3> QED BY <2>1, <2>3, <3>2 DEF written_positions
  <2> QED BY <2>2, <2>3
<1>9. ASSUME NEW i \in DOMAIN timely \cup new,
             NEW j \in ptc_indices(slot, get_ptc(slot)[i + 1]), NEW field
      PROVE  writers(i) = writers(j) /\ says(i, field) = says(j, field)
  <2>1. writers(i) = writers(j)
    BY <1>6, <1>7
  <2> QED BY <2>1 DEF last_writer_says
<1> HIDE DEF timely, available, new, writers, says
<1>10. ASSUME NEW i \in DOMAIN t.payload_timeliness_vote[root],
              NEW j \in ptc_indices(slot, get_ptc(slot)[i + 1])
       PROVE  /\ j \in DOMAIN t.payload_timeliness_vote[root]
              /\ t.payload_timeliness_vote[root][i] = t.payload_timeliness_vote[root][j]
              /\ t.payload_data_availability_vote[root][i]
                   = t.payload_data_availability_vote[root][j]
  <2>1. i \in DOMAIN timely \cup new
    BY <1>4
  <2>2. j \in DOMAIN timely \cup new /\ writers(i) = writers(j)
    BY <1>8, <1>9, <2>1
  <2>3. t.payload_timeliness_vote[root][i] = t.payload_timeliness_vote[root][j]
    BY <1>4, <1>8, <1>9, <2>1, <2>2
  <2>4. t.payload_data_availability_vote[root][i]
          = t.payload_data_availability_vote[root][j]
    BY <1>3, <1>4, <1>8, <1>9, <2>1, <2>2
  <2> QED BY <1>4, <2>2, <2>3, <2>4
<1>11. t.blocks[root].slot = slot /\ t.block_states[root].slot = slot
  BY <1>2
<1>12. DOMAIN t.payload_timeliness_vote[root] = DOMAIN t.payload_data_availability_vote[root]
  BY <1>3, <1>4
<1>13. \A i \in DOMAIN t.payload_timeliness_vote[root] : i \in 0..Len(get_ptc(slot))-1
  BY <1>4, <1>7
<1> HIDE DEF slot
<1> QED BY <1>10, <1>11, <1>12, <1>13

(* An imported block is new, and its parent is known.                      *)
LEMMA ImportedBlock ==
  ASSUME NEW s, IsStore(s), NEW sb \in SIGNED_BLOCKS, on_block_accepts(s, sb)
  PROVE  LET t == on_block(s, sb)
             parent == sb.message.parent_root
         IN  /\ sb.root \notin DOMAIN s.blocks
             /\ parent \in DOMAIN s.blocks
             /\ s.block_states[parent].slot < sb.message.slot
             /\ post_state(s, sb).slot = sb.message.slot
             /\ is_parent_node_full(s, sb.message) => parent \in s.payloads
             /\ t.blocks = put(s.blocks, sb.root, sb.message)
             /\ t.block_states = put(s.block_states, sb.root, post_state(s, sb))
<1>1. /\ sb.root \notin DOMAIN s.blocks
      /\ sb.message.parent_root \in DOMAIN s.blocks
      /\ is_parent_node_full(s, sb.message) => sb.message.parent_root \in s.payloads
      /\ post_state(s, sb) # InvalidTransition
  BY DEF on_block_accepts, on_block_asserts, is_payload_verified
<1>2. /\ s.block_states[sb.message.parent_root].slot < sb.message.slot
      /\ post_state(s, sb).slot = sb.message.slot
  BY <1>1, BlockReads, ExternalsAssumption DEF post_state
<1> QED BY <1>1, <1>2, OnBlockEffect

(* The tree grows at its leaves.                                           *)
LEMMA ImportKeepsTree ==
  ASSUME NEW s, IsStore(s), TreeSound(s), NEW sb \in SIGNED_BLOCKS, on_block_accepts(s, sb)
  PROVE  TreeSound(on_block(s, sb))
<1> DEFINE t == on_block(s, sb)
           root == sb.root
           block == sb.message
           parent == block.parent_root
           anchor == ANCHOR_BLOCK.root
<1>1. /\ root \notin DOMAIN s.blocks
      /\ parent \in DOMAIN s.blocks
      /\ s.block_states[parent].slot < block.slot
      /\ post_state(s, sb).slot = block.slot
      /\ t.blocks = put(s.blocks, root, block)
      /\ t.block_states = put(s.block_states, root, post_state(s, sb))
  BY ImportedBlock
<1> HIDE DEF t
<1>2. /\ DOMAIN t.blocks = DOMAIN s.blocks \cup {root}
      /\ t.blocks[root] = block
      /\ t.block_states[root].slot = block.slot
      /\ \A other \in DOMAIN s.blocks :
           /\ t.blocks[other] = s.blocks[other]
           /\ t.block_states[other] = s.block_states[other]
  BY <1>1 DEF put, IsStore, KeysAgree
<1>3. /\ anchor \in DOMAIN s.blocks
      /\ s.blocks[parent].slot < block.slot
      /\ s.blocks[anchor].slot <= s.blocks[parent].slot
  BY <1>1 DEF TreeSound
<1>4. /\ s.blocks[anchor].slot \in Nat
      /\ s.blocks[parent].slot \in Nat
      /\ block.slot \in Nat
  BY <1>1, <1>3, BlockReads, MessagesAssumption DEF BeaconBlock, SignedBeaconBlock
<1>5. s.blocks[anchor].slot <= block.slot
  BY <1>3, <1>4
<1> HIDE DEF root, block, parent, anchor
<1>6. anchor \in DOMAIN t.blocks
  BY <1>2, <1>3
<1>7. ASSUME NEW other \in DOMAIN t.blocks
      PROVE  /\ t.block_states[other].slot = t.blocks[other].slot
             /\ t.blocks[anchor].slot <= t.blocks[other].slot
  BY <1>2, <1>3, <1>5 DEF TreeSound, anchor
<1>8. ASSUME NEW other \in DOMAIN t.blocks \ {anchor}
      PROVE  /\ t.blocks[other].parent_root \in DOMAIN t.blocks
             /\ t.blocks[t.blocks[other].parent_root].slot < t.blocks[other].slot
  <2>1. CASE other = root
    BY <1>1, <1>2, <1>3, <2>1 DEF parent
  <2>2. CASE other # root
    BY <1>2, <2>2 DEF TreeSound, anchor
  <2> QED BY <2>1, <2>2
<1>9. TreeSound(t)
  BY <1>6, <1>7, <1>8 DEF TreeSound, anchor
<1> QED BY <1>9 DEF t

LEMMA SameBlocksKeepTree ==
  ASSUME NEW s, NEW t, SameBlocks(s, t)
  PROVE  /\ TreeSound(s) => TreeSound(t)
         /\ AnchorSound(s) => AnchorSound(t)
BY DEF TreeSound, AnchorSound, SameBlocks

LEMMA TreeStep ==
  ASSUME TypeOK, TreeSound(store), [Next]_vars
  PROVE  TreeSound(store')
<1>1. IsStore(store)
  BY DEF TypeOK
<1> QED BY <1>1, BlocksStep, ImportKeepsTree, SameBlocksKeepTree

LEMMA ImportKeepsAnchor ==
  ASSUME NEW s, IsStore(s), AnchorSound(s), NEW sb \in SIGNED_BLOCKS, on_block_accepts(s, sb)
  PROVE  AnchorSound(on_block(s, sb))
<1> DEFINE t == on_block(s, sb)
<1>1. /\ sb.root \notin DOMAIN s.blocks
      /\ t.blocks = put(s.blocks, sb.root, sb.message)
  BY ImportedBlock
<1> HIDE DEF t
<1>2. /\ DOMAIN t.blocks = DOMAIN s.blocks \cup {sb.root}
      /\ \A other \in DOMAIN s.blocks : t.blocks[other] = s.blocks[other]
  BY <1>1 DEF put
<1>3. IsFiniteSet(DOMAIN s.blocks \cup {sb.root})
  BY FS_AddElement DEF AnchorSound
<1>4. sb.root # ANCHOR_BLOCK.message.parent_root
  BY AnchorParentAssumption
<1>5. AnchorSound(t)
  BY <1>2, <1>3, <1>4 DEF AnchorSound
<1> QED BY <1>5 DEF t

LEMMA AnchorStep ==
  ASSUME TypeOK, AnchorSound(store), [Next]_vars
  PROVE  AnchorSound(store')
<1>1. IsStore(store)
  BY DEF TypeOK
<1> QED BY <1>1, BlocksStep, ImportKeepsAnchor, SameBlocksKeepTree

(* A block on its parent's payload stays above a verified payload.         *)
LEMMA FullParentStep ==
  ASSUME TypeOK, TypeOK', TreeSound(store), FullParentVerified, [Next]_vars
  PROVE  FullParentVerified'
<1>1. IsStore(store) /\ known = DOMAIN store.blocks
  BY DEF TypeOK, known
<1>2. store.payloads \subseteq store'.payloads
  BY PayloadsStep
<1>3. CASE SameBlocks(store, store')
  BY <1>2, <1>3 DEF FullParentVerified, SameBlocks, known, is_parent_node_full,
                    get_parent_payload_status, block_at
<1>4. ASSUME NEW sb \in SIGNED_BLOCKS, on_block_accepts(store, sb),
             store' = on_block(store, sb)
      PROVE  FullParentVerified'
  <2> SUFFICES ASSUME NEW root \in DOMAIN store'.blocks \ {ANCHOR_BLOCK.root},
                      is_parent_node_full(store', store'.blocks[root])
               PROVE  store'.blocks[root].parent_root \in store'.payloads
    BY DEF FullParentVerified, known
  <2>1. /\ sb.root \notin DOMAIN store.blocks
        /\ sb.message.parent_root \in DOMAIN store.blocks
        /\ is_parent_node_full(store, sb.message)
             => sb.message.parent_root \in store.payloads
        /\ store'.blocks = put(store.blocks, sb.root, sb.message)
    BY <1>1, <1>4, ImportedBlock
  <2>2. /\ DOMAIN store'.blocks = DOMAIN store.blocks \cup {sb.root}
        /\ store'.blocks[sb.root] = sb.message
        /\ \A other \in DOMAIN store.blocks : store'.blocks[other] = store.blocks[other]
    BY <2>1 DEF put
  <2>3. ASSUME NEW block, block.parent_root \in DOMAIN store.blocks
        PROVE  is_parent_node_full(store', block) <=> is_parent_node_full(store, block)
    BY <2>2, <2>3 DEF is_parent_node_full, get_parent_payload_status, block_at
  <2>4. CASE root = sb.root
    BY <1>2, <2>1, <2>2, <2>3, <2>4
  <2>5. CASE root # sb.root
    <3>1. root \in known \ {ANCHOR_BLOCK.root} /\ store'.blocks[root] = store.blocks[root]
      BY <1>1, <2>2, <2>5
    <3>2. store.blocks[root].parent_root \in DOMAIN store.blocks
      BY <1>1, <3>1 DEF TreeSound
    <3> QED BY <1>2, <2>3, <3>1, <3>2 DEF FullParentVerified
  <2> QED BY <2>4, <2>5
<1> QED BY <1>3, <1>4, BlocksStep

(* A counted vote stays sound: its block stays known, and time goes on.    *)
LEMMA LatestMessagesStep ==
  ASSUME TypeOK, TypeOK', LatestMessagesSound, [Next]_vars
  PROVE  LatestMessagesSound'
<1>1. IsStore(store) /\ Shaped(store) /\ known = DOMAIN store.blocks
  BY DEF TypeOK, IsStore, Shaped, known
<1>2. /\ get_current_slot(store) \in Nat /\ get_current_slot(store') \in Nat
      /\ get_current_slot(store) <= get_current_slot(store')
  BY ClockStep, SlotType DEF TypeOK, IsStore, StoreOver, get_current_slot
<1>3. store.payloads \subseteq store'.payloads
  BY PayloadsStep
<1>4. \A root \in known : root \in known' /\ block_slot(store', root) = block_slot(store, root)
  <2>1. SameBlocks(store, store')
          => \A root \in known :
               root \in known' /\ block_slot(store', root) = block_slot(store, root)
    BY DEF SameBlocks, known, block_slot, block_at
  <2>2. ASSUME NEW sb \in SIGNED_BLOCKS, on_block_accepts(store, sb),
               store' = on_block(store, sb), NEW root \in known
        PROVE  root \in known' /\ block_slot(store', root) = block_slot(store, root)
    <3>1. /\ sb.root \notin DOMAIN store.blocks
          /\ store'.blocks = put(store.blocks, sb.root, sb.message)
      BY <1>1, <2>2, ImportedBlock
    <3> QED BY <1>1, <3>1 DEF known, block_slot, block_at, put
  <2> QED BY <2>1, <2>2, BlocksStep
<1> DEFINE sound(message, s) ==
             /\ message.root \in DOMAIN s.blocks
             /\ block_slot(s, message.root) <= message.slot
             /\ message.slot < get_current_slot(s)
             /\ message.payload_present => /\ block_slot(s, message.root) < message.slot
                                           /\ message.root \in s.payloads
<1>5. \A i \in DOMAIN store.latest_messages : sound(store.latest_messages[i], store)
  BY <1>1 DEF LatestMessagesSound
<1>6. ASSUME NEW message \in LatestMessage, sound(message, store) PROVE sound(message, store')
  <2>1. message.slot \in Nat
    BY DEF LatestMessage
  <2>2. message.slot < get_current_slot(store')
    BY <1>2, <1>6, <2>1
  <2> QED BY <1>1, <1>3, <1>4, <1>6, <2>2 DEF known
<1>7. \A i \in DOMAIN store.latest_messages : store.latest_messages[i] \in LatestMessage
  BY <1>1 DEF Shaped, StoreOver
<1> SUFFICES ASSUME NEW i \in DOMAIN store'.latest_messages
             PROVE  sound(store'.latest_messages[i], store')
  BY DEF LatestMessagesSound, known
<1> HIDE DEF sound
<1>8. CASE store'.latest_messages = store.latest_messages
  BY <1>5, <1>6, <1>7, <1>8
<1>9. ASSUME NEW a \in ATTESTATIONS, NEW from_block \in BOOLEAN,
             on_attestation_accepts(store, a, from_block),
             store' = on_attestation(store, a)
      PROVE  sound(store'.latest_messages[i], store')
  <2> DEFINE message == [slot |-> a.data.slot, root |-> a.data.beacon_block_root,
                         payload_present |-> a.data.index = 1]
  <2>1. /\ a.data.slot \in Nat
        /\ a.data.beacon_block_root \in Root
    BY MessagesAssumption DEF Attestation, AttestationData
  <2>2. message \in LatestMessage
    BY <2>1 DEF LatestMessage
  <2>3. sound(message, store)
    <3>1. /\ a.data.beacon_block_root \in DOMAIN store.blocks
          /\ block_slot(store, a.data.beacon_block_root) <= a.data.slot
          /\ block_slot(store, a.data.beacon_block_root) = a.data.slot => a.data.index = 0
          /\ a.data.index = 1 => a.data.beacon_block_root \in store.payloads
          /\ get_current_slot(store) >= a.data.slot + 1
      BY <1>9 DEF on_attestation_accepts, validate_on_attestation, is_payload_verified,
                  slot_is_over
    <3>2. block_slot(store, a.data.beacon_block_root) \in Nat
      BY <1>1, BlockSlotType
    <3>3. /\ a.data.slot < get_current_slot(store)
          /\ a.data.index = 1 => block_slot(store, a.data.beacon_block_root) < a.data.slot
      BY <1>2, <2>1, <3>1, <3>2
    <3> QED BY <3>1, <3>3 DEF sound
  <2> HIDE DEF message
  <2>4. store'.latest_messages =
          [j \in DOMAIN store.latest_messages \cup newer_voters(store, a) |->
             IF j \in newer_voters(store, a) THEN message ELSE store.latest_messages[j]]
    BY <1>1, <1>9, OnAttestationLeaves DEF message
  <2>5. CASE i \in newer_voters(store, a)
    BY <1>6, <2>2, <2>3, <2>4, <2>5
  <2>6. CASE i \notin newer_voters(store, a)
    BY <1>5, <1>6, <1>7, <2>4, <2>6
  <2> QED BY <2>5, <2>6
<1>10. TickStep => store'.latest_messages = store.latest_messages
  BY <1>1, TickLeaves DEF TickStep, SameVotes
<1>11. \A sb \in SIGNED_BLOCKS : on_block_accepts(store, sb) /\ store' = on_block(store, sb)
         => store'.latest_messages = store.latest_messages
  BY <1>1, OnBlockLeaves DEF SameVotes
<1>12. \A slashing : store' = on_attester_slashing(store, slashing)
         => store'.latest_messages = store.latest_messages
  BY <1>1, OnAttesterSlashingLeaves
<1>13. \A root : store' = on_execution_payload_envelope(store, root)
         => store'.latest_messages = store.latest_messages
  BY <1>1, OnEnvelopeLeaves DEF SameVotes
<1>14. \A message : store' = on_payload_attestation_message(store, message)
         => store'.latest_messages = store.latest_messages
  BY <1>1, RecordVotesLeaves DEF on_payload_attestation_message, SameVotes
<1> QED BY <1>8, <1>9, <1>10, <1>11, <1>12, <1>13, <1>14, StepKinds

(* What a step does to the boost: a slot's first timely block gets it, and *)
(* only the next slot takes it away.                                       *)
LEMMA BoostKinds ==
  ASSUME TypeOK, [Next]_vars
  PROVE  \/ /\ store'.proposer_boost_root = store.proposer_boost_root
            /\ get_current_slot(store') = get_current_slot(store)
            /\ SameBlocks(store, store')
                 \/ \E sb \in SIGNED_BLOCKS :
                      on_block_accepts(store, sb) /\ store' = on_block(store, sb)
         \/ /\ store'.proposer_boost_root = NoRoot
            /\ get_current_slot(store) < get_current_slot(store')
         \/ /\ store.proposer_boost_root = NoRoot
            /\ get_current_slot(store') = get_current_slot(store)
            /\ \E sb \in SIGNED_BLOCKS :
                 /\ on_block_accepts(store, sb) /\ store' = on_block(store, sb)
                 /\ store'.proposer_boost_root = sb.root
                 /\ store'.block_timeliness[sb.root].attestation
                 /\ get_current_slot(store) = sb.message.slot
<1>1. IsStore(store) /\ Shaped(store) /\ get_current_slot(store) \in Nat
  BY SlotType DEF TypeOK, IsStore, Shaped, StoreOver, get_current_slot
<1>2. SameClock(store, store') => /\ store'.proposer_boost_root = store.proposer_boost_root
                                  /\ get_current_slot(store') = get_current_slot(store)
  BY DEF SameClock, get_current_slot
<1>3. CASE TickStep
  <2>1. PICK time \in Nat : /\ store' = on_tick_per_slot(store, time)
                            /\ get_current_slot(store) <= slot_at(time)
    BY <1>3 DEF TickStep
  <2>2. /\ SameBlocks(store, store')
        /\ store'.time = time
        /\ store'.proposer_boost_root = IF slot_at(time) > get_current_slot(store)
                                        THEN NoRoot ELSE store.proposer_boost_root
    BY <1>1, <2>1, TickLeaves
  <2>3. get_current_slot(store') = slot_at(time) /\ slot_at(time) \in Nat
    BY <2>2, SlotType DEF get_current_slot
  <2> QED BY <1>1, <2>1, <2>2, <2>3
<1>4. ASSUME NEW sb \in SIGNED_BLOCKS, on_block_accepts(store, sb),
             store' = on_block(store, sb)
      PROVE  /\ get_current_slot(store') = get_current_slot(store)
             /\ \/ store'.proposer_boost_root = store.proposer_boost_root
                \/ /\ store.proposer_boost_root = NoRoot
                   /\ store'.proposer_boost_root = sb.root
                   /\ store'.block_timeliness[sb.root].attestation
                   /\ get_current_slot(store) = sb.message.slot
  <2>1. PICK entry \in Timeliness :
          /\ store'.block_timeliness = put(store.block_timeliness, sb.root, entry)
          /\ entry.attestation => get_current_slot(store) = sb.message.slot
          /\ \/ store'.proposer_boost_root = store.proposer_boost_root
             \/ /\ store.proposer_boost_root = NoRoot
                /\ store'.proposer_boost_root = sb.root
                /\ entry.attestation
    BY <1>1, <1>4, OnBlockLeaves
  <2>2. store'.time = store.time
    BY <1>1, <1>4, OnBlockLeaves
  <2>3. store'.block_timeliness[sb.root] = entry
    BY <2>1 DEF put
  <2> QED BY <2>1, <2>2, <2>3 DEF get_current_slot
<1>5. ASSUME NEW a, store' = on_attestation(store, a)
      PROVE  SameBlocks(store, store') /\ SameClock(store, store')
  BY <1>1, <1>5, OnAttestationLeaves
<1>6. ASSUME NEW slashing, store' = on_attester_slashing(store, slashing)
      PROVE  SameBlocks(store, store') /\ SameClock(store, store')
  BY <1>1, <1>6, OnAttesterSlashingLeaves
<1>7. ASSUME NEW root, store' = on_execution_payload_envelope(store, root)
      PROVE  SameBlocks(store, store') /\ SameClock(store, store')
  BY <1>1, <1>7, OnEnvelopeLeaves
<1>8. ASSUME NEW message, store' = on_payload_attestation_message(store, message)
      PROVE  SameBlocks(store, store') /\ SameClock(store, store')
  BY <1>1, <1>8, RecordVotesLeaves DEF on_payload_attestation_message
<1>9. store' = store => SameBlocks(store, store') /\ SameClock(store, store')
  BY DEF SameBlocks, SameClock
<1> QED BY <1>2, <1>3, <1>4, <1>5, <1>6, <1>7, <1>8, <1>9, StepKinds

LEMMA BoostStep ==
  ASSUME TypeOK, TypeOK', BoostIsTimelyBlock, [Next]_vars
  PROVE  BoostIsTimelyBlock'
<1>1. IsStore(store) /\ known = DOMAIN store.blocks
  BY DEF TypeOK, known
<1> DEFINE boost == store'.proposer_boost_root
<1> SUFFICES ASSUME boost # NoRoot
             PROVE  /\ boost \in DOMAIN store'.blocks
                    /\ store'.blocks[boost].slot = get_current_slot(store')
                    /\ store'.block_timeliness[boost].attestation
  BY DEF BoostIsTimelyBlock, known
<1>2. ASSUME NEW sb \in SIGNED_BLOCKS, on_block_accepts(store, sb),
             store' = on_block(store, sb)
      PROVE  /\ sb.root \notin DOMAIN store.blocks
             /\ DOMAIN store'.blocks = DOMAIN store.blocks \cup {sb.root}
             /\ store'.blocks[sb.root] = sb.message
             /\ \A root \in DOMAIN store.blocks :
                  /\ store'.blocks[root] = store.blocks[root]
                  /\ store'.block_timeliness[root] = store.block_timeliness[root]
  <2>1. /\ sb.root \notin DOMAIN store.blocks
        /\ store'.blocks = put(store.blocks, sb.root, sb.message)
    BY <1>1, <1>2, ImportedBlock
  <2>2. \E entry : store'.block_timeliness = put(store.block_timeliness, sb.root, entry)
    BY <1>1, <1>2, OnBlockLeaves
  <2> QED BY <1>1, <2>1, <2>2 DEF put, IsStore, KeysAgree
<1>3. CASE /\ store'.proposer_boost_root = store.proposer_boost_root
           /\ get_current_slot(store') = get_current_slot(store)
           /\ SameBlocks(store, store')
                \/ \E sb \in SIGNED_BLOCKS :
                     on_block_accepts(store, sb) /\ store' = on_block(store, sb)
  <2>1. /\ boost \in DOMAIN store.blocks
        /\ store.blocks[boost].slot = get_current_slot(store')
        /\ store.block_timeliness[boost].attestation
    BY <1>1, <1>3 DEF BoostIsTimelyBlock
  <2>2. /\ boost \in DOMAIN store'.blocks
        /\ store'.blocks[boost] = store.blocks[boost]
        /\ store'.block_timeliness[boost] = store.block_timeliness[boost]
    BY <1>2, <1>3, <2>1 DEF SameBlocks
  <2> QED BY <2>1, <2>2
<1>4. CASE \E sb \in SIGNED_BLOCKS :
             /\ on_block_accepts(store, sb) /\ store' = on_block(store, sb)
             /\ get_current_slot(store') = get_current_slot(store)
             /\ store'.proposer_boost_root = sb.root
             /\ store'.block_timeliness[sb.root].attestation
             /\ get_current_slot(store) = sb.message.slot
  BY <1>2, <1>4
<1> QED BY <1>3, <1>4, BoostKinds

(* PTC votes stay paired.                                                  *)
LEMMA PtcStep ==
  ASSUME TypeOK, PtcSound(store), TypeOK', [Next]_vars
  PROVE  PtcSound(store')
<1>1. /\ IsStore(store) /\ Shaped(store) /\ KeysAgree(store)
      /\ known = DOMAIN store.blocks
  BY DEF TypeOK, IsStore, Shaped, known
<1>2. ASSUME SameBlocks(store, store'), SamePtcVotes(store, store')
      PROVE  PtcSound(store')
  BY <1>2 DEF PtcSound, SameBlocks, SamePtcVotes
<1>3. ASSUME NEW message, NEW from_block \in BOOLEAN,
             on_payload_attestation_message_accepts(store, message, from_block),
             store' = on_payload_attestation_message(store, message)
      PROVE  PtcSound(store')
  <2>1. \A k \in DOMAIN <<message>> : <<message>>[k] = message
    OBVIOUS
  <2>2. from_block = TRUE \/ from_block = FALSE
    OBVIOUS
  <2>3. PtcSound(record_ptc_votes(store, <<message>>))
    BY <1>1, <1>3, <2>1, <2>2, RecordKeepsPtcSound DEF KeysAgree
  <2> QED BY <1>3, <2>3 DEF on_payload_attestation_message
<1>4. ASSUME NEW sb \in SIGNED_BLOCKS, on_block_accepts(store, sb),
             store' = on_block(store, sb)
      PROVE  PtcSound(store')
  <2> DEFINE inserted == insert_block(store, sb)
             messages == sb.message.payload_attestations
             notified == notify_ptc_messages(inserted, post_state(store, sb), messages)
  <2>1. /\ sb.root \notin DOMAIN store.blocks
        /\ post_state(store, sb).slot = sb.message.slot
        /\ store'.blocks = put(store.blocks, sb.root, sb.message)
        /\ store'.block_states = put(store.block_states, sb.root, post_state(store, sb))
    BY <1>1, <1>4, ImportedBlock
  <2>2. SamePtcVotes(notified, store')
    BY <1>1, <1>4, OnBlockLeaves
  <2>3. /\ Shaped(inserted)
        /\ inserted.blocks = store'.blocks
        /\ inserted.block_states = store'.block_states
        /\ inserted.payload_timeliness_vote
             = put(store.payload_timeliness_vote, sb.root, EmptyDict)
        /\ inserted.payload_data_availability_vote
             = put(store.payload_data_availability_vote, sb.root, EmptyDict)
    <3>1. Shaped(inserted)
      BY <1>1, <1>4, PostStateType, InsertBlockType
    <3> QED BY <1>1, <2>1, <3>1 DEF insert_block, IsStore, StoreOver
  <2>4. notify_ptc_messages_accepts(inserted, post_state(store, sb), messages)
    BY <1>4 DEF on_block_accepts, on_block_asserts
  <2> HIDE DEF inserted
  <2>5. PtcSound(inserted)
    <3>1. DOMAIN EmptyDict = {}
      BY DEF EmptyDict
    <3>2. ASSUME NEW root \in DOMAIN store.blocks
          PROVE  /\ inserted.blocks[root] = store.blocks[root]
                 /\ inserted.block_states[root] = store.block_states[root]
                 /\ inserted.payload_timeliness_vote[root]
                      = store.payload_timeliness_vote[root]
                 /\ inserted.payload_data_availability_vote[root]
                      = store.payload_data_availability_vote[root]
      BY <1>1, <2>1, <2>3 DEF put, KeysAgree
    <3>3. /\ inserted.blocks[sb.root] = sb.message
          /\ inserted.block_states[sb.root].slot = sb.message.slot
          /\ inserted.payload_timeliness_vote[sb.root] = EmptyDict
          /\ inserted.payload_data_availability_vote[sb.root] = EmptyDict
          /\ DOMAIN inserted.blocks = DOMAIN store.blocks \cup {sb.root}
      BY <2>1, <2>3 DEF put
    <3>4. PtcSound(store)
      BY <1>1
    <3> SUFFICES ASSUME NEW root \in DOMAIN inserted.blocks
                 PROVE  LET slot == inserted.blocks[root].slot
                            timely == inserted.payload_timeliness_vote[root]
                            available == inserted.payload_data_availability_vote[root]
                        IN  /\ inserted.block_states[root].slot = slot
                            /\ DOMAIN timely = DOMAIN available
                            /\ \A i \in DOMAIN timely :
                                 /\ i \in 0..Len(get_ptc(slot))-1
                                 /\ \A j \in ptc_indices(slot, get_ptc(slot)[i + 1]) :
                                      /\ j \in DOMAIN timely
                                      /\ timely[i] = timely[j]
                                      /\ available[i] = available[j]
      BY DEF PtcSound
    <3>5. CASE root \in DOMAIN store.blocks
      BY <3>2, <3>4, <3>5 DEF PtcSound
    <3>6. CASE root = sb.root
      BY <3>1, <3>3, <3>6
    <3> QED BY <3>3, <3>5, <3>6
  <2>6. /\ DOMAIN inserted.block_states = DOMAIN inserted.blocks
        /\ DOMAIN inserted.payload_timeliness_vote = DOMAIN inserted.blocks
        /\ DOMAIN inserted.payload_data_availability_vote = DOMAIN inserted.blocks
    BY <1>1, <2>1, <2>3 DEF put, KeysAgree
  <2>7. /\ notified.blocks = inserted.blocks
        /\ notified.block_states = inserted.block_states
        /\ PtcSound(notified)
    <3>1. CASE post_state(store, sb).slot = 0
      BY <2>5, <3>1 DEF notify_ptc_messages
    <3>2. CASE post_state(store, sb).slot # 0
      <4>1. notified = record_ptc_votes(inserted, messages)
        BY <3>2 DEF notify_ptc_messages
      <4>2. \A k \in DOMAIN messages :
              on_payload_attestation_message_accepts(inserted, messages[k], TRUE)
        BY <2>4, <3>2 DEF notify_ptc_messages_accepts
      <4>3. SameBlocks(inserted, notified)
        BY <2>3, <4>1, RecordVotesLeaves
      <4>4. PtcSound(notified)
        BY <2>3, <2>5, <2>6, <4>1, <4>2, RecordKeepsPtcSound
      <4> QED BY <4>3, <4>4 DEF SameBlocks
    <3> QED BY <3>1, <3>2
  <2> HIDE DEF notified
  <2> QED BY <2>2, <2>3, <2>7 DEF PtcSound, SamePtcVotes
<1>5. TickStep => SameBlocks(store, store') /\ SamePtcVotes(store, store')
  BY <1>1, TickLeaves DEF TickStep
<1>6. ASSUME NEW a, store' = on_attestation(store, a)
      PROVE  SameBlocks(store, store') /\ SamePtcVotes(store, store')
  BY <1>1, <1>6, OnAttestationLeaves
<1>7. ASSUME NEW slashing, store' = on_attester_slashing(store, slashing)
      PROVE  SameBlocks(store, store') /\ SamePtcVotes(store, store')
  BY <1>1, <1>7, OnAttesterSlashingLeaves
<1>8. ASSUME NEW root, store' = on_execution_payload_envelope(store, root)
      PROVE  SameBlocks(store, store') /\ SamePtcVotes(store, store')
  BY <1>1, <1>8, OnEnvelopeLeaves
<1>9. store' = store => SameBlocks(store, store') /\ SamePtcVotes(store, store')
  BY DEF SameBlocks, SamePtcVotes
<1> QED BY <1>2, <1>3, <1>4, <1>5, <1>6, <1>7, <1>8, <1>9, StepKinds

(* The store of the anchor knows the anchor's block only.                  *)
LEMMA AnchorStoreSound ==
  LET s == get_forkchoice_store(ANCHOR_STATE, ANCHOR_BLOCK)
  IN  /\ DOMAIN s.blocks = {ANCHOR_BLOCK.root}
      /\ TreeSound(s) /\ AnchorSound(s)
<1> DEFINE root == ANCHOR_BLOCK.root
           s == get_forkchoice_store(ANCHOR_STATE, ANCHOR_BLOCK)
<1>1. \A value : /\ DOMAIN put(EmptyDict, root, value) = {root}
                 /\ put(EmptyDict, root, value)[root] = value
  BY DEF put, EmptyDict
<1>2. /\ s.blocks = put(EmptyDict, root, ANCHOR_BLOCK.message)
      /\ s.block_states = put(EmptyDict, root, ANCHOR_STATE)
  BY DEF get_forkchoice_store
<1> HIDE DEF root, s
<1>3. /\ DOMAIN s.blocks = {root}
      /\ s.blocks[root] = ANCHOR_BLOCK.message
      /\ s.block_states[root] = ANCHOR_STATE
  BY <1>1, <1>2
<1>4. /\ ANCHOR_STATE.slot = ANCHOR_BLOCK.message.slot
      /\ ANCHOR_BLOCK.message.slot \in Nat
  BY AnchorAssumption DEF SignedBeaconBlock, BeaconBlock
<1>5. TreeSound(s)
  BY <1>3, <1>4 DEF TreeSound, root
<1>6. AnchorSound(s)
  BY <1>3, FS_Singleton, AnchorParentAssumption DEF AnchorSound, root
<1> QED BY <1>3, <1>5, <1>6 DEF root, s

LEMMA InitSound == Init => StoreSound
<1> SUFFICES ASSUME Init PROVE StoreSound
  OBVIOUS
<1>1. store = get_forkchoice_store(ANCHOR_STATE, ANCHOR_BLOCK)
  BY DEF Init
<1>2. known = {ANCHOR_BLOCK.root} /\ TreeSound(store) /\ AnchorSound(store)
  BY <1>1, AnchorStoreSound DEF known
<1> DEFINE root == ANCHOR_BLOCK.root
<1>3. \A value : /\ DOMAIN put(EmptyDict, root, value) = {root}
                 /\ put(EmptyDict, root, value)[root] = value
  BY DEF put, EmptyDict
<1>4. /\ store.latest_messages = EmptyDict
      /\ store.payload_timeliness_vote = put(EmptyDict, root, EmptyDict)
      /\ store.payload_data_availability_vote = put(EmptyDict, root, EmptyDict)
      /\ store.proposer_boost_root = NoRoot
  BY <1>1 DEF get_forkchoice_store
<1> HIDE DEF root
<1>5. /\ DOMAIN EmptyDict = {}
      /\ DOMAIN store.latest_messages = {}
      /\ DOMAIN store.payload_timeliness_vote[root] = {}
      /\ DOMAIN store.payload_data_availability_vote[root] = {}
  BY <1>3, <1>4 DEF EmptyDict
<1>6. FullParentVerified
  BY <1>2 DEF FullParentVerified
<1>7. PtcSound(store)
  BY <1>2, <1>5 DEF PtcSound, TreeSound, known, root
<1>8. LatestMessagesSound
  BY <1>5 DEF LatestMessagesSound
<1>9. BoostIsTimelyBlock
  BY <1>4 DEF BoostIsTimelyBlock
<1> QED BY <1>2, <1>6, <1>7, <1>8, <1>9 DEF StoreSound

LEMMA NextSound == TypeOK /\ TypeOK' /\ StoreSound /\ [Next]_vars => StoreSound'
<1> SUFFICES ASSUME TypeOK, TypeOK', StoreSound, [Next]_vars PROVE StoreSound'
  OBVIOUS
<1>1. TreeSound(store')
  BY TreeStep DEF StoreSound
<1>2. FullParentVerified'
  BY FullParentStep DEF StoreSound
<1>3. PtcSound(store')
  BY PtcStep DEF StoreSound
<1>4. LatestMessagesSound'
  BY LatestMessagesStep DEF StoreSound
<1>5. BoostIsTimelyBlock'
  BY BoostStep DEF StoreSound
<1>6. AnchorSound(store')
  BY AnchorStep DEF StoreSound
<1> QED BY <1>1, <1>2, <1>3, <1>4, <1>5, <1>6 DEF StoreSound, PtcSound

(* The invariant holds of every store the handlers can produce.            *)
THEOREM StoreInvariant == Spec => []StoreSound
BY InitSound, NextSound, StoreTypeCorrect, PTL DEF Spec

(* A counted vote is for a known block, from a past slot not before the    *)
(* block's, and for FULL only after the payload was verified here.         *)
THEOREM VotesAreSound == Spec => []LatestMessagesSound
BY StoreInvariant, PTL DEF StoreSound

(* The boost is held by a timely block of the current slot.                *)
THEOREM BoostIsTimely == Spec => []BoostIsTimelyBlock
BY StoreInvariant, PTL DEF StoreSound

(* The two vote lists of a block's PTC have the same voters.               *)
THEOREM PtcVotesStayPaired == Spec => []PtcVotesPaired
<1>1. TypeOK /\ StoreSound => PtcVotesPaired
  BY DEF StoreSound, PtcSound, PtcVotesPaired, known, ptc_indices
<1> QED BY <1>1, StoreInvariant, StoreTypeCorrect, PTL

-----------------------------------------------------------------------------
(* What a step may never do.                                               *)

(* A vote gives way only to a later one, and never after an equivocation.  *)
THEOREM VotesMoveForward == Spec => LatestMessagesOnlyMoveForward
<1> DEFINE forward ==
             /\ store.equivocating_indices \subseteq store'.equivocating_indices
             /\ \A i \in DOMAIN store.latest_messages :
                  /\ i \in DOMAIN store'.latest_messages
                  /\ store'.latest_messages[i] # store.latest_messages[i] =>
                       /\ store'.latest_messages[i].slot > store.latest_messages[i].slot
                       /\ i \notin store.equivocating_indices
<1>1. ASSUME TypeOK, [Next]_vars PROVE forward
  <2>1. IsStore(store) /\ Shaped(store)
    BY <1>1 DEF TypeOK, IsStore, Shaped
  <2>2. SameVotes(store, store') => forward
    BY DEF SameVotes
  <2>3. TickStep => SameVotes(store, store')
    BY <2>1, TickLeaves DEF TickStep
  <2>4. \A sb \in SIGNED_BLOCKS : on_block_accepts(store, sb) /\ store' = on_block(store, sb)
          => SameVotes(store, store')
    BY <2>1, OnBlockLeaves
  <2>5. ASSUME NEW a, store' = on_attestation(store, a) PROVE forward
    <3>1. /\ store'.equivocating_indices = store.equivocating_indices
          /\ store'.latest_messages =
               [i \in DOMAIN store.latest_messages \cup newer_voters(store, a) |->
                  IF i \in newer_voters(store, a)
                  THEN [slot |-> a.data.slot, root |-> a.data.beacon_block_root,
                        payload_present |-> a.data.index = 1]
                  ELSE store.latest_messages[i]]
      BY <2>1, <2>5, OnAttestationLeaves
    <3>2. \A i \in newer_voters(store, a) :
            /\ i \notin store.equivocating_indices
            /\ i \in DOMAIN store.latest_messages
                 => a.data.slot > store.latest_messages[i].slot
      BY DEF newer_voters, is_newer_vote
    <3> QED BY <3>1, <3>2
  <2>6. ASSUME NEW slashing, store' = on_attester_slashing(store, slashing) PROVE forward
    BY <2>1, <2>6, OnAttesterSlashingLeaves
  <2>7. \A root : store' = on_execution_payload_envelope(store, root)
          => SameVotes(store, store')
    BY <2>1, OnEnvelopeLeaves
  <2>8. \A message : store' = on_payload_attestation_message(store, message)
          => SameVotes(store, store')
    BY <2>1, RecordVotesLeaves DEF on_payload_attestation_message
  <2>9. store' = store => SameVotes(store, store')
    BY DEF SameVotes
  <2> HIDE DEF forward
  <2> QED BY <1>1, <2>2, <2>3, <2>4, <2>5, <2>6, <2>7, <2>8, <2>9, StepKinds
<1>2. TypeOK /\ [Next]_vars => [forward]_vars
  BY <1>1
<1> HIDE DEF forward
<1>3. Spec => [][forward]_vars
  BY <1>2, StoreTypeCorrect, PTL DEF Spec
<1> QED BY <1>3 DEF forward, LatestMessagesOnlyMoveForward

(* The first timely block keeps the boost until the slot is over.          *)
THEOREM BoostIsHeld == Spec => BoostHeldForTheSlot
<1> DEFINE held == /\ store.proposer_boost_root # NoRoot
                   /\ store'.proposer_boost_root # store.proposer_boost_root
                   => get_current_slot(store') > get_current_slot(store)
<1>1. ASSUME TypeOK, [Next]_vars PROVE held
  <2>1. /\ get_current_slot(store) \in Nat
        /\ get_current_slot(store) <= get_current_slot(store')
    BY <1>1, ClockStep, SlotType DEF TypeOK, IsStore, StoreOver, get_current_slot
  <2> QED BY <1>1, <2>1, BoostKinds
<1>2. TypeOK /\ [Next]_vars => [held]_vars
  BY <1>1
<1> HIDE DEF held
<1>3. Spec => [][held]_vars
  BY <1>2, StoreTypeCorrect, PTL DEF Spec
<1> QED BY <1>3 DEF held, BoostHeldForTheSlot

(* What is recorded at an import is final, and PTC votes only accumulate.  *)
THEOREM ImportsAreFinal == Spec => ImportHappensOnce
<1> DEFINE kept(root) ==
             /\ root \in known'
             /\ store'.block_states[root] = store.block_states[root]
             /\ store'.block_timeliness[root] = store.block_timeliness[root]
             /\ store'.unrealized_justifications[root] = store.unrealized_justifications[root]
             /\ DOMAIN store.payload_timeliness_vote[root]
                  \subseteq DOMAIN store'.payload_timeliness_vote[root]
<1>1. ASSUME TypeOK, [Next]_vars PROVE \A root \in known : kept(root)
  <2> SUFFICES ASSUME NEW root \in known PROVE kept(root)
    OBVIOUS
  <2>1. /\ IsStore(store) /\ Shaped(store) /\ KeysAgree(store)
        /\ root \in DOMAIN store.blocks
    BY <1>1 DEF TypeOK, IsStore, Shaped, known
  <2>2. ASSUME SameBlocks(store, store'), SamePtcVotes(store, store') PROVE kept(root)
    BY <2>1, <2>2 DEF SameBlocks, SamePtcVotes, known
  <2>3. ASSUME NEW s, Shaped(s), NEW messages, root \in DOMAIN s.payload_timeliness_vote
        PROVE  DOMAIN s.payload_timeliness_vote[root]
                 \subseteq DOMAIN record_ptc_votes(s, messages).payload_timeliness_vote[root]
    <3>1. record_ptc_votes(s, messages).payload_timeliness_vote
            = recorded_votes(s, messages, s.payload_timeliness_vote, "payload_present")
      BY <2>3, RecordVotesLeaves
    <3>2. DOMAIN recorded_votes(s, messages, s.payload_timeliness_vote, "payload_present")[root]
            = DOMAIN s.payload_timeliness_vote[root] \cup written_positions(s, messages, root)
      BY <2>3 DEF recorded_votes
    <3> QED BY <3>1, <3>2
  <2>4. ASSUME NEW message, store' = on_payload_attestation_message(store, message)
        PROVE  kept(root)
    <3>1. SameBlocks(store, store')
      BY <2>1, <2>4, RecordVotesLeaves DEF on_payload_attestation_message
    <3>2. DOMAIN store.payload_timeliness_vote[root]
            \subseteq DOMAIN store'.payload_timeliness_vote[root]
      BY <2>1, <2>3, <2>4 DEF on_payload_attestation_message, KeysAgree
    <3> QED BY <2>1, <3>1, <3>2 DEF SameBlocks, known
  <2>5. ASSUME NEW sb \in SIGNED_BLOCKS, on_block_accepts(store, sb),
               store' = on_block(store, sb)
        PROVE  kept(root)
    <3> DEFINE inserted == insert_block(store, sb)
               messages == sb.message.payload_attestations
               notified == notify_ptc_messages(inserted, post_state(store, sb), messages)
    <3>1. /\ sb.root \notin DOMAIN store.blocks
          /\ store'.blocks = put(store.blocks, sb.root, sb.message)
          /\ store'.block_states = put(store.block_states, sb.root, post_state(store, sb))
      BY <2>1, <2>5, ImportedBlock
    <3>2. \E entry : store'.block_timeliness = put(store.block_timeliness, sb.root, entry)
      BY <2>1, <2>5, OnBlockLeaves
    <3>3. \E c : store'.unrealized_justifications
                   = put(store.unrealized_justifications, sb.root, c)
      BY <2>1, <2>5, OnBlockEffect
    <3>4. SamePtcVotes(notified, store')
      BY <2>1, <2>5, OnBlockLeaves
    <3>5. /\ Shaped(inserted)
          /\ root \in DOMAIN inserted.payload_timeliness_vote
          /\ inserted.payload_timeliness_vote[root] = store.payload_timeliness_vote[root]
      <4>1. Shaped(inserted)
        BY <2>1, <2>5, PostStateType, InsertBlockType
      <4>2. inserted.payload_timeliness_vote
              = put(store.payload_timeliness_vote, sb.root, EmptyDict)
        BY <2>1, <4>1 DEF insert_block, IsStore, StoreOver
      <4> QED BY <2>1, <3>1, <4>1, <4>2 DEF put, KeysAgree
    <3> HIDE DEF inserted
    <3>6. DOMAIN inserted.payload_timeliness_vote[root]
            \subseteq DOMAIN notified.payload_timeliness_vote[root]
      BY <2>3, <3>5 DEF notify_ptc_messages
    <3> HIDE DEF notified
    <3>7. DOMAIN store.payload_timeliness_vote[root]
            \subseteq DOMAIN store'.payload_timeliness_vote[root]
      BY <3>4, <3>5, <3>6 DEF SamePtcVotes
    <3>8. /\ store'.block_states[root] = store.block_states[root]
          /\ store'.block_timeliness[root] = store.block_timeliness[root]
          /\ store'.unrealized_justifications[root] = store.unrealized_justifications[root]
      BY <2>1, <3>1, <3>2, <3>3 DEF put, KeysAgree
    <3> QED BY <2>1, <3>1, <3>7, <3>8 DEF put, known
  <2>6. TickStep => SameBlocks(store, store') /\ SamePtcVotes(store, store')
    BY <2>1, TickLeaves DEF TickStep
  <2>7. ASSUME NEW a, store' = on_attestation(store, a)
        PROVE  SameBlocks(store, store') /\ SamePtcVotes(store, store')
    BY <2>1, <2>7, OnAttestationLeaves
  <2>8. ASSUME NEW slashing, store' = on_attester_slashing(store, slashing)
        PROVE  SameBlocks(store, store') /\ SamePtcVotes(store, store')
    BY <2>1, <2>8, OnAttesterSlashingLeaves
  <2>9. ASSUME NEW r, store' = on_execution_payload_envelope(store, r)
        PROVE  SameBlocks(store, store') /\ SamePtcVotes(store, store')
    BY <2>1, <2>9, OnEnvelopeLeaves
  <2>10. store' = store => SameBlocks(store, store') /\ SamePtcVotes(store, store')
    BY DEF SameBlocks, SamePtcVotes
  <2> HIDE DEF kept
  <2> QED BY <1>1, <2>2, <2>4, <2>5, <2>6, <2>7, <2>8, <2>9, <2>10, StepKinds
<1> DEFINE once == \A root \in known : kept(root)
<1>2. TypeOK /\ [Next]_vars => [once]_vars
  BY <1>1
<1> HIDE DEF once
<1>3. Spec => [][once]_vars
  BY <1>2, StoreTypeCorrect, PTL DEF Spec
<1> QED BY <1>3 DEF once, kept, ImportHappensOnce

-----------------------------------------------------------------------------
(* Payload branches.                                                       *)

(* The sum over no validators is zero.                                     *)
LEMMA NoBalance == balance_of({}) = 0
<1> DEFINE sum == CHOOSE iter : iter = [s \in SUBSET {} |->
                    IF s = {} THEN 0
                    ELSE LET x == CHOOSE x \in s : TRUE
                         IN  REGISTRY[x].effective_balance + iter[s \ {x}]]
<1>1. balance_of({}) = sum[{}]
  BY DEF balance_of, MapThenSumSet, MapThenFoldSet
<1> QED BY <1>1

(* Above the anchor's slot the walk goes from block to parent.             *)
LEMMA KnownDescend ==
  ASSUME TypeOK, TreeSound(store), NEW slot \in Nat,
         store.blocks[ANCHOR_BLOCK.root].slot <= slot
  PROVE  /\ Descending(store, slot)
         /\ \A root \in known : block_slot(store, root) > slot
              => /\ root # ANCHOR_BLOCK.root
                 /\ store.blocks[root].parent_root \in known
<1>1. ASSUME NEW root \in known, store.blocks[root].slot > slot
      PROVE  /\ root # ANCHOR_BLOCK.root
             /\ store.blocks[root].parent_root \in known
             /\ store.blocks[store.blocks[root].parent_root].slot < store.blocks[root].slot
  <2>1. store.blocks[root].slot \in Nat /\ store.blocks[ANCHOR_BLOCK.root].slot \in Nat
    BY <1>1, BlockReads DEF TypeOK, TreeSound, known, BeaconBlock
  <2>2. root # ANCHOR_BLOCK.root
    BY <1>1, <2>1
  <2> QED BY <1>1, <2>2 DEF TreeSound, known
<1> QED BY <1>1 DEF Descending, block_slot, block_at, known

(* The nodes a vote may reach: known blocks, FULL only when verified.      *)
verified_nodes ==
  {n \in ForkChoiceNode : n.root \in known /\ (n.payload_status = FULL
                                                => n.root \in store.payloads)}

LEMMA SupportIsVerified ==
  ASSUME TypeOK, StoreSound, NEW i \in DOMAIN store.latest_messages
  PROVE  get_supported_node(store, store.latest_messages[i]) \in verified_nodes
<1> DEFINE message == store.latest_messages[i]
           status == IF block_slot(store, message.root) < message.slot
                     THEN IF message.payload_present THEN FULL ELSE EMPTY
                     ELSE PENDING
<1>1. /\ message.root \in known
      /\ message.payload_present => message.root \in store.payloads
  BY DEF StoreSound, LatestMessagesSound
<1>2. message.root \in Root
  BY DEF TypeOK, IsStore, StoreOver, LatestMessage
<1>3. status \in PayloadStatus /\ (status = FULL => message.payload_present)
  BY DEF PayloadStatus, FULL, EMPTY, PENDING
<1>4. get_supported_node(store, message) = NewNode(message.root, status)
  BY DEF get_supported_node
<1> HIDE DEF status, message
<1> QED BY <1>1, <1>2, <1>3, <1>4, NewNodeType DEF verified_nodes, message

(* The walk of a vote stays on verified nodes.                             *)
LEMMA WalkIsVerified ==
  ASSUME TypeOK, StoreSound, NEW slot \in Nat,
         store.blocks[ANCHOR_BLOCK.root].slot <= slot, NEW node \in verified_nodes
  PROVE  get_ancestor(store, node, slot) \in verified_nodes
<1>1. IsStore(store) /\ TreeSound(store)
  BY DEF TypeOK, StoreSound
<1>2. ASSUME NEW n \in verified_nodes, block_slot(store, n.root) > slot
      PROVE  parent_node(store, n) \in verified_nodes
  <2>1. /\ n \in ForkChoiceNode /\ n.root \in known
        /\ n.root \in DOMAIN store.blocks
    BY DEF verified_nodes, known
  <2>2. n.root # ANCHOR_BLOCK.root /\ store.blocks[n.root].parent_root \in known
    BY <1>1, <1>2, <2>1, KnownDescend
  <2>3. /\ parent_node(store, n) \in ForkChoiceNode
        /\ parent_node(store, n).root = store.blocks[n.root].parent_root
        /\ parent_node(store, n).payload_status
             = get_parent_payload_status(store, store.blocks[n.root])
    BY <1>1, <2>1, ParentNodeType
  <2>4. parent_node(store, n).payload_status = FULL
          => store.blocks[n.root].parent_root \in store.payloads
    BY <2>1, <2>2, <2>3 DEF StoreSound, FullParentVerified, is_parent_node_full
  <2> QED BY <2>2, <2>3, <2>4 DEF verified_nodes
<1>3. Descending(store, slot)
  BY <1>1, KnownDescend
<1>4. verified_nodes \in SUBSET ForkChoiceNode
  BY DEF verified_nodes
<1> QED BY <1>1, <1>2, <1>3, <1>4, AncestorInduction

LEMMA FullWeightIsVerified == TypeOK /\ StoreSound => FullWeightNeedsPayload
<1> SUFFICES ASSUME TypeOK, StoreSound, NEW root \in known,
                    get_attestation_score(store, NewNode(root, FULL),
                                          justified_state(store)) > 0
             PROVE  root \in store.payloads
  BY DEF FullWeightNeedsPayload
<1> DEFINE state == justified_state(store)
           slot == block_slot(store, root)
           voters == {i \in get_active_validator_indices(state, get_current_epoch(state)) :
                        /\ ~REGISTRY[i].slashed
                        /\ i \in DOMAIN store.latest_messages
                        /\ i \notin store.equivocating_indices
                        /\ is_ancestor(store,
                             get_supported_node(store, store.latest_messages[i]),
                             NewNode(root, FULL))}
<1>1. balance_of(voters) > 0
  BY DEF get_attestation_score
<1>2. PICK i \in voters : TRUE
  BY <1>1, NoBalance
<1>3. /\ i \in DOMAIN store.latest_messages
      /\ is_ancestor(store, get_supported_node(store, store.latest_messages[i]),
                     NewNode(root, FULL))
  OBVIOUS
<1> HIDE DEF voters
<1>4. /\ slot \in Nat
      /\ store.blocks[ANCHOR_BLOCK.root].slot <= slot
  <2>1. slot = store.blocks[root].slot
    BY DEF known, block_slot, block_at
  <2> QED BY <2>1, BlockSlotType DEF TypeOK, StoreSound, TreeSound, known
<1> DEFINE found == get_ancestor(store, get_supported_node(store, store.latest_messages[i]),
                                 slot)
<1>5. found \in verified_nodes
  BY <1>3, <1>4, SupportIsVerified, WalkIsVerified
<1>6. found.root = root /\ FULL \in {found.payload_status, PENDING}
  BY <1>3 DEF is_ancestor, NewNode
<1>7. found.payload_status = FULL
  BY <1>6 DEF FULL, PENDING
<1> QED BY <1>5, <1>6, <1>7 DEF verified_nodes

(* Neither a block nor a vote reaches the FULL node of an unverified       *)
(* payload.                                                                *)
THEOREM FullBranchesAreVerified == Spec => []FullBranchesVerified
<1>1. TypeOK /\ StoreSound => FullBranchesVerified
  BY FullWeightIsVerified DEF FullBranchesVerified, StoreSound
<1> QED BY <1>1, StoreInvariant, StoreTypeCorrect, PTL

-----------------------------------------------------------------------------
(* Weights at a fork.                                                      *)

LEMMA JustifiedValidators ==
  ASSUME NEW s, IsStore(s)
  PROVE  justified_state(s).validators \subseteq ValidatorIndex
<1> DEFINE checkpoint == s.justified_checkpoint
<1>1. CASE checkpoint \in DOMAIN s.checkpoint_states
  <2>1. s.checkpoint_states[checkpoint] \in BeaconStates
    BY <1>1 DEF IsStore, StoreOver
  <2>2. s.checkpoint_states[checkpoint] \in BeaconState
    BY <2>1, ExternalsAssumption
  <2> QED BY <1>1, <2>2 DEF justified_state, checkpoint_state, BeaconState
<1>2. CASE checkpoint \notin DOMAIN s.checkpoint_states
  BY <1>2 DEF justified_state, checkpoint_state, DefaultState
<1> QED BY <1>1, <1>2

LEMMA ForkSplitsWeight == TypeOK /\ StoreSound => WeightsSplitAtForks
<1> SUFFICES ASSUME TypeOK, StoreSound PROVE WeightsSplitAtForks
  OBVIOUS
<1> DEFINE state == justified_state(store)
           score(node) == get_attestation_score(store, node, state)
           children(node) == {NewNode(root, PENDING) : root \in
             {r \in known : parent_node(store, NewNode(r, PENDING)) = node}}
<1>1. IsStore(store) /\ TreeSound(store) /\ AnchorSound(store) /\ state.validators \subseteq ValidatorIndex
  BY JustifiedValidators DEF TypeOK, StoreSound
<1>2. \A i \in DOMAIN store.latest_messages :
        get_supported_node(store, store.latest_messages[i]) \in ForkChoiceNode
  BY SupportIsVerified DEF verified_nodes
<1> HIDE DEF state
<1>3. ASSUME NEW root \in known
      PROVE  score(NewNode(root, EMPTY)) + score(NewNode(root, FULL))
               <= score(NewNode(root, PENDING))
  BY <1>1, PayloadsSplit
<1>4. ASSUME NEW root \in known, NEW status \in {EMPTY, FULL}
      PROVE  score_sum(store, state, children(NewNode(root, status)))
               <= score(NewNode(root, status))
  <2> DEFINE branch == NewNode(root, status)
             nodes == children(branch)
  <2>1. branch \in ForkChoiceNode /\ branch.root = root
    <3>1. root \in Root /\ status \in PayloadStatus
      BY <1>1 DEF IsStore, known, PayloadStatus
    <3> QED BY <3>1, NewNodeType
  <2>2. IsFiniteSet(nodes)
    <3> DEFINE node == [r \in {r \in known : parent_node(store, NewNode(r, PENDING)) = branch}
                          |-> NewNode(r, PENDING)]
               roots == DOMAIN node
    <3>1. IsFiniteSet(roots)
      BY <1>1, FS_Subset DEF AnchorSound, known
    <3>2. node \in Surjection(roots, nodes)
      BY DEF Surjection
    <3> HIDE DEF node, nodes
    <3> QED BY <3>1, <3>2, FS_Surjection
  <2>3. ChildrenOf(store, branch, nodes)
    <3> SUFFICES ASSUME NEW r \in known, parent_node(store, NewNode(r, PENDING)) = branch,
                        NEW n, n = NewNode(r, PENDING)
                 PROVE  /\ n.root \in DOMAIN store.blocks
                        /\ n = NewNode(n.root, PENDING)
                        /\ parent_node(store, n) = branch
                        /\ block_slot(store, branch.root) < block_slot(store, n.root)
      BY DEF ChildrenOf
    <3>1. n \in ForkChoiceNode /\ n.root = r
      <4>1. r \in Root /\ PENDING \in PayloadStatus
        BY <1>1 DEF IsStore, known, PayloadStatus
      <4> QED BY <4>1, NewNodeType
    <3>2. r \in DOMAIN store.blocks
      BY DEF known
    <3>3. store.blocks[r].parent_root = root
      <4>1. parent_node(store, n).root = store.blocks[r].parent_root
        BY <1>1, <3>1, <3>2, ParentNodeType
      <4> QED BY <2>1, <4>1
    <3>4. r # ANCHOR_BLOCK.root
      BY <1>1, <3>3 DEF AnchorSound, known
    <3>5. store.blocks[root].slot < store.blocks[r].slot
      BY <1>1, <3>3, <3>4 DEF TreeSound, known
    <3>6. /\ block_slot(store, root) = store.blocks[root].slot
          /\ block_slot(store, r) = store.blocks[r].slot
      BY DEF block_slot, block_at, known
    <3> QED BY <2>1, <3>1, <3>2, <3>5, <3>6
  <2>4. Descending(store, block_slot(store, branch.root))
    <3>1. /\ block_slot(store, root) = store.blocks[root].slot
          /\ block_slot(store, root) \in Nat
      BY <1>1, BlockSlotType DEF block_slot, block_at, known
    <3>2. store.blocks[ANCHOR_BLOCK.root].slot <= block_slot(store, root)
      BY <1>1, <3>1 DEF TreeSound, known
    <3> QED BY <1>1, <2>1, <3>1, <3>2, KnownDescend
  <2> HIDE DEF branch, nodes
  <2>5. score_sum(store, state, nodes) <= get_attestation_score(store, branch, state)
    BY <1>1, <1>2, <2>1, <2>2, <2>3, <2>4, ChildrenSplit
  <2> QED BY <2>5 DEF branch, nodes
<1> QED BY <1>3, <1>4 DEF WeightsSplitAtForks, score_sum, MapThenSumSet, MapThenFoldSet, state

(* Each vote weighs on one branch of every fork, whatever arrived.         *)
THEOREM WeightsSplit == Spec => []WeightsSplitAtForks
<1>1. TypeOK /\ StoreSound => WeightsSplitAtForks
  BY ForkSplitsWeight
<1> QED BY <1>1, StoreInvariant, StoreTypeCorrect, PTL
-----------------------------------------------------------------------------
(* Checkpoints on chains.  Every known block but the anchor is one that    *)
(* the network delivered, its state is one it may have, and a checkpoint   *)
(* that the store adopts is newer than the anchor and lies on the chain of *)
(* the block it was adopted from.                                          *)

anchor_checkpoint ==
  [epoch |-> get_current_epoch(ANCHOR_STATE), root |-> ANCHOR_BLOCK.root]

OnKnownChain(s, checkpoint) ==
  \/ checkpoint = anchor_checkpoint
  \/ /\ checkpoint.epoch > get_current_epoch(ANCHOR_STATE)
     /\ \E root \in DOMAIN s.blocks : checkpoint.root \in chain_of(root)

BlocksDelivered(s) ==
  \A root \in DOMAIN s.blocks :
    /\ s.block_states[root] \in states_after(root)
    /\ root # ANCHOR_BLOCK.root =>
         \E signed_block \in SIGNED_BLOCKS :
           signed_block.root = root /\ s.blocks[root] = signed_block.message
    /\ s.unrealized_justifications[root] =
         IF root = ANCHOR_BLOCK.root THEN anchor_checkpoint
         ELSE process_justification_and_finalization(
                s.block_states[root]).current_justified_checkpoint

CheckpointsOnChains(s) ==
  /\ OnKnownChain(s, s.justified_checkpoint)
  /\ OnKnownChain(s, s.finalized_checkpoint)
  /\ OnKnownChain(s, s.unrealized_justified_checkpoint)
  /\ OnKnownChain(s, s.unrealized_finalized_checkpoint)

ChainSound(s) == BlocksDelivered(s) /\ CheckpointsOnChains(s)

LEMMA AnchorStoreOnChains == ChainSound(get_forkchoice_store(ANCHOR_STATE, ANCHOR_BLOCK))
<1> DEFINE root == ANCHOR_BLOCK.root
           s == get_forkchoice_store(ANCHOR_STATE, ANCHOR_BLOCK)
<1>1. \A value : /\ DOMAIN put(EmptyDict, root, value) = {root}
                 /\ put(EmptyDict, root, value)[root] = value
  BY DEF put, EmptyDict
<1>2. /\ s.blocks = put(EmptyDict, root, ANCHOR_BLOCK.message)
      /\ s.block_states = put(EmptyDict, root, ANCHOR_STATE)
      /\ s.unrealized_justifications = put(EmptyDict, root, anchor_checkpoint)
      /\ s.justified_checkpoint = anchor_checkpoint
      /\ s.finalized_checkpoint = anchor_checkpoint
      /\ s.unrealized_justified_checkpoint = anchor_checkpoint
      /\ s.unrealized_finalized_checkpoint = anchor_checkpoint
  BY DEF get_forkchoice_store, anchor_checkpoint
<1>3. ANCHOR_STATE \in states_after(root)
  BY AcceptedStatesAssumption
<1>4. BlocksDelivered(s)
  <2> HIDE DEF root, s
  <2> QED BY <1>1, <1>2, <1>3 DEF BlocksDelivered, root
<1>5. CheckpointsOnChains(s)
  BY <1>2 DEF CheckpointsOnChains, OnKnownChain
<1> QED BY <1>4, <1>5 DEF ChainSound

LEMMA InitChainSound == Init => ChainSound(store)
BY AnchorStoreOnChains DEF Init

LEMMA AnchorEpochType == get_current_epoch(ANCHOR_STATE) \in Nat
<1>1. ANCHOR_STATE.slot \in Nat
  BY AnchorAssumption, ExternalsAssumption DEF BeaconState
<1> QED BY <1>1, ConfigAssumption DEF get_current_epoch, compute_epoch_at_slot

(* A newer checkpoint of an accepted state is on the chain of its block.   *)
LEMMA NewerOnChain ==
  ASSUME NEW s, NEW t, DOMAIN s.blocks \subseteq DOMAIN t.blocks,
         NEW current \in Checkpoint, OnKnownChain(s, current),
         NEW candidate \in Checkpoint,
         OnKnownChain(t, candidate) \/ candidate.epoch <= get_current_epoch(ANCHOR_STATE)
  PROVE  OnKnownChain(t, Tracker!newer(current, candidate))
<1>1. get_current_epoch(ANCHOR_STATE) \in Nat
  BY AnchorEpochType
<1>2. /\ current.epoch \in Nat /\ candidate.epoch \in Nat
      /\ get_current_epoch(ANCHOR_STATE) <= current.epoch
  BY <1>1 DEF OnKnownChain, anchor_checkpoint, Checkpoint
<1>3. OnKnownChain(t, current)
  BY DEF OnKnownChain
<1>4. candidate.epoch > current.epoch => OnKnownChain(t, candidate)
  BY <1>1, <1>2
<1> QED BY <1>3, <1>4 DEF Tracker!newer

LEMMA StateOnChain ==
  ASSUME NEW s, NEW root \in Root, root \in DOMAIN s.blocks, NEW state \in states_after(root)
  PROVE  LET pulled_up == process_justification_and_finalization(state)
         IN  \A checkpoint \in {state.current_justified_checkpoint, state.finalized_checkpoint,
                                pulled_up.current_justified_checkpoint,
                                pulled_up.finalized_checkpoint} :
               \/ checkpoint.epoch <= get_current_epoch(ANCHOR_STATE)
               \/ checkpoint \in Checkpoint => OnKnownChain(s, checkpoint)
<1> DEFINE pulled_up == process_justification_and_finalization(state)
<1> SUFFICES ASSUME NEW checkpoint \in {state.current_justified_checkpoint,
                                        state.finalized_checkpoint,
                                        pulled_up.current_justified_checkpoint,
                                        pulled_up.finalized_checkpoint},
                    ~ (checkpoint.epoch <= get_current_epoch(ANCHOR_STATE)),
                    checkpoint \in Checkpoint
             PROVE  OnKnownChain(s, checkpoint)
  OBVIOUS
<1>1. checkpoint.root \in chain_of(root)
  BY AcceptedStatesAssumption
<1>2. checkpoint.epoch \in Nat /\ get_current_epoch(ANCHOR_STATE) \in Nat
  BY AnchorEpochType DEF Checkpoint
<1> QED BY <1>1, <1>2 DEF OnKnownChain

LEMMA StoreCheckpointsIn ==
  ASSUME NEW s, IsStore(s)
  PROVE  /\ s.justified_checkpoint \in Checkpoint
         /\ s.finalized_checkpoint \in Checkpoint
         /\ s.unrealized_justified_checkpoint \in Checkpoint
         /\ s.unrealized_finalized_checkpoint \in Checkpoint
BY DEF IsStore, StoreOver

LEMMA StoreCheckpointsType ==
  ASSUME TypeOK
  PROVE  /\ IsStore(store)
         /\ store.justified_checkpoint \in Checkpoint
         /\ store.finalized_checkpoint \in Checkpoint
         /\ store.unrealized_justified_checkpoint \in Checkpoint
         /\ store.unrealized_finalized_checkpoint \in Checkpoint
BY DEF TypeOK, IsStore, StoreOver

(* An import delivers its block and may adopt the checkpoints of its state.*)
LEMMA ImportKeepsChains ==
  ASSUME NEW s, IsStore(s), AnchorSound(s), ChainSound(s),
         NEW sb \in SIGNED_BLOCKS, on_block_accepts(s, sb)
  PROVE  ChainSound(on_block(s, sb))
<1> DEFINE t == on_block(s, sb)
           root == sb.root
           state == post_state(s, sb)
           pulled == process_justification_and_finalization(state)
           cj == Tracker!newer(s.justified_checkpoint, state.current_justified_checkpoint)
           cf == Tracker!newer(s.finalized_checkpoint, state.finalized_checkpoint)
<1>1. /\ t.blocks = put(s.blocks, root, sb.message)
      /\ t.block_states = put(s.block_states, root, state)
      /\ t.unrealized_justifications
           = put(s.unrealized_justifications, root, pulled.current_justified_checkpoint)
      /\ t.unrealized_justified_checkpoint
           = Tracker!newer(s.unrealized_justified_checkpoint,
                           pulled.current_justified_checkpoint)
      /\ t.unrealized_finalized_checkpoint
           = Tracker!newer(s.unrealized_finalized_checkpoint, pulled.finalized_checkpoint)
      /\ \/ /\ t.justified_checkpoint
                 = Tracker!newer(cj, pulled.current_justified_checkpoint)
            /\ t.finalized_checkpoint = Tracker!newer(cf, pulled.finalized_checkpoint)
         \/ t.justified_checkpoint = cj /\ t.finalized_checkpoint = cf
  BY StoreCheckpointsIn, OnBlockEffect
<1> HIDE DEF t
<1>2. /\ root \in Root /\ root \notin DOMAIN s.blocks
      /\ sb.message.parent_root \in DOMAIN s.blocks
      /\ state # InvalidTransition
  BY MessagesAssumption DEF SignedBeaconBlock, on_block_accepts, on_block_asserts
<1>3. state \in states_after(root)
  <2>1. block_state(s, sb.message.parent_root)
          = s.block_states[sb.message.parent_root]
    BY <1>2, StoreCheckpointsIn DEF block_state, IsStore, KeysAgree
  <2>2. s.block_states[sb.message.parent_root] \in states_after(sb.message.parent_root)
    BY <1>2 DEF ChainSound, BlocksDelivered
  <2> QED BY <1>2, <2>1, <2>2, AcceptedStatesAssumption DEF post_state
<1>4. /\ state.current_justified_checkpoint \in Checkpoint
      /\ state.finalized_checkpoint \in Checkpoint
      /\ pulled.current_justified_checkpoint \in Checkpoint
      /\ pulled.finalized_checkpoint \in Checkpoint
  BY StoreCheckpointsIn, PostStateType DEF BeaconState
<1>5. /\ DOMAIN t.blocks = DOMAIN s.blocks \cup {root}
      /\ DOMAIN s.block_states = DOMAIN s.blocks
      /\ DOMAIN s.unrealized_justifications = DOMAIN s.blocks
  BY <1>1, StoreCheckpointsIn DEF put, IsStore, KeysAgree
<1>6. \A checkpoint \in {state.current_justified_checkpoint, state.finalized_checkpoint,
                         pulled.current_justified_checkpoint, pulled.finalized_checkpoint} :
        \/ checkpoint.epoch <= get_current_epoch(ANCHOR_STATE)
        \/ OnKnownChain(t, checkpoint)
  <2>1. root \in DOMAIN t.blocks
    BY <1>5
  <2> HIDE DEF root, state
  <2> QED BY <1>2, <1>3, <1>4, <2>1, StateOnChain
<1>7. root # ANCHOR_BLOCK.root
  BY <1>2 DEF AnchorSound
<1> HIDE DEF root, state, pulled
<1>8. BlocksDelivered(t)
  <2> SUFFICES ASSUME NEW other \in DOMAIN t.blocks
               PROVE
    /\ t.block_states[other] \in states_after(other)
    /\ other # ANCHOR_BLOCK.root =>
         \E signed_block \in SIGNED_BLOCKS :
           signed_block.root = other /\ t.blocks[other] = signed_block.message
    /\ t.unrealized_justifications[other] =
         IF other = ANCHOR_BLOCK.root THEN anchor_checkpoint
         ELSE process_justification_and_finalization(
                t.block_states[other]).current_justified_checkpoint
    BY DEF BlocksDelivered
  <2>1. CASE other = root
    <3>1. /\ t.blocks[root] = sb.message
          /\ t.block_states[root] = state
          /\ t.unrealized_justifications[root] = pulled.current_justified_checkpoint
      BY <1>1 DEF put
    <3> QED BY <1>3, <1>7, <2>1, <3>1 DEF root, pulled
  <2>2. CASE other # root
    <3>1. other \in DOMAIN s.blocks
      BY <1>5, <2>2
    <3>2. /\ t.blocks[other] = s.blocks[other]
          /\ t.block_states[other] = s.block_states[other]
          /\ t.unrealized_justifications[other] = s.unrealized_justifications[other]
      BY <1>1, <1>5, <2>2, <3>1 DEF put
    <3> QED BY <3>1, <3>2 DEF ChainSound, BlocksDelivered
  <2> QED BY <2>1, <2>2
<1>9. CheckpointsOnChains(t)
  <2> DEFINE Fits(candidate) ==
               /\ candidate \in Checkpoint
               /\ \/ candidate.epoch <= get_current_epoch(ANCHOR_STATE)
                  \/ OnKnownChain(t, candidate)
  <2>1. ASSUME NEW r, DOMAIN r.blocks \subseteq DOMAIN t.blocks,
               NEW current \in Checkpoint, OnKnownChain(r, current),
               NEW candidate, Fits(candidate)
        PROVE  /\ OnKnownChain(t, Tracker!newer(current, candidate))
               /\ Tracker!newer(current, candidate) \in Checkpoint
    <3>1. OnKnownChain(t, Tracker!newer(current, candidate))
      BY <2>1, NewerOnChain
    <3> QED BY <2>1, <3>1 DEF Tracker!newer
  <2>2. /\ Fits(state.current_justified_checkpoint) /\ Fits(state.finalized_checkpoint)
        /\ Fits(pulled.current_justified_checkpoint) /\ Fits(pulled.finalized_checkpoint)
    BY <1>4, <1>6
  <2> HIDE DEF Fits
  <2>3. DOMAIN s.blocks \subseteq DOMAIN t.blocks
    BY <1>5
  <2>4. /\ OnKnownChain(t, t.unrealized_justified_checkpoint)
        /\ OnKnownChain(t, t.unrealized_finalized_checkpoint)
    BY <1>1, <2>1, <2>2, <2>3, StoreCheckpointsIn DEF ChainSound, CheckpointsOnChains
  <2>5. OnKnownChain(t, cj) /\ cj \in Checkpoint /\ OnKnownChain(t, cf) /\ cf \in Checkpoint
    BY <2>1, <2>2, <2>3, StoreCheckpointsIn DEF ChainSound, CheckpointsOnChains
  <2> HIDE DEF cj, cf
  <2>6. /\ OnKnownChain(t, Tracker!newer(cj, pulled.current_justified_checkpoint))
        /\ OnKnownChain(t, Tracker!newer(cf, pulled.finalized_checkpoint))
    BY <2>1, <2>2, <2>5
  <2> QED BY <1>1, <2>4, <2>5, <2>6 DEF CheckpointsOnChains
<1>10. ChainSound(t)
  BY <1>8, <1>9 DEF ChainSound
<1> QED BY <1>10 DEF t

(* A tick may realize the unrealized checkpoints.                          *)
LEMMA TickKeepsChains ==
  ASSUME NEW s, Shaped(s), ChainSound(s), NEW time \in Nat
  PROVE  ChainSound(on_tick_per_slot(s, time))
<1> DEFINE t == on_tick_per_slot(s, time)
<1>3. /\ t.unrealized_justified_checkpoint = s.unrealized_justified_checkpoint
      /\ t.unrealized_finalized_checkpoint = s.unrealized_finalized_checkpoint
      /\ t.blocks = s.blocks
      /\ t.block_states = s.block_states
      /\ t.unrealized_justifications = s.unrealized_justifications
      /\ \/ t.justified_checkpoint = s.justified_checkpoint
         \/ t.justified_checkpoint = s.unrealized_justified_checkpoint
      /\ \/ t.finalized_checkpoint = s.finalized_checkpoint
         \/ t.finalized_checkpoint = s.unrealized_finalized_checkpoint
  BY TickEffect DEF Tracker!newer
<1> HIDE DEF t
<1>4. BlocksDelivered(t)
  BY <1>3 DEF ChainSound, BlocksDelivered
<1>5. \A checkpoint : OnKnownChain(s, checkpoint) => OnKnownChain(t, checkpoint)
  BY <1>3 DEF OnKnownChain
<1>6. ChainSound(t)
  BY <1>3, <1>4, <1>5 DEF ChainSound, CheckpointsOnChains
<1> QED BY <1>6 DEF t

LEMMA ChainStep ==
  ASSUME TypeOK, AnchorSound(store), ChainSound(store), [Next]_vars
  PROVE  ChainSound(store')
<1>1. Shaped(store)
  BY DEF TypeOK, IsStore, Shaped
<1>2. ASSUME SameTracked(store, store') PROVE ChainSound(store')
  BY <1>2 DEF SameTracked, ChainSound, BlocksDelivered, CheckpointsOnChains, OnKnownChain
<1>3. store' = store => SameTracked(store, store')
  BY DEF SameTracked
<1>4. (\E time \in TickTimes : BeginTick(time)) => store' = store
  BY DEF BeginTick
<1>5. UNCHANGED vars => store' = store
  BY DEF vars
<1>6. CatchUp \/ EndTick => TickStep
  <2>1. /\ store.time \in Nat /\ tick_time \in Nat /\ get_current_slot(store) \in Nat
    <3>1. store.time \in Nat /\ tick_time \in Nat
      BY DEF TypeOK, IsStore, StoreOver
    <3> QED BY <3>1, SlotType DEF get_current_slot
  <2>2. next_slot_start(store) \in Nat /\ slot_at(next_slot_start(store)) = get_current_slot(store) + 1
    BY <2>1, NextSlotStartType, NextSlotStart
  <2>3. get_current_slot(store) <= slot_at(next_slot_start(store))
    BY <2>1, <2>2
  <2>4. EndTick => get_current_slot(store) <= slot_at(tick_time)
    BY <2>1, SlotMonotone DEF EndTick, get_current_slot
  <2> QED BY <2>1, <2>2, <2>3, <2>4 DEF TickStep, CatchUp, EndTick
<1>7. ASSUME NEW sb \in SIGNED_BLOCKS, OnBlock(sb) PROVE ChainSound(store')
  <2>1. IsStore(store)
    BY DEF TypeOK
  <2> QED BY <1>7, <2>1, ImportKeepsChains DEF OnBlock
<1>8. TickStep => ChainSound(store')
  BY <1>1, TickKeepsChains DEF TickStep
<1> QED BY <1>2, <1>3, <1>4, <1>5, <1>6, <1>7, <1>8, MessagesUntracked DEF Next

LEMMA ChainInvariant == Spec => []ChainSound(store)
<1>1. TypeOK /\ StoreSound /\ ChainSound(store) /\ [Next]_vars => ChainSound(store)'
  BY ChainStep DEF StoreSound
<1> QED BY <1>1, InitChainSound, StoreInvariant, StoreTypeCorrect, PTL DEF Spec

(* The known blocks form a tree.                                           *)
LEMMA SoundIsTree ==
  ASSUME NEW s, IsStore(s), TreeSound(s), AnchorSound(s)
  PROVE  Tree(s)
<1>1. IsFiniteSet(DOMAIN s.blocks)
  BY DEF AnchorSound
<1>2. ASSUME NEW child \in DOMAIN s.blocks,
             s.blocks[child].parent_root \in DOMAIN s.blocks
      PROVE  s.blocks[s.blocks[child].parent_root].slot < s.blocks[child].slot
  <2>1. child # ANCHOR_BLOCK.root
    BY <1>2 DEF AnchorSound
  <2> QED BY <2>1 DEF TreeSound
<1> QED BY <1>1, <1>2 DEF Tree

(* The chain of a known block consists of known blocks it descends from.   *)
Rooted(s) == IsStore(s) /\ TreeSound(s) /\ AnchorSound(s) /\ ChainSound(s)

LEMMA ChainIsIn ==
  ASSUME NEW s, Rooted(s), NEW root \in DOMAIN s.blocks, NEW other \in chain_of(root)
  PROVE  other \in DOMAIN s.blocks /\ below(s, root, other)
<1> DEFINE good(r) == \A q \in chain_of(r) : q \in DOMAIN s.blocks /\ below(s, r, q)
           bad == {r \in DOMAIN s.blocks : ~ good(r)}
<1> SUFFICES ASSUME bad # {} PROVE FALSE
  OBVIOUS
<1>1. Tree(s) /\ DOMAIN s.blocks \subseteq Root
  BY SoundIsTree DEF Rooted, IsStore
<1>2. \A r \in DOMAIN s.blocks : s.blocks[r].slot \in Nat
  BY <1>1 DEF Tree, IsStore, StoreOver, BeaconBlock
<1> DEFINE slots == {s.blocks[r].slot : r \in bad}
<1>3. slots \subseteq Nat /\ slots # {}
  BY <1>2
<1>4. PICK m \in slots : \A k \in slots : m <= k
  BY <1>3, LeastNatural
<1>5. PICK r \in bad : m = s.blocks[r].slot
  OBVIOUS
<1>6. r \in DOMAIN s.blocks /\ r \in Root /\ r \in DOMAIN s.blocks /\ ~ good(r)
  BY <1>1
<1>7. below(s, r, r)
  BY <1>1, <1>6, BelowSelf
<1>8. CASE r = ANCHOR_BLOCK.root
  <2>1. chain_of(r) = {r}
    BY <1>8, ChainAssumption
  <2> QED BY <1>6, <1>7, <2>1
<1>9. CASE r # ANCHOR_BLOCK.root
  <2> DEFINE parent == s.blocks[r].parent_root
  <2>1. parent \in DOMAIN s.blocks /\ s.blocks[parent].slot < s.blocks[r].slot
    BY <1>6, <1>9 DEF Rooted, TreeSound
  <2>2. PICK sb \in SIGNED_BLOCKS : sb.root = r /\ s.blocks[r] = sb.message
    BY <1>6, <1>9 DEF Rooted, ChainSound, BlocksDelivered
  <2>3. chain_of(r) = {r} \cup chain_of(parent)
    BY <2>2, ChainAssumption
  <2>4. parent \notin bad
    <3>1. parent \in bad => s.blocks[r].slot <= s.blocks[parent].slot
      BY <1>4, <1>5
    <3>2. s.blocks[r].slot \in Nat /\ s.blocks[parent].slot \in Nat
      BY <1>2, <1>6, <2>1
    <3> HIDE DEF bad, parent
    <3> QED BY <2>1, <3>1, <3>2
  <2>5. good(parent)
    BY <2>1, <2>4
  <2>6. ASSUME NEW q \in chain_of(parent) PROVE q \in DOMAIN s.blocks /\ below(s, r, q)
    <3>1. q \in DOMAIN s.blocks /\ below(s, parent, q)
      BY <2>5
    <3>2. parent \in DOMAIN s.blocks
      BY <1>1, <2>1
    <3> QED BY <1>1, <1>6, <3>1, <3>2, BelowParent
  <2> QED BY <1>6, <1>7, <2>3, <2>6
<1> QED BY <1>8, <1>9

(* The checkpoints of the store are known.                                 *)
LEMMA CheckpointsAreIn ==
  ASSUME NEW s, Rooted(s)
  PROVE  {s.justified_checkpoint.root, s.finalized_checkpoint.root,
          s.unrealized_justified_checkpoint.root,
          s.unrealized_finalized_checkpoint.root} \subseteq DOMAIN s.blocks
<1>1. ASSUME NEW checkpoint, OnKnownChain(s, checkpoint)
      PROVE  checkpoint.root \in DOMAIN s.blocks
  <2>1. CASE checkpoint = anchor_checkpoint
    BY <2>1 DEF anchor_checkpoint, Rooted, TreeSound
  <2>2. CASE \E root \in DOMAIN s.blocks : checkpoint.root \in chain_of(root)
    BY <2>2, ChainIsIn
  <2> QED BY <1>1, <2>1, <2>2 DEF OnKnownChain
<1> QED BY <1>1 DEF Rooted, ChainSound, CheckpointsOnChains

LEMMA HeadIsIn ==
  ASSUME NEW s, Rooted(s)
  PROVE  LET head == get_head(s)
         IN  /\ head \in ForkChoiceNode
             /\ head.root \in DOMAIN s.blocks
             /\ below(s, head.root, s.justified_checkpoint.root)
             /\ head.payload_status # PENDING
             /\ head.payload_status = FULL => is_payload_verified(s, head.root)
<1>1. Tree(s) /\ justified_state(s).validators \subseteq ValidatorIndex
  BY SoundIsTree, JustifiedValidators DEF Rooted
<1>2. s.justified_checkpoint.root \in DOMAIN s.blocks
  BY CheckpointsAreIn
<1> QED BY <1>1, <1>2, HeadFacts

(* The same of the store of a run.                                         *)
LEMMA StoreIsTree ==
  ASSUME TypeOK, StoreSound
  PROVE  Tree(store)
BY SoundIsTree DEF TypeOK, StoreSound

LEMMA StoreIsRooted ==
  ASSUME TypeOK, StoreSound, ChainSound(store)
  PROVE  Rooted(store)
BY DEF Rooted, TypeOK, StoreSound

LEMMA ChainIsKnown ==
  ASSUME TypeOK, StoreSound, ChainSound(store), NEW root \in known, NEW other \in chain_of(root)
  PROVE  other \in known /\ below(store, root, other)
BY StoreIsRooted, ChainIsIn DEF known

LEMMA CheckpointsKnown ==
  ASSUME TypeOK, StoreSound, ChainSound(store)
  PROVE  {store.justified_checkpoint.root, store.finalized_checkpoint.root,
          store.unrealized_justified_checkpoint.root,
          store.unrealized_finalized_checkpoint.root} \subseteq known
BY StoreIsRooted, CheckpointsAreIn DEF known

(* The structural invariants that the traversals of the store rely on      *)
(* (WellFormedStore, Run.lean): parents are older than their children,     *)
(* states are at the slots of their blocks, and the checkpoints of the     *)
(* store are known blocks.                                                 *)
WellFormedStore ==
  /\ \A root \in known :
       LET parent == store.blocks[root].parent_root
       IN  parent \in known => store.blocks[parent].slot < store.blocks[root].slot
  /\ \A root \in known : store.block_states[root].slot = store.blocks[root].slot
  /\ store.justified_checkpoint.root \in known
  /\ store.finalized_checkpoint.root \in known

(* The handlers preserve the invariants of a well-formed store.            *)
THEOREM StoreStaysWellFormed == Spec => []WellFormedStore
<1>1. ASSUME TypeOK, StoreSound, ChainSound(store) PROVE WellFormedStore
  <2>1. Tree(store)
    BY <1>1, StoreIsTree
  <2> QED BY <1>1, <2>1, CheckpointsKnown DEF WellFormedStore, Tree, known, StoreSound, TreeSound
<1> QED BY <1>1, ChainInvariant, StoreInvariant, StoreTypeCorrect, PTL

-----------------------------------------------------------------------------
(* The head.                                                               *)

(* The finalized block is on the chain of the justified one.  The handlers *)
(* do not maintain this, as the guards of update_checkpoints are            *)
(* independent of each other.                                              *)
FinalizedBelowJustified ==
  is_ancestor(store, NewNode(store.justified_checkpoint.root, PENDING),
                     NewNode(store.finalized_checkpoint.root, PENDING))

(* The head is a known block that descends from the justified block.       *)
LEMMA HeadIsKnown ==
  ASSUME TypeOK, StoreSound, ChainSound(store)
  PROVE  /\ get_head(store) \in ForkChoiceNode
         /\ get_head(store).root \in known
         /\ below(store, get_head(store).root, store.justified_checkpoint.root)
BY StoreIsRooted, HeadIsIn DEF known

LEMMA HeadOfFinalized ==
  ASSUME TypeOK, StoreSound, ChainSound(store), FinalizedBelowJustified
  PROVE  HeadExtendsCheckpoints
<1> DEFINE head == get_head(store)
           justified == store.justified_checkpoint.root
           finalized == store.finalized_checkpoint.root
           epoch == store.finalized_checkpoint.epoch
           slot == compute_start_slot_at_epoch(epoch)
<1>1. /\ Tree(store) /\ IsStore(store) /\ known = DOMAIN store.blocks /\ known \subseteq Root
      /\ justified_state(store).validators \subseteq ValidatorIndex
  BY StoreIsTree, JustifiedValidators DEF known, TypeOK, IsStore
<1>2. justified \in known /\ finalized \in known
  BY CheckpointsKnown
<1>3. /\ head \in ForkChoiceNode /\ head.root \in known
      /\ below(store, head.root, justified)
      /\ \/ head.root = justified
         \/ \E leaf \in known : is_viable_leaf(store, leaf) /\ below(store, leaf, head.root)
  BY <1>1, <1>2, HeadFacts
<1>4. is_ancestor(store, head, NewNode(justified, PENDING))
  BY <1>1, <1>3, NodeBelow
<1>5. epoch \in Nat /\ slot \in Nat
  BY <1>1, ConfigAssumption DEF IsStore, StoreOver, Checkpoint, compute_start_slot_at_epoch
<1>6. ASSUME head.root # justified, epoch # GENESIS_EPOCH
      PROVE  get_checkpoint_block(store, head.root, epoch) = finalized
  <2>1. PICK leaf \in known : is_viable_leaf(store, leaf) /\ below(store, leaf, head.root)
    BY <1>3, <1>6
  <2> DEFINE node == NewNode(leaf, PENDING)
             top == NewNode(head.root, PENDING)
             sh == block_slot(store, head.root)
  <2>2. get_ancestor(store, node, slot).root = finalized
    BY <1>6, <2>1 DEF is_viable_leaf, get_checkpoint_block
  <2>3. get_checkpoint_block(store, head.root, epoch) = get_ancestor(store, top, slot).root
    BY DEF get_checkpoint_block
  <2>4. /\ node \in ForkChoiceNode /\ top \in ForkChoiceNode /\ top.root = head.root
        /\ sh \in Nat /\ leaf \in Root /\ head.root \in Root
        /\ \A k \in Nat : Descending(store, k)
    BY <1>1, <1>3, <2>1, PendingNode, BlockSlotType, TreeDescends
  <2>5. get_ancestor(store, node, sh).root = head.root
    BY <2>1, BelowMeans
  <2> HIDE DEF node, slot, sh, head, finalized
  <2>6. CASE slot <= sh
    <3>1. get_ancestor(store, get_ancestor(store, node, sh), slot) = get_ancestor(store, node, slot)
      BY <1>1, <1>5, <2>4, <2>6, AncestorOfAncestor
    <3>2. get_ancestor(store, node, sh) \in ForkChoiceNode
      BY <1>1, <2>4, AncestorType
    <3>3. get_ancestor(store, get_ancestor(store, node, sh), slot).root
            = get_ancestor(store, top, slot).root
      BY <1>1, <1>5, <2>5, <3>2, AncestorRoot
    <3> QED BY <2>2, <2>3, <3>1, <3>3
  <2>7. CASE sh < slot
    <3>1. get_ancestor(store, top, slot) = top
      <4>1. ~ (block_slot(store, top.root) > slot)
        BY <1>5, <2>4, <2>7 DEF sh
      <4>2. get_ancestor(store, top, slot)
              = IF block_slot(store, top.root) > slot
                THEN get_ancestor(store, parent_node(store, top), slot) ELSE top
        BY <1>1, <1>5, <2>4, AncestorEquation
      <4> QED BY <4>1, <4>2
    <3>2. below(store, finalized, head.root)
      <4>1. get_ancestor(store, get_ancestor(store, node, slot), sh)
              = get_ancestor(store, node, sh)
        BY <1>1, <1>5, <2>4, <2>7, AncestorOfAncestor
      <4>2. get_ancestor(store, node, slot) \in ForkChoiceNode
        BY <1>1, <1>5, <2>4, AncestorType
      <4>3. get_ancestor(store, NewNode(finalized, PENDING), sh).root = head.root
        BY <1>1, <2>2, <2>4, <2>5, <4>1, <4>2, AncestorRoot
      <4> QED BY <4>3, BelowMeans DEF sh
    <3>3. below(store, head.root, finalized)
      <4>1. below(store, justified, finalized)
        BY DEF FinalizedBelowJustified, below, finalized
      <4> QED BY <1>1, <1>2, <1>3, <2>4, <4>1, BelowTransitive
    <3>4. block_slot(store, head.root) = block_slot(store, finalized)
      <4>1. finalized \in Root /\ block_slot(store, finalized) \in Nat
        BY <1>1, <1>2, BlockSlotType
      <4>2. /\ block_slot(store, head.root) <= block_slot(store, finalized)
            /\ block_slot(store, finalized) <= block_slot(store, head.root)
        BY <1>1, <2>4, <3>2, <3>3, <4>1, BelowSlots
      <4> QED BY <2>4, <4>1, <4>2 DEF sh
    <3>5. head.root = finalized
      <4> DEFINE last == NewNode(finalized, PENDING)
      <4>1. last \in ForkChoiceNode /\ last.root = finalized
        BY <1>1, <1>2, PendingNode
      <4>2. get_ancestor(store, last, sh).root = head.root
        BY <3>2, BelowMeans DEF sh
      <4> HIDE DEF last
      <4>3. get_ancestor(store, last, sh) = last
        <5>1. ~ (block_slot(store, last.root) > sh)
          BY <2>4, <3>4, <4>1 DEF sh
        <5>2. get_ancestor(store, last, sh)
                = IF block_slot(store, last.root) > sh
                  THEN get_ancestor(store, parent_node(store, last), sh) ELSE last
          BY <1>1, <2>4, <4>1, AncestorEquation
        <5> QED BY <5>1, <5>2
      <4> QED BY <4>1, <4>2, <4>3
    <3> QED BY <2>3, <2>4, <3>1, <3>5
  <2> QED BY <1>5, <2>4, <2>6, <2>7
<1> QED BY <1>1, <1>3, <1>4, <1>6 DEF HeadExtendsCheckpoints

(* Whatever the weights are, the head is a known block that descends from  *)
(* the justified block.                                                    *)
THEOREM HeadDescends ==
  Spec => [](/\ get_head(store).root \in known
             /\ is_ancestor(store, get_head(store),
                            NewNode(store.justified_checkpoint.root, PENDING)))
<1>1. ASSUME TypeOK, StoreSound, ChainSound(store)
      PROVE  /\ get_head(store).root \in known
             /\ is_ancestor(store, get_head(store),
                            NewNode(store.justified_checkpoint.root, PENDING))
  BY <1>1, HeadIsKnown, StoreIsTree, NodeBelow
<1> QED BY <1>1, ChainInvariant, StoreInvariant, StoreTypeCorrect, PTL

(* The head descends from the justified block, and, where the finalized    *)
(* block is on the justified chain, from the finalized one too.            *)
THEOREM HeadExtendsBoth == Spec => [](FinalizedBelowJustified => HeadExtendsCheckpoints)
<1>1. TypeOK /\ StoreSound /\ ChainSound(store) => (FinalizedBelowJustified => HeadExtendsCheckpoints)
  BY HeadOfFinalized
<1> QED BY <1>1, ChainInvariant, StoreInvariant, StoreTypeCorrect, PTL
-----------------------------------------------------------------------------
(* on_tick, whatever the way there.                                        *)

LEMMA SameFields ==
  ASSUME NEW s, Shaped(s), NEW t, Shaped(t),
         SameBlocks(s, t), SamePtcVotes(s, t), SameVotes(s, t), SameClock(s, t),
         t.payloads = s.payloads,
         t.checkpoint_states = s.checkpoint_states,
         t.justified_checkpoint = s.justified_checkpoint,
         t.finalized_checkpoint = s.finalized_checkpoint,
         t.unrealized_justified_checkpoint = s.unrealized_justified_checkpoint,
         t.unrealized_finalized_checkpoint = s.unrealized_finalized_checkpoint
  PROVE  s = t
<1> DEFINE record(r) ==
             [time |-> r.time,
              justified_checkpoint |-> r.justified_checkpoint,
              finalized_checkpoint |-> r.finalized_checkpoint,
              unrealized_justified_checkpoint |-> r.unrealized_justified_checkpoint,
              unrealized_finalized_checkpoint |-> r.unrealized_finalized_checkpoint,
              proposer_boost_root |-> r.proposer_boost_root,
              equivocating_indices |-> r.equivocating_indices,
              blocks |-> r.blocks,
              block_states |-> r.block_states,
              block_timeliness |-> r.block_timeliness,
              checkpoint_states |-> r.checkpoint_states,
              latest_messages |-> r.latest_messages,
              unrealized_justifications |-> r.unrealized_justifications,
              payloads |-> r.payloads,
              payload_timeliness_vote |-> r.payload_timeliness_vote,
              payload_data_availability_vote |-> r.payload_data_availability_vote]
<1>1. s = record(s)
  BY DEF Shaped, StoreOver
<1>2. t = record(t)
  BY DEF Shaped, StoreOver
<1>3. record(s) = record(t)
  BY DEF SameBlocks, SamePtcVotes, SameVotes, SameClock
<1> HIDE DEF record
<1> QED BY <1>1, <1>2, <1>3

(* What a call of on_tick leaves behind: the boost of an earlier slot is   *)
(* gone, and what was unrealized in an earlier epoch is realized.          *)
Ticked(s, time) ==
  LET new_slot == slot_at(time) > get_current_slot(s)
      new_epoch == compute_epoch_at_slot(slot_at(time)) > get_current_store_epoch(s)
  IN  [s EXCEPT
         !.time = time,
         !.proposer_boost_root = IF new_slot THEN NoRoot ELSE s.proposer_boost_root,
         !.justified_checkpoint =
           IF new_epoch THEN Tracker!newer(s.justified_checkpoint,
                                           s.unrealized_justified_checkpoint)
           ELSE s.justified_checkpoint,
         !.finalized_checkpoint =
           IF new_epoch THEN Tracker!newer(s.finalized_checkpoint,
                                           s.unrealized_finalized_checkpoint)
           ELSE s.finalized_checkpoint]

LEMMA TickedFields ==
  ASSUME NEW s, Shaped(s), NEW time \in Nat
  PROVE  LET t == Ticked(s, time)
             new_slot == slot_at(time) > get_current_slot(s)
             new_epoch == compute_epoch_at_slot(slot_at(time)) > get_current_store_epoch(s)
         IN  /\ Shaped(t)
             /\ SameBlocks(s, t) /\ SamePtcVotes(s, t) /\ SameVotes(s, t)
             /\ t.checkpoint_states = s.checkpoint_states
             /\ t.payloads = s.payloads
             /\ t.unrealized_justified_checkpoint = s.unrealized_justified_checkpoint
             /\ t.unrealized_finalized_checkpoint = s.unrealized_finalized_checkpoint
             /\ t.time = time
             /\ t.proposer_boost_root = IF new_slot THEN NoRoot ELSE s.proposer_boost_root
             /\ t.justified_checkpoint =
                  IF new_epoch THEN Tracker!newer(s.justified_checkpoint,
                                                  s.unrealized_justified_checkpoint)
                  ELSE s.justified_checkpoint
             /\ t.finalized_checkpoint =
                  IF new_epoch THEN Tracker!newer(s.finalized_checkpoint,
                                                  s.unrealized_finalized_checkpoint)
                  ELSE s.finalized_checkpoint
<1> DEFINE new_slot == slot_at(time) > get_current_slot(s)
           new_epoch == compute_epoch_at_slot(slot_at(time)) > get_current_store_epoch(s)
           boost == IF new_slot THEN NoRoot ELSE s.proposer_boost_root
           j == IF new_epoch THEN Tracker!newer(s.justified_checkpoint,
                                                s.unrealized_justified_checkpoint)
                ELSE s.justified_checkpoint
           f == IF new_epoch THEN Tracker!newer(s.finalized_checkpoint,
                                                s.unrealized_finalized_checkpoint)
                ELSE s.finalized_checkpoint
           t == [s EXCEPT !.time = time, !.proposer_boost_root = boost,
                          !.justified_checkpoint = j, !.finalized_checkpoint = f]
<1>1. Ticked(s, time) = t
  BY DEF Ticked
<1>2. boost \in Root \cup {NoRoot} /\ j \in Checkpoint /\ f \in Checkpoint
  BY DEF Shaped, StoreOver, Tracker!newer
<1> HIDE DEF boost, j, f
<1>3. /\ Shaped(t)
      /\ SameBlocks(s, t) /\ SamePtcVotes(s, t) /\ SameVotes(s, t)
      /\ t.checkpoint_states = s.checkpoint_states
      /\ t.payloads = s.payloads
      /\ t.unrealized_justified_checkpoint = s.unrealized_justified_checkpoint
      /\ t.unrealized_finalized_checkpoint = s.unrealized_finalized_checkpoint
      /\ t.time = time /\ t.proposer_boost_root = boost
      /\ t.justified_checkpoint = j /\ t.finalized_checkpoint = f
  BY <1>2 DEF Shaped, StoreOver, SameBlocks, SamePtcVotes, SameVotes
<1> HIDE DEF t
<1> QED BY <1>1, <1>3 DEF boost, j, f

LEMMA EpochOfSlot ==
  ASSUME NEW a \in Nat, NEW b \in Nat, a <= b
  PROVE  /\ compute_epoch_at_slot(a) \in Nat /\ compute_epoch_at_slot(b) \in Nat
         /\ compute_epoch_at_slot(a) <= compute_epoch_at_slot(b)
<1>1. SLOTS_PER_EPOCH \in Nat \ {0}
  BY ConfigAssumption
<1> QED BY <1>1, DivMonotone DEF compute_epoch_at_slot

(* A call for a later slot absorbs one for an earlier slot.                *)
LEMMA TickedAgain ==
  ASSUME NEW s, Shaped(s), NEW a \in Nat, NEW b \in Nat,
         get_current_slot(s) <= slot_at(a), slot_at(a) <= slot_at(b)
  PROVE  Ticked(Ticked(s, a), b) = Ticked(s, b)
<1> DEFINE t == Ticked(s, a)
           u == Ticked(t, b)
           v == Ticked(s, b)
           e(slot) == compute_epoch_at_slot(slot)
<1>1. /\ get_current_slot(s) \in Nat /\ slot_at(a) \in Nat /\ slot_at(b) \in Nat
  BY SlotType DEF Shaped, StoreOver, get_current_slot
<1>2. /\ e(get_current_slot(s)) <= e(slot_at(a)) /\ e(slot_at(a)) <= e(slot_at(b))
      /\ e(get_current_slot(s)) \in Nat /\ e(slot_at(a)) \in Nat /\ e(slot_at(b)) \in Nat
  BY <1>1, EpochOfSlot
<1>3. /\ Shaped(t)
      /\ SameBlocks(s, t) /\ SamePtcVotes(s, t) /\ SameVotes(s, t)
      /\ t.checkpoint_states = s.checkpoint_states
      /\ t.payloads = s.payloads
      /\ t.unrealized_justified_checkpoint = s.unrealized_justified_checkpoint
      /\ t.unrealized_finalized_checkpoint = s.unrealized_finalized_checkpoint
      /\ t.time = a
      /\ t.proposer_boost_root
           = IF slot_at(a) > get_current_slot(s) THEN NoRoot ELSE s.proposer_boost_root
      /\ t.justified_checkpoint =
           IF e(slot_at(a)) > e(get_current_slot(s))
           THEN Tracker!newer(s.justified_checkpoint, s.unrealized_justified_checkpoint)
           ELSE s.justified_checkpoint
      /\ t.finalized_checkpoint =
           IF e(slot_at(a)) > e(get_current_slot(s))
           THEN Tracker!newer(s.finalized_checkpoint, s.unrealized_finalized_checkpoint)
           ELSE s.finalized_checkpoint
  BY TickedFields DEF get_current_store_epoch
<1>4. /\ Shaped(v)
      /\ SameBlocks(s, v) /\ SamePtcVotes(s, v) /\ SameVotes(s, v)
      /\ v.checkpoint_states = s.checkpoint_states
      /\ v.payloads = s.payloads
      /\ v.unrealized_justified_checkpoint = s.unrealized_justified_checkpoint
      /\ v.unrealized_finalized_checkpoint = s.unrealized_finalized_checkpoint
      /\ v.time = b
      /\ v.proposer_boost_root
           = IF slot_at(b) > get_current_slot(s) THEN NoRoot ELSE s.proposer_boost_root
      /\ v.justified_checkpoint =
           IF e(slot_at(b)) > e(get_current_slot(s))
           THEN Tracker!newer(s.justified_checkpoint, s.unrealized_justified_checkpoint)
           ELSE s.justified_checkpoint
      /\ v.finalized_checkpoint =
           IF e(slot_at(b)) > e(get_current_slot(s))
           THEN Tracker!newer(s.finalized_checkpoint, s.unrealized_finalized_checkpoint)
           ELSE s.finalized_checkpoint
  BY TickedFields DEF get_current_store_epoch
<1> HIDE DEF t
<1>5. get_current_slot(t) = slot_at(a)
  BY <1>3 DEF get_current_slot
<1>6. /\ Shaped(u)
      /\ SameBlocks(t, u) /\ SamePtcVotes(t, u) /\ SameVotes(t, u)
      /\ u.checkpoint_states = t.checkpoint_states
      /\ u.payloads = t.payloads
      /\ u.unrealized_justified_checkpoint = t.unrealized_justified_checkpoint
      /\ u.unrealized_finalized_checkpoint = t.unrealized_finalized_checkpoint
      /\ u.time = b
      /\ u.proposer_boost_root
           = IF slot_at(b) > slot_at(a) THEN NoRoot ELSE t.proposer_boost_root
      /\ u.justified_checkpoint =
           IF e(slot_at(b)) > e(slot_at(a))
           THEN Tracker!newer(t.justified_checkpoint, t.unrealized_justified_checkpoint)
           ELSE t.justified_checkpoint
      /\ u.finalized_checkpoint =
           IF e(slot_at(b)) > e(slot_at(a))
           THEN Tracker!newer(t.finalized_checkpoint, t.unrealized_finalized_checkpoint)
           ELSE t.finalized_checkpoint
  BY <1>3, <1>5, TickedFields DEF get_current_store_epoch
<1> HIDE DEF u, v, e
<1>7. \A c, d \in Checkpoint : Tracker!newer(Tracker!newer(c, d), d) = Tracker!newer(c, d)
  BY DEF Tracker!newer, Checkpoint
<1>8. u.proposer_boost_root = v.proposer_boost_root
  BY ONLY <1>1, <1>3, <1>4, <1>6, get_current_slot(s) <= slot_at(a), slot_at(a) <= slot_at(b)
<1>9. /\ s.justified_checkpoint \in Checkpoint /\ s.finalized_checkpoint \in Checkpoint
      /\ s.unrealized_justified_checkpoint \in Checkpoint
      /\ s.unrealized_finalized_checkpoint \in Checkpoint
  BY DEF Shaped, StoreOver
<1>10. u.justified_checkpoint = v.justified_checkpoint
  BY ONLY <1>2, <1>3, <1>4, <1>6, <1>7, <1>9
<1>11. u.finalized_checkpoint = v.finalized_checkpoint
  BY ONLY <1>2, <1>3, <1>4, <1>6, <1>7, <1>9
<1>12. SameBlocks(u, v) /\ SamePtcVotes(u, v) /\ SameVotes(u, v) /\ SameClock(u, v)
  BY <1>3, <1>4, <1>6, <1>8 DEF SameBlocks, SamePtcVotes, SameVotes, SameClock
<1> QED BY <1>3, <1>4, <1>6, <1>10, <1>11, <1>12, SameFields DEF u, v, t

(* One iteration, into the next slot at most.                              *)
LEMMA TickIsTicked ==
  ASSUME NEW s, Shaped(s), NEW time \in Nat,
         get_current_slot(s) <= slot_at(time), slot_at(time) <= get_current_slot(s) + 1
  PROVE  on_tick_per_slot(s, time) = Ticked(s, time)
<1> DEFINE t == on_tick_per_slot(s, time)
           u == Ticked(s, time)
           new_slot == slot_at(time) > get_current_slot(s)
           new_epoch == compute_epoch_at_slot(slot_at(time)) > get_current_store_epoch(s)
           first == compute_slots_since_epoch_start(slot_at(time)) = 0
<1>1. get_current_slot(s) \in Nat /\ slot_at(time) \in Nat
  BY SlotType DEF Shaped, StoreOver, get_current_slot
<1>2. new_epoch <=> new_slot /\ first
  <2>1. CASE slot_at(time) = get_current_slot(s)
    <3>1. compute_epoch_at_slot(slot_at(time)) \in Nat
      BY <1>1, EpochOfSlot
    <3> QED BY <1>1, <2>1, <3>1 DEF get_current_store_epoch
  <2>2. CASE slot_at(time) = get_current_slot(s) + 1
    <3>1. compute_epoch_at_slot(get_current_slot(s)) \in Nat
      BY <1>1, EpochOfSlot
    <3> QED BY <1>1, <2>2, <3>1, NextSlotEpoch DEF get_current_store_epoch
  <2> QED BY <1>1, <2>1, <2>2
<1>3. /\ Shaped(t)
      /\ SameBlocks(s, t) /\ SamePtcVotes(s, t) /\ SameVotes(s, t)
      /\ t.checkpoint_states = s.checkpoint_states
      /\ t.payloads = s.payloads /\ t.time = time
      /\ t.proposer_boost_root = IF new_slot THEN NoRoot ELSE s.proposer_boost_root
      /\ t.unrealized_justified_checkpoint = s.unrealized_justified_checkpoint
      /\ t.unrealized_finalized_checkpoint = s.unrealized_finalized_checkpoint
      /\ IF new_slot /\ first
         THEN /\ t.justified_checkpoint
                   = Tracker!newer(s.justified_checkpoint, s.unrealized_justified_checkpoint)
              /\ t.finalized_checkpoint
                   = Tracker!newer(s.finalized_checkpoint, s.unrealized_finalized_checkpoint)
         ELSE /\ t.justified_checkpoint = s.justified_checkpoint
              /\ t.finalized_checkpoint = s.finalized_checkpoint
  BY TickType, TickLeaves, TickEffect
<1>4. /\ Shaped(u)
      /\ SameBlocks(s, u) /\ SamePtcVotes(s, u) /\ SameVotes(s, u)
      /\ u.checkpoint_states = s.checkpoint_states
      /\ u.payloads = s.payloads /\ u.time = time
      /\ u.proposer_boost_root = IF new_slot THEN NoRoot ELSE s.proposer_boost_root
      /\ u.unrealized_justified_checkpoint = s.unrealized_justified_checkpoint
      /\ u.unrealized_finalized_checkpoint = s.unrealized_finalized_checkpoint
      /\ u.justified_checkpoint =
           IF new_epoch THEN Tracker!newer(s.justified_checkpoint,
                                           s.unrealized_justified_checkpoint)
           ELSE s.justified_checkpoint
      /\ u.finalized_checkpoint =
           IF new_epoch THEN Tracker!newer(s.finalized_checkpoint,
                                           s.unrealized_finalized_checkpoint)
           ELSE s.finalized_checkpoint
  BY TickedFields
<1> HIDE DEF t, u, new_slot, new_epoch, first
<1>5. /\ t.justified_checkpoint = u.justified_checkpoint
      /\ t.finalized_checkpoint = u.finalized_checkpoint
      /\ t.proposer_boost_root = u.proposer_boost_root
  BY ONLY <1>2, <1>3, <1>4
<1>6. SameBlocks(t, u) /\ SamePtcVotes(t, u) /\ SameVotes(t, u) /\ SameClock(t, u)
  BY <1>3, <1>4, <1>5 DEF SameBlocks, SamePtcVotes, SameVotes, SameClock
<1> QED BY <1>3, <1>4, <1>5, <1>6, SameFields DEF t, u

start_second(slot) == (slot * SLOT_DURATION_MS) \div 1000

(* Slots start on whole seconds. *)
LEMMA SlotStart ==
  ASSUME NEW slot \in Nat
  PROVE  start_second(slot) \in Nat /\ slot_at(start_second(slot)) = slot
<1>1. PICK seconds \in 1..SLOT_DURATION_MS : SLOT_DURATION_MS = 1000 * seconds
  BY WholeSecondsAssumption
<1>2. seconds \in Nat \ {0} /\ SLOT_DURATION_MS \in Nat \ {0}
  BY <1>1, ConfigAssumption
<1>3. slot * SLOT_DURATION_MS = (slot * seconds) * 1000 /\ slot * seconds \in Nat
  BY <1>1, <1>2
<1>4. start_second(slot) = slot * seconds
  BY <1>3, DivOfMultiple DEF start_second
<1>5. start_second(slot) * 1000 = slot * SLOT_DURATION_MS
  BY <1>3, <1>4
<1>6. slot_at(start_second(slot)) = slot
  BY <1>2, <1>5, DivOfMultiple DEF slot_at, GENESIS_SLOT
<1> QED BY <1>3, <1>4, <1>6

(* on_tick steps through the slots in between, and Ticked is its result.   *)
LEMMA OnTickIsTicked ==
  ASSUME NEW s, Shaped(s), NEW time \in Nat, get_current_slot(s) <= slot_at(time)
  PROVE  on_tick(s, time) = Ticked(s, time)
<1> DEFINE cur == get_current_slot(s)
           target == slot_at(time)
           iteration(before, fuel) ==
             IF fuel > 0 /\ get_current_slot(before) < target
             THEN on_tick_per_slot(before, next_slot_start(before)) ELSE before
           IsLoop(g) == g = [fuel \in Nat |->
                               iteration(IF fuel = 0 THEN s ELSE g[fuel - 1], fuel)]
           loop == CHOOSE g : IsLoop(g)
           reached(fuel) == IF fuel < target - cur THEN cur + fuel ELSE target
           at(fuel) == IF fuel = 0 \/ target = cur THEN s
                       ELSE Ticked(s, start_second(reached(fuel)))
           steps == [fuel \in Nat |-> at(fuel)]
<1>1. cur \in Nat /\ target \in Nat /\ cur <= target
  BY SlotType DEF Shaped, StoreOver, get_current_slot
<1>2. on_tick(s, time) = on_tick_per_slot(loop[target + 1], time)
  BY DEF on_tick
<1>3. \A fuel \in Nat : reached(fuel) \in Nat /\ cur <= reached(fuel) /\ reached(fuel) <= target
  BY <1>1
<1>4. ASSUME NEW fuel \in Nat
      PROVE  Shaped(at(fuel)) /\ get_current_slot(at(fuel)) = reached(fuel)
  <2>1. CASE fuel = 0 \/ target = cur
    <3>1. reached(fuel) = cur
      BY <1>1, <2>1
    <3> QED BY <2>1, <3>1
  <2>2. CASE ~ (fuel = 0 \/ target = cur)
    <3> DEFINE t == Ticked(s, start_second(reached(fuel)))
    <3>1. start_second(reached(fuel)) \in Nat /\ slot_at(start_second(reached(fuel))) = reached(fuel)
      BY <1>3, SlotStart
    <3>2. Shaped(t) /\ t.time = start_second(reached(fuel))
      BY <3>1, TickedFields
    <3>3. at(fuel) = t
      BY <2>2
    <3> HIDE DEF t, at, reached
    <3> QED BY <3>1, <3>2, <3>3 DEF get_current_slot
  <2> QED BY <2>1, <2>2
<1>5. ASSUME NEW fuel \in Nat, fuel > 0
      PROVE  at(fuel) = iteration(at(fuel - 1), fuel)
  <2> DEFINE before == at(fuel - 1)
  <2>1. fuel - 1 \in Nat /\ Shaped(before) /\ get_current_slot(before) = reached(fuel - 1)
    BY <1>4, <1>5
  <2>2. CASE reached(fuel - 1) < target
    <3> DEFINE next == reached(fuel - 1) + 1
    <3>1. reached(fuel) = next /\ next \in Nat /\ target # cur /\ next <= target
      BY <1>1, <1>5, <2>1, <2>2
    <3>2. start_second(next) \in Nat /\ slot_at(start_second(next)) = next
      BY <3>1, SlotStart
    <3>3. next_slot_start(before) = start_second(next)
      <4> HIDE DEF before, reached
      <4> QED BY <2>1 DEF next_slot_start, start_second
    <3>4. at(fuel) = Ticked(s, start_second(next))
      BY <1>5, <3>1
    <3>5. iteration(before, fuel) = on_tick_per_slot(before, start_second(next))
      <4> HIDE DEF before, reached, target
      <4> QED BY <1>5, <2>1, <2>2, <3>3
    <3>6. on_tick_per_slot(before, start_second(next)) = Ticked(before, start_second(next))
      <4>1. /\ get_current_slot(before) <= slot_at(start_second(next))
            /\ slot_at(start_second(next)) <= get_current_slot(before) + 1
        <5>1. reached(fuel - 1) \in Nat
          BY <1>3, <2>1
        <5> HIDE DEF before, reached
        <5> QED BY <2>1, <3>2, <5>1
      <4> HIDE DEF before, next
      <4> QED BY <2>1, <3>2, <4>1, TickIsTicked
    <3>7. Ticked(before, start_second(next)) = Ticked(s, start_second(next))
      <4>1. CASE fuel - 1 = 0
        BY <4>1
      <4>2. CASE fuel - 1 # 0
        <5> DEFINE previous == start_second(reached(fuel - 1))
        <5>1. before = Ticked(s, previous)
          BY <3>1, <4>2
        <5>2. previous \in Nat /\ slot_at(previous) = reached(fuel - 1)
          BY <1>3, <2>1, SlotStart
        <5>3. cur <= slot_at(previous) /\ slot_at(previous) <= slot_at(start_second(next))
          <6>1. reached(fuel - 1) \in Nat /\ cur <= reached(fuel - 1)
            BY <1>3, <2>1
          <6> HIDE DEF reached, previous, cur
          <6> QED BY <3>2, <5>2, <6>1
        <5> HIDE DEF before, previous, next
        <5> QED BY <3>2, <5>1, <5>2, <5>3, TickedAgain
      <4> QED BY <4>1, <4>2
    <3> HIDE DEF before, next, at, iteration
    <3> QED BY <3>4, <3>5, <3>6, <3>7 DEF before
  <2>3. CASE ~ (reached(fuel - 1) < target)
    <3>1. reached(fuel) = target /\ reached(fuel - 1) = target
      BY <1>1, <1>5, <2>1, <2>3
    <3>2. at(fuel) = before
      <4>1. CASE target = cur
        BY <4>1
      <4>2. CASE target # cur
        <5>1. fuel - 1 # 0
          BY <1>1, <3>1, <4>2
        <5> HIDE DEF reached, target, cur
        <5> QED BY <1>5, <3>1, <4>2, <5>1
      <4> QED BY <4>1, <4>2
    <3>3. iteration(before, fuel) = before
      <4> HIDE DEF before, reached, target
      <4> QED BY <2>1, <2>3
    <3> QED BY <3>2, <3>3
  <2> QED BY <2>2, <2>3
<1> HIDE DEF at, reached, cur, target
<1>6. IsLoop(steps)
  <2>1. ASSUME NEW fuel \in Nat
        PROVE  steps[fuel] = iteration(IF fuel = 0 THEN s ELSE steps[fuel - 1], fuel)
    <3>1. CASE fuel = 0
      <4>1. at(0) = s
        BY DEF at
      <4> QED BY <3>1, <4>1
    <3>2. CASE fuel > 0
      <4>1. fuel - 1 \in Nat /\ steps[fuel - 1] = at(fuel - 1) /\ steps[fuel] = at(fuel)
        BY <3>2
      <4> HIDE DEF steps, iteration
      <4> QED BY <1>5, <3>2, <4>1
    <3> QED BY <3>1, <3>2
  <2> DEFINE h == [fuel \in Nat |->
                     iteration(IF fuel = 0 THEN s ELSE steps[fuel - 1], fuel)]
  <2>2. \A fuel \in Nat : steps[fuel] = h[fuel]
    <3> HIDE DEF steps, iteration
    <3> QED BY <2>1
  <2>3. steps = h
    <3>1. steps = [fuel \in Nat |-> steps[fuel]] /\ h = [fuel \in Nat |-> h[fuel]]
      OBVIOUS
    <3> HIDE DEF steps, h
    <3> QED BY <2>2, <3>1
  <2> HIDE DEF steps, iteration
  <2> QED BY <2>3
<1>7. IsLoop(loop)
  <2> HIDE DEF IsLoop, steps
  <2> QED BY <1>6
<1>8. \A fuel \in Nat : loop[fuel] = at(fuel)
  <2>1. \A fuel \in Nat :
          loop[fuel] = iteration(IF fuel = 0 THEN s ELSE loop[fuel - 1], fuel)
    <3> HIDE DEF loop, iteration
    <3> QED BY <1>7
  <2> HIDE DEF loop
  <2> DEFINE bad == {fuel \in Nat : loop[fuel] # at(fuel)}
  <2> SUFFICES ASSUME bad # {} PROVE FALSE
    OBVIOUS
  <2>2. PICK m \in bad : \A k \in bad : m <= k
    <3>1. bad \subseteq Nat
      OBVIOUS
    <3> HIDE DEF bad
    <3> QED BY <3>1, LeastNatural
  <2>3. m \in Nat /\ loop[m] # at(m)
    OBVIOUS
  <2>4. at(0) = s /\ iteration(s, 0) = s
    BY DEF at
  <2>5. CASE m = 0
    BY <2>1, <2>3, <2>4, <2>5
  <2>6. CASE m > 0
    <3>1. m - 1 \in Nat /\ m - 1 \notin bad
      <4>1. m - 1 \in Nat /\ ~ (m <= m - 1)
        BY <2>3, <2>6
      <4> HIDE DEF bad
      <4> QED BY <2>2, <4>1
    <3>2. loop[m - 1] = at(m - 1)
      BY <3>1
    <3> HIDE DEF bad, iteration
    <3> QED BY <1>5, <2>1, <2>3, <2>6, <3>1, <3>2
  <2> QED BY <2>3, <2>5, <2>6
<1> DEFINE last == at(target + 1)
<1>9. Shaped(last) /\ get_current_slot(last) = target
  <2>1. target + 1 \in Nat
    BY <1>1
  <2>2. reached(target + 1) = target
    BY <1>1 DEF reached
  <2> QED BY <1>4, <2>1, <2>2
<1>10. on_tick(s, time) = Ticked(last, time)
  <2>1. loop[target + 1] = last /\ get_current_slot(last) = slot_at(time)
    BY <1>1, <1>8, <1>9 DEF target
  <2> HIDE DEF last, loop
  <2>2. on_tick_per_slot(last, time) = Ticked(last, time)
    BY <1>1, <1>9, <2>1, TickIsTicked
  <2> QED BY <1>2, <2>1, <2>2
<1>11. Ticked(last, time) = Ticked(s, time)
  <2>1. CASE last = s
    BY <2>1
  <2>2. CASE last # s
    <3> DEFINE previous == start_second(target)
    <3>1. last = Ticked(s, previous)
      <4>1. reached(target + 1) = target
        BY <1>1 DEF reached
      <4> QED BY <2>2, <4>1 DEF at
    <3>2. previous \in Nat /\ slot_at(previous) = target
      BY <1>1, SlotStart
    <3> HIDE DEF last, previous
    <3> QED BY <1>1, <3>1, <3>2, TickedAgain DEF cur, target
  <2> QED BY <2>1, <2>2
<1> QED BY <1>10, <1>11

(* The steps of a call add up to on_tick, and calls in between leave no    *)
(* trace: what a call leaves behind depends only on the store it began     *)
(* with and on its own time.                                               *)
THEOREM TickPathIndependent == Spec => TickIsPathIndependent
<1> DEFINE adds_up == ~Idle => on_tick(store', tick_time) = on_tick(store, tick_time)
           commutes == Idle => \A time, later \in TickTimes :
                         store.time <= time /\ time <= later
                           => on_tick(on_tick(store, time), later) = on_tick(store, later)
<1>1. ASSUME TypeOK, [Next]_vars PROVE adds_up
  <2> SUFFICES ASSUME ~Idle
               PROVE  on_tick(store', tick_time) = on_tick(store, tick_time)
    OBVIOUS
  <2>1. Shaped(store) /\ store.time \in Nat /\ tick_time \in Nat
    BY <1>1 DEF TypeOK, IsStore, Shaped, StoreOver
  <2>2. get_current_slot(store) \in Nat /\ slot_at(tick_time) \in Nat
    BY <2>1, SlotType DEF get_current_slot
  <2>3. ASSUME NEW time \in Nat, get_current_slot(store) <= slot_at(time),
               slot_at(time) <= get_current_slot(store) + 1, slot_at(time) <= slot_at(tick_time),
               store' = on_tick_per_slot(store, time)
        PROVE  on_tick(store', tick_time) = on_tick(store, tick_time)
    <3>1. store' = Ticked(store, time)
      BY <2>1, <2>3, TickIsTicked
    <3>2. Shaped(store') /\ get_current_slot(store') = slot_at(time)
      BY <2>1, <3>1, TickedFields DEF get_current_slot
    <3>3. on_tick(store', tick_time) = Ticked(store', tick_time)
      BY <2>1, <2>3, <3>2, OnTickIsTicked
    <3>4. on_tick(store, tick_time) = Ticked(store, tick_time)
      <4>1. get_current_slot(store) <= slot_at(tick_time)
        BY <2>2, <2>3, SlotType
      <4> QED BY <2>1, <4>1, OnTickIsTicked
    <3>5. Ticked(Ticked(store, time), tick_time) = Ticked(store, tick_time)
      BY <2>1, <2>3, TickedAgain
    <3> QED BY <3>1, <3>3, <3>4, <3>5
  <2>4. CASE CatchUp
    <3> DEFINE time == next_slot_start(store)
    <3>1. time \in Nat /\ slot_at(time) = get_current_slot(store) + 1
      BY <2>1, NextSlotStartType, NextSlotStart
    <3>2. store' = on_tick_per_slot(store, time) /\ get_current_slot(store) < slot_at(tick_time)
      BY <2>4 DEF CatchUp
    <3> HIDE DEF time
    <3>3. /\ get_current_slot(store) <= slot_at(time)
          /\ slot_at(time) <= get_current_slot(store) + 1
          /\ slot_at(time) <= slot_at(tick_time)
      BY <2>2, <3>1, <3>2
    <3> QED BY <2>3, <3>1, <3>2, <3>3
  <2>5. CASE EndTick
    <3>0. store.time <= tick_time
      BY <2>1, <2>5 DEF EndTick
    <3>1. /\ store' = on_tick_per_slot(store, tick_time)
          /\ get_current_slot(store) <= slot_at(tick_time)
          /\ slot_at(tick_time) <= get_current_slot(store) + 1
          /\ slot_at(tick_time) <= slot_at(tick_time)
      BY <2>1, <2>2, <2>5, <3>0, SlotMonotone DEF EndTick, get_current_slot
    <3> QED BY <2>1, <2>3, <3>1
  <2>6. CatchUp \/ EndTick \/ store' = store
    BY <1>1 DEF Next, vars, BeginTick, OnBlock, OnAttestation, OnAttesterSlashing,
                OnExecutionPayloadEnvelope, OnPayloadAttestationMessage
  <2>7. CASE store' = store
    BY <2>7
  <2> QED BY <2>4, <2>5, <2>6, <2>7
<1>2. TypeOK => commutes
  <2> SUFFICES ASSUME TypeOK, NEW time \in TickTimes, NEW later \in TickTimes,
                      store.time <= time, time <= later
               PROVE  on_tick(on_tick(store, time), later) = on_tick(store, later)
    OBVIOUS
  <2>1. Shaped(store) /\ store.time \in Nat /\ time \in Nat /\ later \in Nat
    BY MessagesAssumption DEF TypeOK, IsStore, Shaped, StoreOver
  <2>2. get_current_slot(store) <= slot_at(time) /\ slot_at(time) <= slot_at(later)
    BY <2>1, SlotMonotone DEF get_current_slot
  <2>3. /\ get_current_slot(store) \in Nat /\ slot_at(time) \in Nat /\ slot_at(later) \in Nat
    BY <2>1, SlotType DEF get_current_slot
  <2>4. on_tick(store, time) = Ticked(store, time)
    BY <2>1, <2>2, OnTickIsTicked
  <2>5. Shaped(Ticked(store, time)) /\ get_current_slot(Ticked(store, time)) = slot_at(time)
    BY <2>1, TickedFields DEF get_current_slot
  <2>6. on_tick(Ticked(store, time), later) = Ticked(Ticked(store, time), later)
    BY <2>1, <2>2, <2>5, OnTickIsTicked
  <2>7. on_tick(store, later) = Ticked(store, later)
    BY <2>1, <2>2, <2>3, OnTickIsTicked
  <2> QED BY <2>1, <2>2, <2>4, <2>6, <2>7, TickedAgain
<1>3. Spec => [][adds_up]_vars
  <2>1. TypeOK /\ [Next]_vars => [adds_up]_vars
    <3> HIDE DEF adds_up
    <3> QED BY <1>1
  <2> HIDE DEF adds_up
  <2> QED BY <2>1, StoreTypeCorrect, PTL DEF Spec
<1>4. Spec => []commutes
  <2> HIDE DEF commutes
  <2> QED BY <1>2, StoreTypeCorrect, PTL
<1> QED BY <1>3, <1>4 DEF TickIsPathIndependent
===============================================================================
