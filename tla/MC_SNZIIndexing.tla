-------------------------- MODULE MC_SNZIIndexing --------------------------
(***************************************************************************)
(* Bounded check of the tree arithmetic of SNZIIndexing against reference *)
(* definitions that build the tree from its shape rather than from the     *)
(* closed formulas.  The state is one constructor argument triple          *)
(* (K, H, T); every step picks another, so the reachable states are all   *)
(* the triples of the bounds and the invariants are checked on each.       *)
(***************************************************************************)
EXTENDS SNZIIndexing, FiniteSets

CONSTANTS
    Arities,    \* values of K tried (the constructor rejects K < 2)
    Heights,    \* values of H tried
    ThreadNums  \* values of T tried

ASSUME Arities \subseteq (Nat \ {0, 1}) /\ Heights \subseteq Nat
ASSUME ThreadNums \subseteq Nat \ {0}

VARIABLES k, h, t

vars == <<k, h, t>>

(* A constructed tree: any accepted argument triple.                       *)
Construct ==
    /\ k' \in Arities
    /\ h' \in Heights
    /\ t' \in ThreadNums

Init == /\ k \in Arities /\ h \in Heights /\ t \in ThreadNums

Next == Construct

Spec == Init /\ [][Next]_vars

-----------------------------------------------------------------------------
(* Reference tree: the nodes of a perfect K-ary tree of height H are the   *)
(* paths of length 0..H over 1..K; a node index of the level-order array   *)
(* is a leaf when its first child index K*i+1 is past the end; the depth   *)
(* of an index is the number of parent steps to the root.                  *)
RefNodes(K, H) == UNION {[1 .. d -> 1 .. K] : d \in 0 .. H}

RefIsLeaf(i, K, N) == K * i + 1 >= N

RECURSIVE RefDepth(_, _)
RefDepth(i, K) == IF i = 0 THEN 0 ELSE 1 + RefDepth(parent(i, K), K)

N == nodes_count(k, h)
L == leaves_count(k, h)
Leaf(tid) == get_leaf_for_thread(tid, k, h, t)

(* The array the constructor allocates has exactly one slot per node of    *)
(* the tree, and the leaves are exactly its last leaves_count slots, each  *)
(* at depth H (parent() iterated H times from a leaf reaches the root).    *)
TreeShapeMatches ==
    /\ N = Cardinality(RefNodes(k, h))
    /\ {i \in 0 .. N - 1 : RefIsLeaf(i, k, N)} = (N - L) .. (N - 1)
    /\ \A i \in (N - L) .. (N - 1) : RefDepth(i, k) = h

(* get_leaf_for_thread sends every thread id of [0, T) to a leaf, in       *)
(* linear order (a larger id never gets an earlier leaf), and no leaf      *)
(* serves more than threads_per_leaf threads, as the class comment says.   *)
LeafAssignmentLinear ==
    /\ \A tid \in 0 .. t - 1 : Leaf(tid) \in (N - L) .. (N - 1)
    /\ \A t1, t2 \in 0 .. t - 1 : t1 < t2 => Leaf(t1) <= Leaf(t2)
    /\ \A lf \in (N - L) .. (N - 1) :
          Cardinality({tid \in 0 .. t - 1 : Leaf(tid) = lf})
             <= threads_per_leaf(t, L)

=============================================================================
