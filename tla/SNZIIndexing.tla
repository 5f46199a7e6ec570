---------------------------- MODULE SNZIIndexing ----------------------------
(***************************************************************************)
(* The tree arithmetic of src/snzi.hpp: the perfect K-ary tree of height H *)
(* is laid out in level order in an array, index 0 being the root.  The    *)
(* three SNZI classes carry identical copies of these helpers; the         *)
(* operators below take the tree parameters as arguments so that both the  *)
(* protocol module SNZI and the bounded check MC_SNZIIndexing use them.    *)
(***************************************************************************)
EXTENDS Naturals

(* pow_int(b, e): the loop multiplies result by b, e times.                *)
RECURSIVE pow_int(_, _)
pow_int(b, e) == IF e = 0 THEN 1 ELSE b * pow_int(b, e - 1)

(* Fault model: the "- 1" of the geometric sum dropped.                   *)
nodes_count_no_minus(K, H) == pow_int(K, H + 1) \div (K - 1)

(* nodes_count(K, H) = (K^(H+1) - 1) / (K - 1), integer division.          *)
nodes_count(K, H) == (pow_int(K, H + 1) - 1) \div (K - 1)

(* leaves_count(K, H) = K^H.                                               *)
leaves_count(K, H) == pow_int(K, H)

(* Fault model: T / L in integer arithmetic, rounding down.               *)
threads_per_leaf_floor(T, L) == IF T \div L = 0 THEN 1 ELSE T \div L

(* The constructor's threads_per_leaf: std::ceil of T / L computed in      *)
(* double (exact for every value a model reaches), then 0 is replaced by 1 *)
(* (the case T = 0).                                                       *)
threads_per_leaf(T, L) ==
    LET c == (T + L - 1) \div L
    IN  IF c = 0 THEN 1 ELSE c

(* Fault model: an off-by-one in the parent index.                        *)
parent_off_by_one(id, arity) == (id + 1) \div arity

(* parent(id) = (id - 1) / arity.                                          *)
parent(id, arity) == (id - 1) \div arity

(* get_leaf_for_thread: leaves occupy the last L indices of the array;     *)
(* thread tid goes to leaf number (tid / threads_per_leaf) mod L.          *)
get_leaf_for_thread(tid, K, H, T) ==
    LET n   == nodes_count(K, H)
        l   == leaves_count(K, H)
        tpl == threads_per_leaf(T, l)
    IN  n - l + ((tid \div tpl) % l)

=============================================================================
