-------------------------------- MODULE SNZI --------------------------------
(***************************************************************************)
(* The SNZI tree of src/snzi.hpp, all three classes:                       *)
(*   no_contention_handling_snzi    Variant = "no_contention"              *)
(*   semi_contention_handling_snzi  Variant = "semi_contention"            *)
(*   full_contention_handling_snzi  Variant = "full_contention"            *)
(* Each atomic access of the code (load, store, compare_exchange,          *)
(* fetch_add, fetch_sub) is one step of the thread that makes it.  A       *)
(* node's Arrive calls Arrive or Depart of its parent, so a thread runs a  *)
(* stack of frames, the top one executing; a call to the root is one       *)
(* fetch_add / fetch_sub, done in the calling step.  A call that is the    *)
(* last statement of its caller (the compensating and the propagating      *)
(* Depart) replaces the caller's frame.                                    *)
(*                                                                         *)
(* Spurious failure of compare_exchange_weak (LL/SC machines; none on   *)
(* x86, the benchmark's target) is not a separate step of node::Arrive:   *)
(* it reloads oldx with the value it already holds and re-enters the loop *)
(* at a point where the branch before the CAS is not taken (oldx = 0      *)
(* implies pArrInv at every CAS), so it leaves the state unchanged.  In    *)
(* ArriveDirectly it counts as a failure: with SpuriousCasFailure the CAS *)
(* there may fail while X = oldx.  The exponential_backoff calls only      *)
(* delay a thread.                                                         *)
(***************************************************************************)
EXTENDS Naturals, Sequences, FiniteSets, Functions, SNZIIndexing

CONSTANTS
    K,                         \* arity of the tree
    H,                         \* height of the tree
    T,                         \* number of threads; thread ids are 0 .. T-1
    Variant,                   \* which of the three classes
    DelayAmount,               \* announce re-checks in Arrive (code: 16)
    MaxContentionNumFailures,  \* CAS failures that escalate (code: 5)
    CounterBits,               \* width of counter_type (code: 64)
    MaxArrivals,               \* Arrive calls each client thread makes
    Endless,                   \* clients call on without end (thread_job)
    MaxOutstanding,            \* arrivals a client holds at once
    SpuriousCasFailure         \* compare_exchange_weak may fail spuriously

Variants == {"no_contention", "semi_contention", "full_contention"}

ASSUME K >= 2 /\ H \in Nat /\ T \in Nat \ {0}
ASSUME Variant \in Variants
ASSUME DelayAmount \in Nat \ {0} /\ MaxContentionNumFailures \in Nat \ {0}
ASSUME CounterBits \in Nat \ {0} /\ MaxArrivals \in Nat
ASSUME MaxOutstanding \in Nat \ {0} /\ Endless \in BOOLEAN
ASSUME SpuriousCasFailure \in BOOLEAN

Threads   == 0 .. T - 1
NumNodes  == nodes_count(K, H)
Nodes     == 0 .. NumNodes - 1        \* index 0 is root, the rest others[]
Others    == Nodes \ {0}
LeafNodes == (NumNodes - leaves_count(K, H)) .. (NumNodes - 1)
Leaf(t)   == get_leaf_for_thread(t, K, H, T)
Parent(n) == parent(n, K)
Children(n) == {c \in Others : Parent(c) = n}

(* The announce flag exists in the semi and full classes only.             *)
HasAnnounce == Variant # "no_contention"

(* counter_type arithmetic: unsigned, modulo 2^CounterBits.                *)
CounterMod == 2 ^ CounterBits
Inc(x) == (x + 1) % CounterMod
Dec(x) == (x + CounterMod - 1) % CounterMod

VARIABLES
    X,          \* X[0]: root.X; X[n], n > 0: others[n].X
    announce,   \* announce[n] of others[n] (semi and full classes)
    status,     \* status[t]: the contention_status of thread t (full class)
    stack,      \* stack[t]: frames of thread t's calls, top first
    op,         \* the facade call thread t is in: "idle", "arrive", "depart"
    outstanding,\* Arrive calls of t completed minus Depart calls completed
    arrivals,   \* Arrive calls thread t has made (bounded by MaxArrivals)
    direct      \* history: t's outstanding arrivals made by ArriveDirectly

vars == <<X, announce, status, stack, op, outstanding, arrivals, direct>>

PCs == {"a_load", "a_ann", "a_delay", "a_store", "a_call", "a_cas", "a_undo",
        "d_load", "d_clear", "d_cas", "d_call", "ad_load", "ad_cas"}

Frames == [fn : {"Arrive", "Depart", "ArriveDirectly"}, node : Nodes,
           pc : PCs, oldx : 0 .. CounterMod - 1, pArrInv : BOOLEAN,
           i : 0 .. DelayAmount, fails : 0 .. MaxContentionNumFailures]

Status == [use_snzi_in_arrive : BOOLEAN, use_snzi_in_depart : BOOLEAN,
           use_snzi_tree_flag : BOOLEAN]

(* The frame a call of fn on node n starts with.                           *)
NewFrame(fn, n) ==
    [fn |-> fn, node |-> n, oldx |-> 0, pArrInv |-> FALSE, i |-> 0, fails |-> 0,
     pc |-> CASE fn = "Arrive" -> "a_load"
              [] fn = "Depart" -> "d_load"
              [] fn = "ArriveDirectly" -> "ad_load"]

Top(t) == Head(stack[t])

(* The constructor: every counter 0, every announce false, every           *)
(* contention_status all false; no thread is in a call.                    *)
Init ==
    /\ X = [n \in Nodes |-> 0]
    /\ announce = [n \in Others |-> FALSE]
    /\ status = [t \in Threads |-> [use_snzi_in_arrive |-> FALSE,
                   use_snzi_in_depart |-> FALSE, use_snzi_tree_flag |-> FALSE]]
    /\ stack = [t \in Threads |-> <<>>]
    /\ op = [t \in Threads |-> "idle"]
    /\ outstanding = [t \in Threads |-> 0]
    /\ arrivals = [t \in Threads |-> 0]
    /\ direct = [t \in Threads |-> 0]

-----------------------------------------------------------------------------
(* Frame and call plumbing.                                                *)

Client == <<op, outstanding, arrivals, direct>>

At(t, label) == stack[t] # <<>> /\ Top(t).pc = label

SetTop(t, g) == stack' = [stack EXCEPT ![t] = <<g>> \o Tail(@)]

(* The top frame returns; when it was the last one the facade call of t    *)
(* returns to the client.                                                  *)
Return(t) ==
    LET rest == Tail(stack[t])
    IN  /\ stack' = [stack EXCEPT ![t] = rest]
        /\ IF rest = <<>>
              THEN /\ op' = [op EXCEPT ![t] = "idle"]
                   /\ outstanding' = [outstanding EXCEPT ![t] =
                                        IF op[t] = "arrive" THEN @ + 1 ELSE @ - 1]
                   /\ direct' = [direct EXCEPT ![t] =
                                   IF Top(t).fn = "ArriveDirectly" THEN @ + 1 ELSE @]
              ELSE UNCHANGED <<op, outstanding, direct>>

(* Query(): root.X.load() != 0.                                            *)
Query == X[0] # 0

(* root_node::Arrive / Depart: one fetch_add / fetch_sub.                  *)
RootArrive == X' = [X EXCEPT ![0] = Inc(@)]
RootDepart == X' = [X EXCEPT ![0] = Dec(@)]

(* The switch(parent) of node::Arrive: the top frame becomes g and fn is   *)
(* called on the parent of g's node; a call on the root completes at once. *)
CallParent(t, g, fn) ==
    LET p == Parent(g.node)
    IN  IF p = 0
           THEN /\ IF fn = "Arrive" THEN RootArrive ELSE RootDepart
                /\ SetTop(t, g)
           ELSE /\ stack' = [stack EXCEPT ![t] = <<NewFrame(fn, p), g>> \o Tail(@)]
                /\ UNCHANGED X

(* Depart on the parent as the last statement of the caller.               *)
DepartParent(t) ==
    LET p == Parent(Top(t).node)
    IN  IF p = 0
           THEN RootDepart /\ Return(t)
           ELSE /\ SetTop(t, NewFrame("Depart", p))
                /\ UNCHANGED <<X, op, outstanding, direct>>

-----------------------------------------------------------------------------
(* node::Arrive                                                            *)

(* Fault model: the propagation is not guarded by !pArrInv.               *)
ArriveBranchRepeat(oldx, pArrInv) ==
    IF oldx = 0
       THEN IF HasAnnounce THEN "a_ann" ELSE "a_call"
       ELSE "a_cas"

(* Where the do-while body goes with the current oldx and pArrInv.         *)
ArriveBranch(oldx, pArrInv) ==
    IF oldx = 0 /\ ~pArrInv
       THEN IF HasAnnounce THEN "a_ann" ELSE "a_call"
       ELSE "a_cas"

(* pArrInv = false; oldx = X.load().                                       *)
ArriveLoad(t) ==
    LET f == Top(t)
    IN  /\ At(t, "a_load")
        /\ SetTop(t, [f EXCEPT !.oldx = X[f.node], !.pArrInv = FALSE,
                               !.pc = ArriveBranch(X[f.node], FALSE)])
        /\ UNCHANGED <<X, announce, status, Client>>

(* if (announce.load()): spin re-reading X, else go and announce.          *)
ArriveCheckAnnounce(t) ==
    LET f == Top(t)
    IN  /\ At(t, "a_ann")
        /\ SetTop(t, [f EXCEPT !.i = 0,
                      !.pc = IF announce[f.node] THEN "a_delay" ELSE "a_store"])
        /\ UNCHANGED <<X, announce, status, Client>>

(* One of DelayAmount iterations: oldx = X.load(); a nonzero value means   *)
(* another thread raised the node, doArrive = false and on to the CAS;     *)
(* after the last zero read doArrive stays true.                           *)
ArriveDelay(t) ==
    LET f == Top(t)
        x == X[f.node]
    IN  /\ At(t, "a_delay")
        /\ SetTop(t, [f EXCEPT !.oldx = x, !.i = f.i + 1,
                      !.pc = IF x # 0 THEN "a_cas"
                             ELSE IF f.i + 1 = DelayAmount THEN "a_store"
                             ELSE "a_delay"])
        /\ UNCHANGED <<X, announce, status, Client>>

(* announce.store(true).                                                   *)
ArriveAnnounce(t) ==
    LET f == Top(t)
    IN  /\ At(t, "a_store")
        /\ announce' = [announce EXCEPT ![f.node] = TRUE]
        /\ SetTop(t, [f EXCEPT !.pc = "a_call"])
        /\ UNCHANGED <<X, status, Client>>

(* Arrive on the parent, pArrInv = true.                                   *)
ArriveCallParent(t) ==
    LET f == Top(t)
    IN  /\ At(t, "a_call")
        /\ CallParent(t, [f EXCEPT !.pArrInv = TRUE, !.pc = "a_cas"], "Arrive")
        /\ UNCHANGED <<announce, status, Client>>

(* Fault model: the compensation tests pArrInv only, not pArrInv && oldx. *)
ArriveCasOkAlwaysUndo(t) ==
    LET f == Top(t)
    IN  /\ At(t, "a_cas")
        /\ X[f.node] = f.oldx
        /\ X' = [X EXCEPT ![f.node] = Inc(f.oldx)]
        /\ IF f.pArrInv
              THEN SetTop(t, [f EXCEPT !.pc = "a_undo"])
                   /\ UNCHANGED <<op, outstanding, direct>>
              ELSE Return(t)
        /\ UNCHANGED <<announce, status, arrivals>>

(* X.compare_exchange(oldx, oldx + 1) succeeds; a propagated arrive that   *)
(* found the node already raised (oldx != 0) is undone on the parent.      *)
ArriveCasOk(t) ==
    LET f == Top(t)
    IN  /\ At(t, "a_cas")
        /\ X[f.node] = f.oldx
        /\ X' = [X EXCEPT ![f.node] = Inc(f.oldx)]
        /\ IF f.pArrInv /\ f.oldx # 0
              THEN SetTop(t, [f EXCEPT !.pc = "a_undo"])
                   /\ UNCHANGED <<op, outstanding, direct>>
              ELSE Return(t)
        /\ UNCHANGED <<announce, status, arrivals>>

(* The CAS fails and loads the current value into oldx.                    *)
ArriveCasFail(t) ==
    LET f == Top(t)
    IN  /\ At(t, "a_cas")
        /\ X[f.node] # f.oldx
        /\ SetTop(t, [f EXCEPT !.oldx = X[f.node],
                               !.pc = ArriveBranch(X[f.node], f.pArrInv)])
        /\ UNCHANGED <<X, announce, status, Client>>

(* if (pArrInv && oldx): Depart on the parent.                             *)
ArriveUndo(t) ==
    /\ At(t, "a_undo")
    /\ DepartParent(t)
    /\ UNCHANGED <<announce, status, arrivals>>

-----------------------------------------------------------------------------
(* node::Depart                                                            *)

(* Where the loop body goes with the current oldx: the semi and full       *)
(* classes store announce = false before a CAS that expects 1.             *)
DepartBranch(oldx) == IF HasAnnounce /\ oldx = 1 THEN "d_clear" ELSE "d_cas"

(* oldx = X.load().                                                        *)
DepartLoad(t) ==
    LET f == Top(t)
    IN  /\ At(t, "d_load")
        /\ SetTop(t, [f EXCEPT !.oldx = X[f.node], !.pc = DepartBranch(X[f.node])])
        /\ UNCHANGED <<X, announce, status, Client>>

(* announce.store(false).                                                  *)
DepartClear(t) ==
    LET f == Top(t)
    IN  /\ At(t, "d_clear")
        /\ announce' = [announce EXCEPT ![f.node] = FALSE]
        /\ SetTop(t, [f EXCEPT !.pc = "d_cas"])
        /\ UNCHANGED <<X, status, Client>>

(* Fault model: a fetch_sub in place of the CAS loop, propagating when    *)
(* the value loaded before it was 1.                                       *)
DepartCasOkBlind(t) ==
    LET f == Top(t)
    IN  /\ At(t, "d_cas")
        /\ X' = [X EXCEPT ![f.node] = Dec(@)]
        /\ IF f.oldx = 1
              THEN SetTop(t, [f EXCEPT !.pc = "d_call"])
                   /\ UNCHANGED <<op, outstanding, direct>>
              ELSE Return(t)
        /\ UNCHANGED <<announce, status, arrivals>>

(* X.compare_exchange(oldx, oldx - 1) succeeds; taking the node from 1 to  *)
(* 0 goes on to Depart on the parent.                                      *)
DepartCasOk(t) ==
    LET f == Top(t)
    IN  /\ At(t, "d_cas")
        /\ X[f.node] = f.oldx
        /\ X' = [X EXCEPT ![f.node] = Dec(f.oldx)]
        /\ IF f.oldx = 1
              THEN SetTop(t, [f EXCEPT !.pc = "d_call"])
                   /\ UNCHANGED <<op, outstanding, direct>>
              ELSE Return(t)
        /\ UNCHANGED <<announce, status, arrivals>>

(* Fault model: the failed CAS retries with the old expected value.      *)
DepartCasFailStale(t) ==
    LET f == Top(t)
    IN  /\ At(t, "d_cas")
        /\ X[f.node] # f.oldx
        /\ SetTop(t, [f EXCEPT !.pc = DepartBranch(f.oldx)])
        /\ UNCHANGED <<X, announce, status, Client>>

(* The CAS fails and loads the current value into oldx.                    *)
DepartCasFail(t) ==
    LET f == Top(t)
    IN  /\ At(t, "d_cas")
        /\ X[f.node] # f.oldx
        /\ SetTop(t, [f EXCEPT !.oldx = X[f.node], !.pc = DepartBranch(X[f.node])])
        /\ UNCHANGED <<X, announce, status, Client>>

(* if (oldx == 1): Depart on the parent.                                   *)
DepartCallParent(t) ==
    /\ At(t, "d_call")
    /\ DepartParent(t)
    /\ UNCHANGED <<announce, status, arrivals>>

-----------------------------------------------------------------------------
(* root_node::ArriveDirectly (full class)                                  *)

(* oldx = X.load().                                                        *)
ArriveDirectlyLoad(t) ==
    LET f == Top(t)
    IN  /\ At(t, "ad_load")
        /\ SetTop(t, [f EXCEPT !.oldx = X[0], !.pc = "ad_cas"])
        /\ UNCHANGED <<X, announce, status, Client>>

(* The CAS succeeds; MaxContentionNumFailures failures or more set         *)
(* use_snzi_tree_flag.                                                     *)
ArriveDirectlyCasOk(t) ==
    LET f == Top(t)
    IN  /\ At(t, "ad_cas")
        /\ X[0] = f.oldx
        /\ X' = [X EXCEPT ![0] = Inc(f.oldx)]
        /\ status' = [status EXCEPT ![t].use_snzi_tree_flag =
                         @ \/ f.fails >= MaxContentionNumFailures]
        /\ Return(t)
        /\ UNCHANGED <<announce, arrivals>>

(* The CAS fails, because X changed or spuriously: ++num_failures (counted *)
(* up to the threshold, the only value it is compared with), backoff.     *)
ArriveDirectlyCasFail(t) ==
    LET f == Top(t)
    IN  /\ At(t, "ad_cas")
        /\ X[0] # f.oldx \/ SpuriousCasFailure
        /\ SetTop(t, [f EXCEPT !.oldx = X[0],
                      !.fails = IF @ < MaxContentionNumFailures THEN @ + 1 ELSE @])
        /\ UNCHANGED <<X, announce, status, Client>>

-----------------------------------------------------------------------------
(* The facade calls.                                                       *)

(* Starting fn on node n: on the root (H = 0) it is one atomic step and    *)
(* the call returns at once; otherwise a frame is pushed.                  *)
Enter(t, fn, n) ==
    IF n = 0
       THEN /\ IF fn = "Arrive" THEN RootArrive ELSE RootDepart
            /\ outstanding' = [outstanding EXCEPT ![t] =
                                 IF fn = "Arrive" THEN @ + 1 ELSE @ - 1]
            /\ UNCHANGED <<stack, op>>
       ELSE /\ stack' = [stack EXCEPT ![t] = <<NewFrame(fn, n)>>]
            /\ op' = [op EXCEPT ![t] = IF fn = "Arrive" THEN "arrive" ELSE "depart"]
            /\ UNCHANGED <<X, outstanding>>

(* Arrive(tid [, cont]) by a client with calls left (the benchmark's      *)
(* thread_job loops until its deadline: Endless).  The full class takes    *)
(* the direct root path until use_snzi_in_arrive; otherwise Arrive on the  *)
(* thread's leaf.                                                          *)
Arrive(t) ==
    /\ op[t] = "idle"
    /\ Endless \/ arrivals[t] < MaxArrivals
    /\ outstanding[t] < MaxOutstanding
    /\ arrivals' = [arrivals EXCEPT ![t] = IF Endless THEN @ ELSE @ + 1]
    /\ IF Variant = "full_contention" /\ ~status[t].use_snzi_in_arrive
          THEN /\ stack' = [stack EXCEPT ![t] = <<NewFrame("ArriveDirectly", 0)>>]
               /\ op' = [op EXCEPT ![t] = "arrive"]
               /\ UNCHANGED <<X, outstanding>>
          ELSE Enter(t, "Arrive", Leaf(t))
    /\ UNCHANGED <<announce, status, direct>>

(* root_node::DepartDirectly: the root's Depart, then, if the thread's     *)
(* last ArriveDirectly saw contention, both use_ flags are set for good.   *)
DepartDirectly(t) ==
    /\ RootDepart
    /\ status' = [status EXCEPT ![t] =
          IF @.use_snzi_tree_flag
             THEN [@ EXCEPT !.use_snzi_in_arrive = TRUE, !.use_snzi_in_depart = TRUE]
             ELSE @]

(* Depart(tid [, cont]), called only after a matching Arrive completed.    *)
(* The full class departs directly until use_snzi_in_depart.               *)
Depart(t) ==
    /\ op[t] = "idle"
    /\ outstanding[t] > 0
    /\ IF Variant = "full_contention" /\ ~status[t].use_snzi_in_depart
          THEN /\ DepartDirectly(t)
               /\ outstanding' = [outstanding EXCEPT ![t] = @ - 1]
               /\ direct' = [direct EXCEPT ![t] = @ - 1]
               /\ UNCHANGED <<stack, op>>
          ELSE /\ Enter(t, "Depart", Leaf(t))
               /\ UNCHANGED <<status, direct>>
    /\ UNCHANGED <<announce, arrivals>>

(* One step of a call thread t is in.                                      *)
Step(t) ==
    \/ ArriveLoad(t) \/ ArriveCheckAnnounce(t) \/ ArriveDelay(t)
    \/ ArriveAnnounce(t) \/ ArriveCallParent(t) \/ ArriveCasOk(t)
    \/ ArriveCasFail(t) \/ ArriveUndo(t)
    \/ DepartLoad(t) \/ DepartClear(t) \/ DepartCasOk(t) \/ DepartCasFail(t)
    \/ DepartCallParent(t)
    \/ ArriveDirectlyLoad(t) \/ ArriveDirectlyCasOk(t) \/ ArriveDirectlyCasFail(t)

(* Every client thread has made its calls and departed all its arrivals.   *)
Finished ==
    /\ \A t \in Threads : op[t] = "idle" /\ arrivals[t] = MaxArrivals
                          /\ outstanding[t] = 0
    /\ UNCHANGED vars

Next == (\E t \in Threads : Arrive(t) \/ Depart(t) \/ Step(t)) \/ Finished

(* Threads are OS threads: a thread in a call is eventually scheduled.     *)
(* Clients are not obliged to make calls.                                  *)
Spec == Init /\ [][Next]_vars /\ \A t \in Threads : WF_vars(Step(t))

-----------------------------------------------------------------------------
(* Properties                                                              *)

TypeOK ==
    /\ X \in [Nodes -> 0 .. CounterMod - 1]
    /\ announce \in [Others -> BOOLEAN]
    /\ status \in [Threads -> Status]
    /\ \A t \in Threads : stack[t] \in Seq(Frames) /\ Len(stack[t]) <= H + 1
                          /\ \A j \in 1 .. Len(stack[t]) : stack[t][j].node \in Others
                                \/ stack[t][j].fn = "ArriveDirectly"
    /\ op \in [Threads -> {"idle", "arrive", "depart"}]
    /\ outstanding \in [Threads -> 0 .. MaxArrivals]
    /\ arrivals \in [Threads -> 0 .. MaxArrivals]
    /\ direct \in [Threads -> 0 .. MaxArrivals]

(* The surplus thread t contributes at the least and at the most, given    *)
(* that a call in progress may or may not have taken effect yet.           *)
SurplusLow(t)  == outstanding[t] - (IF op[t] = "depart" THEN 1 ELSE 0)
SurplusHigh(t) == outstanding[t] + (IF op[t] = "arrive" THEN 1 ELSE 0)

(* Query() reads root.X once.  Whenever it runs, its answer is one a       *)
(* linearizable nonzero indicator may give: false only if no thread holds  *)
(* a completed Arrive it has not begun to Depart, true only if some        *)
(* thread has an Arrive completed or in progress whose Depart has not      *)
(* completed.  This is what the propagation of node::Arrive (parent first, *)
(* then the CAS, then the compensating Depart) and of node::Depart (CAS,   *)
(* then the parent) must guarantee against every interleaving.            *)
QueryLinearizable ==
    /\ ~Query => \A t \in Threads : SurplusLow(t) = 0
    /\ Query => \E t \in Threads : SurplusHigh(t) > 0

(* No thread is inside a facade call.                                      *)
Quiescent == \A t \in Threads : op[t] = "idle"

(* What each counter holds when no call is in progress: a leaf counts the  *)
(* tree-path arrivals of its threads, an inner node the children that are  *)
(* nonzero (each announces itself to its parent once), the root also the   *)
(* direct arrivals of the full class.                                      *)
TreeOutstanding == [t \in Threads |-> outstanding[t] - direct[t]]
ExpectedX(n) ==
    (IF n \in LeafNodes
        THEN SumFunctionOnSet(TreeOutstanding, {t \in Threads : Leaf(t) = n})
        ELSE Cardinality({c \in Children(n) : X[c] # 0}))
    + (IF n = 0 THEN SumFunctionOnSet(direct, Threads) ELSE 0)

(* After every call has returned, each counter of the tree holds exactly   *)
(* the presence it stands for: no interleaving of the propagating Arrive,  *)
(* its compensation and the propagating Depart leaves a node announced to  *)
(* its parent twice, or not at all.                                        *)
QuiescentPresence == Quiescent => \A n \in Nodes : X[n] = ExpectedX(n)

(* The threads whose leaf lies in the subtree rooted at node n.            *)
RECURSIVE InSubtree(_, _)
InSubtree(m, n) == m = n \/ (m # 0 /\ InSubtree(Parent(m), n))
SubtreeThreads(n) == {t \in Threads : InSubtree(Leaf(t), n)}

(* spec.md section 5: at every quiescent state each non-root counter       *)
(* equals the net matched arrivals on its subtree.  In the code an inner   *)
(* node is raised once per nonzero child (node::Arrive propagates only on  *)
(* 0 -> 1 and undoes a second propagation), so it counts children, not     *)
(* arrivals.                                                               *)
QuiescentSubtreeSurplus ==
    Quiescent => \A n \in Others :
        X[n] = SumFunctionOnSet(TreeOutstanding, SubtreeThreads(n))

(* spec.md 8.8 and S2: once every call has returned, every announce flag   *)
(* is false again.  In the code a Depart that stored announce = false for  *)
(* oldx == 1 can complete its CAS after an Arrive that read a stale 0 has  *)
(* stored true and the counter went 1 -> 2 -> 1 in between.                *)
QuiescentAnnounceCleared ==
    Quiescent => \A n \in Others : X[n] = 0 => ~announce[n]

(* No step takes a counter below zero (it would wrap to 2^64 - 1 and the   *)
(* node would look nonzero forever): every decrement of a node, by a       *)
(* Depart or by the compensation in Arrive, is matched by an earlier       *)
(* increment, under any interleaving.                                      *)
NoCounterUnderflow ==
    [][\A n \in Nodes : X[n] = 0 => X'[n] # CounterMod - 1]_vars

(* Every Arrive and Depart call returns: the CAS loops cannot spin forever *)
(* once the client threads stop calling, and the announce spin is bounded. *)
CallsReturn == \A t \in Threads : op[t] # "idle" ~> op[t] = "idle"

=============================================================================
