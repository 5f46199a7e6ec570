# TLA+ models of the Scalable Non-Zero Indicator (SNZI) in C++11

This directory holds TLA+ models of `src/` and the TLC configurations that check
them. Every action is translated from the code. `PROJECT.json` maps each
definition to the source lines it models and lists the runs, their mutants,
the findings and the hazards.

## The system

| Part | Source | What it does |
|---|---|---|
| SNZI node protocol | `src/snzi.hpp` `node::Arrive`, `node::Depart` (three copies: lines 83-129, 331-396, 631-696) | Each non-root node holds an unsigned 64-bit counter `X`. Arrive raises it by CAS and propagates an Arrive to the parent only on a 0→1 transition (parent first, then the CAS; a propagation that turns out unnecessary is undone by a parent Depart). Depart lowers it by CAS and propagates a Depart on a 1→0 transition. |
| Announce flag (semi and full classes) | lines 322, 337-359, 379-381 | Before propagating, an Arrive that sees `announce` set spins up to 16 re-reads waiting for another thread to raise the node. Then it sets `announce` and propagates. A Depart that expects 1→0 clears `announce` before its strong CAS. |
| Root node | lines 52-71, 298-317, 573-617 | `fetch_add` / `fetch_sub`; `Query` is `X != 0`. The full class adds `ArriveDirectly` (a CAS loop that counts failures and sets `use_snzi_tree_flag` at 5) and `DepartDirectly` (`fetch_sub`, then, if the flag is set, switch both of the thread's paths to the tree for good). |
| Facades | lines 189-226, 456-493, 756-802 | `Arrive(tid)` and `Depart(tid)` go to the thread's leaf, or to the root when H = 0. The full class takes the direct root path until the thread's `contention_status` escalates. |
| Tree construction and indexing | lines 152-182, 243-288 (repeated twice more) | A perfect K-ary tree of height H in level order. `parent(i) = (i-1)/K`. Thread `tid` goes to leaf `n - l + (tid / ceil(T/l)) mod l`. |
| `exponential_backoff` | `src/backoff.hpp` | Spins 1, 2, 4, … pauses while `tries <= 16`, then yields. SNZI uses it only to delay. |
| `stamped_counter` | `src/stamped_counter.hpp` | A 64-bit value packing a 32-bit stamp (high half) and a 32-bit counter (low half). Proxy references apply every arithmetic operator to one half. It is not used by SNZI. |
| Benchmark | `src/snzi_perf_eval_semi_contention.cpp` | `main` calls `run_experiment_for_tree` for four (K, H) settings and then writes a table of throughputs. Each call runs one experiment per thread count 1..8: clear the caches, build a semi-contention SNZI, reset the start flag, start and pin the threads, set the flag, join them. Each thread loops `Arrive; Depart; Query` until its deadline. |
| Affinity | `src/affinity.hpp` | `operator()(core, tid)` pins a thread through `pthread_setaffinity_np` and throws `runtime_error` on failure. `operator()(num_threads, id, tid)` is a hand-written table of cores for 1..8 threads on an i7-2600K, with `assert(0)` for any other input. The harness compiles the modulo pin `id % hardware_concurrency()` (line 181); the table call is commented out (line 182). |
| Cache wiper | `src/profile.hpp` | `clear_caches()` asserts `hardware_concurrency() >= 1`, then runs one wiper thread per hardware context. Each wiper pins itself to its core and reads a 64 MB buffer. |

The parts interact as follows:
- A thread's call walks leaf → parent → … → root. It is interleaved with every other thread's walk at each atomic access.
- A node's `Arrive` calls the parent's `Arrive` or `Depart` in the middle of its own CAS loop.
- `Query` reads only the root.

## Modules

| Module | Models |
|---|---|
| `SNZIIndexing` | The tree arithmetic as pure operators (`pow_int` is RECURSIVE). |
| `MC_SNZIIndexing` | Checks that arithmetic against a reference tree built from paths (`RefNodes`, `RefDepth`) for K ∈ {2,3,4}, H ∈ 0..3, T ∈ 1..9. |
| `SNZI` | All three SNZI classes, selected by the constant `Variant`. |
| `MC_SNZI` | Extends `SNZI`; each `snzi_*.cfg` is one instance. |
| `StampedCounterSpec` | The abstract contract of `stamped_counter`: two separate wrapping W-bit parts. Each call is tagged with its operand's origin: a value, or the stamp or counter of the same object (`s<-c` is `sc.stamp() op= sc.counter()`). Equality is compared against both fields. |
| `Affinity` | The benchmark harness and its worker threads. `main` is `BeginRun` (the fresh `flag`, `all_visits.resize`), `NextParam` (the loop over `KH`) and `WriteData`. Each experiment's main thread runs `ClearCaches`, then `Setup` (construct the SNZI object, `flag = false`), then `StartThread` (start and pin, by table or by modulo; a table miss either asserts or, with `NDEBUG`, falls through: for one thread the code still pins CPU 0 after `assert(id == 0)`), then `Release` (`flag = true`), then `JoinAll` (join, store the result in `data[param][exp]`). Each worker runs `ThreadGo` (the spin on `flag`) and then `ThreadEnd` (its visit loop reaches `end_time`). The module also models both `affinity` operators and `clear_caches`. Each call's `flag` starts at either value: it is a local `std::atomic<bool>` without an initializer. A data cell is a flag saying whether it holds a measured value; the throughput arithmetic and the file layout are left out. |
| `StampedCounter` | The packed implementation, with `Abs == INSTANCE StampedCounterSpec WITH stamp <- extract_stamp(value), counter <- extract_counter(value)`. Each overload that takes a reference is called on a part of the same object (`PartOf(value, src)`), which is the aliasing case. `Equals` models `operator==` / `operator!=` on the packed value. |

### How `SNZI` corresponds to the code

**State.**
- `X[n]`: `root.X` for n = 0, `others[n].X` otherwise.
- `announce[n]`: the announce flags.
- `status[t]`: the thread's `contention_status`.
- `stack[t]`: thread t's active calls, top first. A frame holds the function, the node, a program counter, and the locals `oldx`, `pArrInv`, `i` (announce spin) and `fails` (`num_failures`).
- `op`, `outstanding` and `arrivals` describe the client. `direct` is a history variable: the outstanding arrivals a thread made by `ArriveDirectly`.

**Steps.** Each atomic access is one action:
- `ArriveLoad`, `ArriveCheckAnnounce`, `ArriveDelay`, `ArriveAnnounce`, `ArriveCallParent`, `ArriveCasOk`, `ArriveCasFail`, `ArriveUndo`.
- `DepartLoad`, `DepartClear`, `DepartCasOk`, `DepartCasFail`, `DepartCallParent`.
- `ArriveDirectlyLoad`, `ArriveDirectlyCasOk`, `ArriveDirectlyCasFail`.

**Calls between nodes.**
- A call to a non-root parent pushes a frame.
- A call to the root is one `fetch_add`/`fetch_sub`, done inside the caller's step.
- A Depart that is the caller's last statement replaces the caller's frame. These are the compensating Depart and the propagating Depart.

**Facade calls and the client.** `Arrive(t)` and `Depart(t)` are the facade calls. The client follows the benchmark's `thread_job`: a thread calls Depart only for an Arrive it completed. It holds at most `MaxOutstanding` arrivals at once. It makes at most `MaxArrivals` arrivals. With `Endless = TRUE` it calls without end, as `thread_job` does until its deadline.

**Abstractions.**
- **Spurious failures of `compare_exchange_weak` are not separate steps.** In every node loop such a failure reloads the value `oldx` already holds and re-enters the loop where the branch is not taken, so it leaves the state unchanged. In `ArriveDirectly` such a failure also raises `num_failures`. On x86, the benchmark's target, a weak CAS never fails spuriously, so the constant `SpuriousCasFailure` adds these failures only for a weak-CAS (LL/SC) build. When it is `TRUE`, `ArriveDirectlyCasFail` may fail while `X = oldx`. Once the count reaches the threshold, such a failure leaves the state unchanged, so weak fairness of `Step` still forces the successful CAS. Every SNZI cfg sets the constant.
- **Counter width.** Counters are taken modulo 2^`CounterBits`, so an underflow shows as a wrap.

### Fairness

`Spec` has `WF_vars(Step(t))` for each thread: an OS thread inside a call keeps being scheduled. Clients are not obliged to call at all, so `Arrive` and `Depart` carry no fairness. `Finished` is the stuttering step taken once every client has made all its calls. It is the only place the system stops, so deadlock is checked everywhere. With `Endless` clients the system never stops; `snzi_starvation` uses exactly this fairness, so its fair cycle is one the OS scheduler may produce.

`Affinity` has weak fairness on the main thread's steps and on each worker's two steps. The OS keeps scheduling every thread. The system clock keeps advancing, so each visit loop eventually passes its `end_time`. A worker's `ThreadGo` stays enabled once `flag` is set, because the flag is reset only after the join. `Done` is the stuttering end, after the eighth experiment or after the harness died.

## Runs

| Run | Checks | Result |
|---|---|---|
| `indexing` | `TreeShapeMatches`: the node count equals the number of paths; the leaves are the last `leaves_count` indices; each leaf is at depth H. `LeafAssignmentLinear`: each thread gets a leaf in range; the assignment is monotone; no leaf gets more than `threads_per_leaf` threads. | pass |
| `snzi_no_K2H1` | No-contention class, K=2 H=1 T=3 (threads 0 and 1 share leaf 1). Checks `TypeOK`, `QueryLinearizable`, `QuiescentPresence`, `NoCounterUnderflow` and `CallsReturn` (below). | pass, 21k states |
| `snzi_semi_K2H1` | Semi class, same tree, each client holding up to 2 arrivals. | pass, 91k states |
| `snzi_semi_K2H2` | Semi class, height 2, so propagation nests leaf → node 1 → root while thread 2 propagates through node 2. | pass, 18k states |
| `snzi_full_K2H1` | Full class, threshold 2 so that escalation happens, with spurious failures of `ArriveDirectly`'s weak CAS, so threads also escalate without contention. Clients alternate Arrive/Depart as the benchmark does. | pass, 56k states |
| `stamped_counter` | `StampedCounterRefinement`: the packed value refines the two-field contract. | pass, 13.7k states, about 70 s |
| `affinity` | `PinnedDistinct`, `CoresGrow`, `VisitOnlyWhenAllPinned`, `HarnessEnds` and `DataComplete` (below). The whole run of four (K, H) settings is checked on 8- and 16-CPU machines, for both the modulo pin and the table pin. | pass, 158k states |
| `full_escalation_bug` | `QueryLinearizable`, full class with the code's threshold 5 and clients holding 2 arrivals. | **violated** |
| `semi_announce_stale` | `QuiescentAnnounceCleared` in the semi class. | **violated** |
| `no_subtree_count` | `QuiescentSubtreeSurplus` (spec.md §5) in the no-contention class, K=2 H=2. | **violated** |
| `snzi_spurious_escalation` | `QueryLinearizable`, full class with one thread (T = 1) on a weak-CAS build (`SpuriousCasFailure = TRUE`). | **violated** |
| `snzi_starvation` | `CallsReturn` in the semi class with `Endless` clients and weak fairness for every thread in a call. | **violated** |

The SNZI properties:
- **`QueryLinearizable`:** in every state, `Query()` returns false only if no thread holds a completed Arrive it has not begun to Depart. It returns true only if some thread has an Arrive completed or in progress whose Depart has not completed. This is the contract of a nonzero indicator, checked at every point a `Query` could run.
- **`QuiescentPresence`:** when no call is in progress, each leaf counts its threads' tree arrivals, and each inner node counts its nonzero children. The root also counts direct arrivals. No node is announced to its parent twice or not at all.
- **`NoCounterUnderflow`:** an action property. No step takes a counter from 0 to the wrapped maximum.
- **`CallsReturn`:** every Arrive or Depart call returns (`op[t] # "idle" ~> op[t] = "idle"`).

The `Affinity` properties:
- **`PinnedDistinct`:** no two started threads of one experiment share a CPU. Every started thread is pinned: none hits the table's `assert(0)`, a `runtime_error` or a division by zero.
- **`CoresGrow`:** once all threads of an experiment are pinned, its CPUs include those of the experiment with one thread fewer. The benchmark's comment on which (K, H) suits which thread counts relies on this.
- **`VisitOnlyWhenAllPinned`:** a worker is in its visit loop only when every thread of its experiment has been created and pinned. The flag must be reset before each experiment's threads start, because it persists across experiments.
- **`HarnessEnds`:** the harness finishes every experiment, or ends by a failure. The main thread sets the flag before it joins the spinning workers.
- **`DataComplete`:** when `main` writes the file, every cell it reads lies inside its vector and holds the result of an experiment that was joined.

Each property of a passing run has a mutant in `PROJECT.json`: an operator written before the definition it replaces, modelling a plausible bug. Each one makes TLC report the property violated:

| Mutant | Breaks |
|---|---|
| An off-by-one `parent` | `TypeOK`: the call stack outgrows H+1 |
| An Arrive that always undoes its propagation | `QueryLinearizable` |
| A propagation not guarded by `pArrInv` | `QuiescentPresence` |
| A blind `fetch_sub` in place of Depart's CAS | `NoCounterUnderflow` |
| A Depart CAS retried with the stale expected value | `CallsReturn` |
| `nodes_count` without the `- 1` | `TreeShapeMatches` |
| `threads_per_leaf` rounded down | `LeafAssignmentLinear` |
| A copy-pasted `extract_counter` in the stamp operators | `StampedCounterRefinement` |
| A table row copied with a repeated core | `PinnedDistinct` |
| The 5-thread row using CPU 7, which the 6-thread row drops | `CoresGrow` |
| `flag` not reset to false before the next experiment | `VisitOnlyWhenAllPinned` |
| The flag set only after the join | `HarnessEnds` |
| `all_visits` not resized | `DataComplete` |

### Bounds, and why they are enough

- **Tree shape.** K = 2 with H = 1 or 2 gives a shared leaf and, at H = 2, an inner node between leaves and root. Every branch of the protocol happens there: double propagation and its undo, a Depart racing an Arrive on the same node, and nested propagation. Coverage shows every action and disjunct firing.
- **Counters.** `CounterBits = 3` (values 0..7). No reachable count exceeds 4, so a wrap shows only as an underflow.
- **Announce spin.** `DelayAmount = 2` instead of 16: two re-reads already cover "another thread raised the node during the spin" and "the spin ran out".
- **Escalation threshold.** `MaxContentionNumFailures = 2` in the passing full run, so that escalation happens within the bounds. The bug run uses the code's value, 5.
- **Clients.** `MaxArrivals` ≤ 2 per thread.
- **Affinity.** The harness runs in full: four (K, H) settings with eight experiments each, so the flag is carried across experiments and across calls of `run_experiment_for_tree`. The 8-CPU machine is the one the table was written for, and the 16-CPU one shows the modulo pin without wrap-around. All eight workers of the last experiment interleave their wait and visit steps freely.
- **Larger SNZI instances.** K = 3 with 4-5 threads, or the full class with 3 arrivals per thread, take 60-100 s per run. That leaves no margin for their mutants, so the instances above are kept.
- **`stamped_counter`.** W = 2 bits per part. The operands {0, 1, 2, 3} include division by zero, a shift by W (undefined), and the largest part value (wrap). Reference operands are the two parts of the same object, which is the only case where reading the operand and writing the result could interfere.

## Findings

1. **Code bug (full class, `snzi.hpp:598-604`).** `DepartDirectly` escalates both paths as soon as the tree flag is set, even while the thread still holds other direct arrivals.
   - The next Depart of such an arrival goes through the leaf, which is at 0, and wraps it.
   - The root keeps the arrival forever, so `Query()` stays true after everyone has left.
   - A thread holding two arrivals at once reaches it; spec.md S5 has a thread hold three. The benchmark alternates Arrive/Depart and never sees it.
   - On a weak-CAS build no second thread is needed. The `snzi_spurious_escalation` run shows this (see finding 5).
2. **Spec/code divergence (semi and full, `snzi.hpp:379-384`).** An announce flag can stay true with its counter at 0 after all threads are done.
   - This happens when a Depart's clear of the flag races an Arrive that read a stale 0 and set it. The counter goes 1→2→1 in between, so the CAS 1→0 still succeeds: an ABA.
   - spec.md 8.8 and S2 say every flag ends false, and §7 says the design precludes ABA.
   - The effect is only a longer spin in later arrivals.
3. **Spec/code divergence (`snzi.hpp:89`).** spec.md §5 says each non-root counter equals the net arrivals on its subtree at quiescence. Inner nodes count nonzero children instead, which is what `QuiescentPresence` checks.
4. **Spec/code divergence (`snzi.hpp:360`).** spec.md §8 item 9 says every call completes in finitely many steps under a fair scheduler, and the suspension section speaks of bounded CAS retries. The node loops retry without bound.
   - Threads 0 and 1 share a leaf and loop `Arrive; Depart` as `thread_job` does.
   - Thread 1's Arrive CAS can fail on every attempt, although thread 1 is scheduled infinitely often.
   - The calls are lock-free (some call always completes), not wait-free.

5. **Code bug (full class, `snzi.hpp:587`, run `snzi_spurious_escalation`).** `ArriveDirectly` counts every failed `compare_exchange_weak` as contention. On an LL/SC machine a weak CAS may fail with no other thread present.
   - spec.md §3 says repeated CAS contention at the root escalates a thread. With `T = 1` there is none, yet five spurious failures escalate the lone thread.
   - The escalation then meets finding 1: the thread holds a direct arrival, its Depart goes through the leaf, and the root stays at 1. TLC finds it after 53 distinct states.

## Not modelled

- **Memory ordering.** All atomics use the default `seq_cst`, so interleaving semantics is exact.
- **`pow_int` / `nodes_count` overflow of `size_t`.** Only huge trees reach it, and TLC cannot reach it at 64 bits.
- **`exponential_backoff`.** It only delays a thread: it spins or yields and changes no shared state, so no property can tell a call from a stutter. Its cap also differs from the spec (the code yields past 16 pauses, spec.md §4.1 says 2^16), but this changes only timing.
- **The benchmark's clock values, arithmetic and file layout.** The model keeps the control of `main` and of the deadline loop: each thread's loop ends at some point, in any order. It drops the clock values: a thread started early loses part of its window spinning on the flag, but that changes only the throughput figure. The throughput arithmetic and the text written to the file are output only. The wiper's buffer reads only take time.
- **Machines with fewer than 8 CPUs or `hardware_concurrency() == 0`.** `Affinity` models both: the table pin throws, and the modulo pin traps or shares CPUs. The passing run leaves them out because `PinnedDistinct` fails there by construction. They are listed as hazards.
- **The wipers' memory.** Each wiper allocates 64 MiB, and all of them run at once. Whether the allocation fails depends on free memory that nothing in the code reads, so a model could only add an unconditional failure. It is listed as a hazard without a property.
- **Visibility of the constructor's writes.** The constructors say they do not publish themselves. The benchmark constructs each object before it creates the threads that use it, and `std::thread` creation synchronizes with the new thread, so the model starts from the constructed state.
- **An abstract `NonZeroIndicator` with a refinement mapping.** `Query`'s linearization point lies somewhere inside concurrent Arrive and Depart calls and is not a function of the state. A refinement would need prophecy variables, and it would restate what `QueryLinearizable` already checks directly as an interval condition. `stamped_counter` is the component shown to refine an abstract specification.
- **Larger SNZI instances.** The SNZI runs keep the sizes listed under "Bounds". The semi class with K = 3, or the full class with H = 2 or three arrivals per thread, take 60-100 s per run. That leaves no margin for one mutant run per property.
