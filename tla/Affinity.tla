------------------------------ MODULE Affinity ------------------------------
(***************************************************************************)
(* concurrent::affinity of src/affinity.hpp and the benchmark harness of  *)
(* src/snzi_perf_eval_semi_contention.cpp: main runs                       *)
(* run_experiment_for_tree for each (K, H) and then writes the table of   *)
(* throughputs; run_experiment_for_tree starts and pins the threads of    *)
(* each experiment, releases them and joins them.  For every entry         *)
(* of num_threads[] = {1, ..., 8} the harness starts threads 0 .. n-1 and  *)
(* pins each as it is created, then joins them all.  The compiled call     *)
(* (line 181) pins id to id % hardware_concurrency(); the call left        *)
(* commented out next to it (line 182) uses the hand-written table of the *)
(* i7-2600K, the form spec.md describes.  Both builds are checked: which   *)
(* one runs, and on which machine, is fixed in the initial state.  Before  *)
(* each experiment the harness clears the caches (profile.hpp).            *)
(***************************************************************************)
EXTENDS Integers, Sequences, FiniteSets

CONSTANT
    Machines      \* hardware_concurrency() of the machines: CPUs 0 .. n-1

ASSUME Machines \subseteq Nat

(* num_threads[]: the thread counts of the experiments, in order.          *)
NumThreads == <<1, 2, 3, 4, 5, 6, 7, 8>>

(* Fault model: a row of the table copied from the one above and edited  *)
(* in one place only.                                                      *)
CoreTableRowCopy ==
    << <<0>>, <<0, 4>>, <<0, 2, 4>>, <<0, 2, 4, 4>>, <<0, 1, 2, 4, 6>>,
       <<0, 1, 2, 4, 5, 6>>, <<0, 1, 2, 3, 4, 5, 6>>, <<0, 1, 2, 3, 4, 5, 6, 7>> >>

(* Fault model: the five-thread row uses the last CPU, as the eight-thread *)
(* row does, instead of one the six-thread row keeps.                      *)
CoreTableLastCpu ==
    << <<0>>, <<0, 4>>, <<0, 2, 4>>, <<0, 2, 4, 6>>, <<0, 1, 2, 4, 7>>,
       <<0, 1, 2, 4, 5, 6>>, <<0, 1, 2, 3, 4, 5, 6>>, <<0, 1, 2, 3, 4, 5, 6, 7>> >>

(* operator()(int num_threads, int id, pthread_t): the core of id for      *)
(* each supported num_threads, cores listed by id.                         *)
CoreTable ==
    << <<0>>, <<0, 4>>, <<0, 2, 4>>, <<0, 2, 4, 6>>, <<0, 1, 2, 4, 6>>,
       <<0, 1, 2, 4, 5, 6>>, <<0, 1, 2, 3, 4, 5, 6>>, <<0, 1, 2, 3, 4, 5, 6, 7>> >>

(* The table's switch has a case for num_threads n and id: otherwise it   *)
(* reaches an assert.                                                      *)
HasCase(n, id) == n \in 1 .. Len(CoreTable) /\ id < n

NoCore == -1

(* With the asserts compiled out (NDEBUG), a missing case still pins core *)
(* 0 for num_threads 1 (assert(id == 0), then the pin of CPU 0) and pins   *)
(* nothing in the default branches.                                        *)
NdebugCore(n) == IF n = 1 THEN 0 ELSE NoCore

(* main's K[] and H[]: the (K, H) settings, one call of                   *)
(* run_experiment_for_tree each.                                           *)
KH == << <<2, 0>>, <<2, 1>>, <<2, 2>>, <<4, 1>> >>

VARIABLES
    hc,       \* the machine's hardware_concurrency()
    byTable,  \* the build pins by the table (line 182), not modulo (181)
    param,    \* index into KH of the running run_experiment_for_tree
    data,     \* data[j][i]: the throughput cell is a measured value
    exp,      \* index into num_threads[] of the running experiment
    stage,    \* where the main thread is
    next,     \* the id of the next thread to start
    pinned,   \* pinned[id]: the core thread id of this experiment runs on
    flag,     \* the std::atomic<bool> the threads wait on before visiting
    phase,    \* phase[id]: where thread id is in thread_job
    prev,     \* the cores the previous experiment's threads ran on
    failed    \* "none", or how the harness ended: "assert", "throw", "trap"

vars == <<hc, byTable, param, data, exp, stage, next, pinned, flag, phase, prev, failed>>

Ids == 0 .. Len(NumThreads) - 1
N == NumThreads[exp]
Running == failed = "none" /\ stage # "end"

(* The core the harness asks for when it pins thread id of an n-thread     *)
(* experiment.                                                             *)
PinCore(n, id) == IF byTable THEN CoreTable[n][id + 1] ELSE id % hc

(* main: data.resize(num_parameters) gives one empty vector per (K, H).    *)
Init ==
    /\ hc \in Machines /\ byTable \in BOOLEAN
    /\ param = 1 /\ data = [j \in 1 .. Len(KH) |-> <<>>]
    /\ exp = 1 /\ stage = "begin" /\ next = 0 /\ pinned = [id \in Ids |-> NoCore]
    /\ flag = FALSE /\ phase = [id \in Ids |-> "none"]
    /\ prev = {} /\ failed = "none"

(* Fault model: all_visits is not resized before the experiments write   *)
(* their results into it.                                                  *)
BeginRunNoResize ==
    /\ Running /\ stage = "begin"
    /\ flag' \in BOOLEAN
    /\ exp' = 1 /\ prev' = {} /\ stage' = "wipe"
    /\ UNCHANGED <<hc, byTable, param, data, next, pinned, phase, failed>>

(* run_experiment_for_tree(K, H, data[param]): a fresh std::atomic<bool>  *)
(* flag without an initializer, so its value is whatever the build leaves  *)
(* there; num_cores; all_visits.resize(num_threads_count), zero-filled.    *)
BeginRun ==
    /\ Running /\ stage = "begin"
    /\ flag' \in BOOLEAN
    /\ data' = [data EXCEPT ![param] = [i \in 1 .. Len(NumThreads) |-> FALSE]]
    /\ exp' = 1 /\ prev' = {} /\ stage' = "wipe"
    /\ UNCHANGED <<hc, byTable, param, next, pinned, phase, failed>>

(* The experiments of this (K, H) are done: main's loop goes on to the     *)
(* next setting, or to writing the data file.                              *)
NextParam ==
    /\ Running /\ stage = "wipe" /\ exp > Len(NumThreads)
    /\ param' = param + 1
    /\ stage' = IF param < Len(KH) THEN "begin" ELSE "write"
    /\ UNCHANGED <<hc, byTable, data, exp, next, pinned, flag, phase, prev, failed>>

(* The output loop reads data[j][i] for every thread count i and every   *)
(* setting j and writes it to snzi-semi-contention.dat.                    *)
WriteData ==
    /\ Running /\ stage = "write"
    /\ stage' = "end"
    /\ UNCHANGED <<hc, byTable, param, data, exp, next, pinned, flag, phase, prev, failed>>

(* operator()(int core, pthread_t): CPU_SET(core) and                      *)
(* pthread_setaffinity_np, which fails for a CPU the machine does not      *)
(* have; the failure is thrown as std::runtime_error, which nothing in     *)
(* the harness catches.                                                    *)
SetAffinity(id, core) ==
    IF core \in 0 .. hc - 1
       THEN pinned' = [pinned EXCEPT ![id] = core] /\ UNCHANGED failed
       ELSE failed' = "throw" /\ UNCHANGED pinned

(* cache_wiper::clear_caches(): assert(hardware_threads >= 1), then one   *)
(* wiper thread per hardware context, each pinning itself to its own core  *)
(* (one the machine has) and reading 8 M words, all joined.                *)
ClearCaches ==
    /\ Running /\ stage = "wipe" /\ exp <= Len(NumThreads)
    /\ IF hc = 0 THEN failed' \in {"assert", "none"} ELSE UNCHANGED failed
    /\ stage' = "setup"
    /\ UNCHANGED <<hc, byTable, param, data, exp, next, pinned, flag, phase, prev>>

(* Fault model: the flag of the previous experiment is left as it was.     *)
SetupNoReset ==
    /\ Running /\ stage = "setup"
    /\ stage' = "start"
    /\ UNCHANGED <<hc, byTable, param, data, exp, next, pinned, flag, phase, prev, failed>>

(* Construct the SNZI object of this experiment, flag = false, and the     *)
(* vectors of threads and visits.                                          *)
Setup ==
    /\ Running /\ stage = "setup"
    /\ flag' = FALSE /\ stage' = "start"
    /\ UNCHANGED <<hc, byTable, param, data, exp, next, pinned, phase, prev, failed>>

(* std::thread t{thread_job, ...}; threads.push_back; aff_setter(...): the *)
(* thread runs from its creation, before it is pinned.  id % num_cores     *)
(* with num_cores = 0 divides by zero (SIGFPE).                            *)
StartThread ==
    /\ Running /\ stage = "start" /\ next < N
    /\ CASE byTable /\ ~HasCase(N, next) ->
              \E ndebug \in BOOLEAN :
                 IF ~ndebug THEN failed' = "assert" /\ UNCHANGED pinned
                 ELSE IF NdebugCore(N) = NoCore THEN UNCHANGED <<pinned, failed>>
                 ELSE SetAffinity(next, NdebugCore(N))
         [] ~byTable /\ hc = 0 -> failed' = "trap" /\ UNCHANGED pinned
         [] OTHER -> SetAffinity(next, PinCore(N, next))
    /\ phase' = [phase EXCEPT ![next] = "wait"]
    /\ next' = next + 1
    /\ UNCHANGED <<hc, byTable, param, data, exp, stage, flag, prev>>

(* Fault model: the threads are joined before they are told to start.     *)
ReleaseAfterJoin ==
    /\ Running /\ stage = "start" /\ next = N
    /\ \A id \in 0 .. N - 1 : phase[id] = "done"
    /\ flag' = TRUE /\ stage' = "join"
    /\ UNCHANGED <<hc, byTable, param, data, exp, next, pinned, phase, prev, failed>>

(* flag = true: every thread has been started; tell them to start.         *)
Release ==
    /\ Running /\ stage = "start" /\ next = N
    /\ flag' = TRUE /\ stage' = "join"
    /\ UNCHANGED <<hc, byTable, param, data, exp, next, pinned, phase, prev, failed>>

(* thread_job: end_time = now() + duration; while (!flag.load()){};        *)
(* visits = 0.  The visit loop may run no round at all if end_time has    *)
(* already passed.                                                         *)
ThreadGo(id) ==
    /\ failed = "none" /\ phase[id] = "wait" /\ flag
    /\ \E p \in {"visit", "done"} : phase' = [phase EXCEPT ![id] = p]
    /\ UNCHANGED <<hc, byTable, param, data, exp, stage, next, pinned, flag, prev, failed>>

(* while (now() < end_time) { Arrive; Depart; Query; ++visits; }: the      *)
(* clock passes end_time and the thread returns.                           *)
ThreadEnd(id) ==
    /\ failed = "none" /\ phase[id] = "visit"
    /\ phase' = [phase EXCEPT ![id] = "done"]
    /\ UNCHANGED <<hc, byTable, param, data, exp, stage, next, pinned, flag, prev, failed>>

(* Join every thread; all_visits[i] = the mean throughput; on to the next *)
(* thread count.                                                           *)
JoinAll ==
    /\ Running /\ stage = "join"
    /\ \A id \in 0 .. N - 1 : phase[id] = "done"
    /\ data' = [data EXCEPT ![param][exp] = TRUE]
    /\ prev' = {pinned[id] : id \in 0 .. N - 1} \ {NoCore}
    /\ exp' = exp + 1 /\ next' = 0 /\ stage' = "wipe"
    /\ pinned' = [id \in Ids |-> NoCore] /\ phase' = [id \in Ids |-> "none"]
    /\ UNCHANGED <<hc, byTable, param, flag, failed>>

(* Every experiment has run, or the harness has ended.                     *)
Done == ~Running /\ UNCHANGED vars

Main == BeginRun \/ ClearCaches \/ Setup \/ StartThread \/ Release \/ JoinAll \/ NextParam \/ WriteData

Next == Main \/ (\E id \in Ids : ThreadGo(id) \/ ThreadEnd(id)) \/ Done

(* The OS keeps scheduling the main thread and every worker; the system   *)
(* clock keeps advancing, so each visit loop reaches its end_time.         *)
Spec == Init /\ [][Next]_vars /\ WF_vars(Main)
        /\ \A id \in Ids : WF_vars(ThreadGo(id)) /\ WF_vars(ThreadEnd(id))

-----------------------------------------------------------------------------
(* Properties                                                              *)

(* Started == the ids of the running experiment already started.           *)
Started == 0 .. next - 1

(* No two threads of one experiment share a CPU, so the measured           *)
(* throughput of n threads is that of n hardware contexts, and every       *)
(* thread is pinned (no id falls through the table to assert(0)) to a CPU  *)
(* the machine has (no runtime_error from pthread_setaffinity_np).         *)
PinnedDistinct ==
    /\ failed = "none"
    /\ \A i, j \in Started : i # j => pinned[i] # pinned[j] /\ pinned[i] # NoCore

(* The benchmark comment on the (K, H) settings reasons per cache level   *)
(* on the thread counts 4 .. 8 as one growing set of CPUs: once every      *)
(* thread of an experiment is pinned, its CPUs include all those of the    *)
(* experiment with one thread fewer, so each step adds one CPU and moves   *)
(* no cache sharing that was measured before.                              *)
CoresGrow ==
    exp <= Len(NumThreads) /\ next = N =>
        prev \subseteq {pinned[id] : id \in 0 .. N - 1}

(* thread_job visits the SNZI object only after the main thread has set   *)
(* the flag, and the flag is set only once every thread of the experiment  *)
(* has been started and pinned and is reset before the next experiment     *)
(* starts its threads: no visit runs while a thread of the same experiment *)
(* is still unpinned or not yet created, so each data point measures N     *)
(* pinned threads.                                                         *)
VisitOnlyWhenAllPinned ==
    \A id \in Ids : phase[id] = "visit" =>
        next = N /\ \A i \in 0 .. N - 1 : pinned[i] # NoCore

(* The harness finishes (or ends by a failure): the main thread releases  *)
(* the threads before it joins them, every thread leaves its wait and its  *)
(* visit loop, and every experiment is joined.                             *)
HarnessEnds == <>~Running

(* When main writes the data file, every cell it reads, data[j][i] for    *)
(* each (K, H) j and thread count i, lies inside the vector and holds the *)
(* mean throughput of an experiment that ran to its join: every           *)
(* run_experiment_for_tree resized its own vector and every experiment    *)
(* stored its result at its own index.                                     *)
DataComplete ==
    stage = "end" =>
        \A j \in 1 .. Len(KH), i \in 1 .. Len(NumThreads) :
            i \in DOMAIN data[j] /\ data[j][i]

=============================================================================
