\* The harness as compiled (pinning by id % hardware_concurrency()) and with
\* the affinity table, on the i7-2600K it was written for (8 logical CPUs)
\* and on a 16-CPU machine; all eight experiments, 1 to 8 threads.
CONSTANT
    Machines = {8, 16}

SPECIFICATION Spec

INVARIANT PinnedDistinct
INVARIANT CoresGrow
INVARIANT VisitOnlyWhenAllPinned
PROPERTY HarnessEnds
INVARIANT DataComplete
