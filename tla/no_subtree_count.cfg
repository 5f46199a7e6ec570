\* no_contention_handling_snzi, K = 2, H = 2, one thread on leaf 3 that holds
\* two arrivals at once: the leaf counts 2, its parent (node 1) counts 1.
CONSTANTS
    K = 2
    H = 2
    T = 1
    Variant = "no_contention"
    DelayAmount = 2
    MaxContentionNumFailures = 2
    CounterBits = 3
    MaxArrivals = 2
    MaxOutstanding = 2
    Endless = FALSE
    SpuriousCasFailure = FALSE

SPECIFICATION Spec

INVARIANT QuiescentSubtreeSurplus
