\* semi_contention_handling_snzi, K = 2, H = 2, three threads on leaves 3, 4, 5.
\* Leaves 3 and 4 share parent 1, raised and lowered by threads 0 and 1: nested
\* propagation (leaf -> node 1 -> root) racing thread 2 (leaf 5 -> node 2 -> root).
CONSTANTS
    K = 2
    H = 2
    T = 3
    Variant = "semi_contention"
    DelayAmount = 2
    MaxContentionNumFailures = 2
    CounterBits = 3
    MaxArrivals = 1
    MaxOutstanding = 1
    Endless = FALSE
    SpuriousCasFailure = FALSE

SPECIFICATION Spec

INVARIANT TypeOK
INVARIANT QueryLinearizable
INVARIANT QuiescentPresence
PROPERTY NoCounterUnderflow
PROPERTY CallsReturn
