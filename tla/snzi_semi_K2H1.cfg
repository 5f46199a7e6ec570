\* semi_contention_handling_snzi, K = 2, H = 1, three threads: threads 0 and 1
\* share leaf 1, thread 2 is alone on leaf 2, both leaves propagate to the root.
CONSTANTS
    K = 2
    H = 1
    T = 3
    Variant = "semi_contention"
    DelayAmount = 2
    MaxContentionNumFailures = 2
    CounterBits = 3
    MaxArrivals = 2
    MaxOutstanding = 2
    Endless = FALSE
    SpuriousCasFailure = FALSE

SPECIFICATION Spec

INVARIANT TypeOK
INVARIANT QueryLinearizable
INVARIANT QuiescentPresence
PROPERTY NoCounterUnderflow
PROPERTY CallsReturn
