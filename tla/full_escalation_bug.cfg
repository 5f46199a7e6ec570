\* full_contention_handling_snzi, K = 2, H = 1, three threads, a client may hold
\* two arrivals at once (spec.md S5 does so), and the code's escalation threshold
\* MaxContentionNumFailures = 5.  A thread that escalates while it still holds a
\* direct arrival departs it through the tree.
CONSTANTS
    K = 2
    H = 1
    T = 3
    Variant = "full_contention"
    DelayAmount = 2
    MaxContentionNumFailures = 5
    CounterBits = 3
    MaxArrivals = 2
    MaxOutstanding = 2
    Endless = FALSE
    SpuriousCasFailure = FALSE

SPECIFICATION Spec

INVARIANT QueryLinearizable
