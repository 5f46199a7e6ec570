\* full_contention_handling_snzi, K = 2, H = 1, three threads (0 and 1 on leaf 1,
\* 2 on leaf 2), each alternating Arrive and Depart twice as the benchmark loop
\* does.  Two CAS failures in one ArriveDirectly escalate a thread (code: 5), so
\* threads start on the direct root path and move to the tree while others are
\* still on the root.
CONSTANTS
    K = 2
    H = 1
    T = 3
    Variant = "full_contention"
    DelayAmount = 2
    MaxContentionNumFailures = 2
    CounterBits = 3
    MaxArrivals = 2
    MaxOutstanding = 1
    Endless = FALSE
    SpuriousCasFailure = TRUE

SPECIFICATION Spec

INVARIANT TypeOK
INVARIANT QueryLinearizable
INVARIANT QuiescentPresence
PROPERTY NoCounterUnderflow
PROPERTY CallsReturn
