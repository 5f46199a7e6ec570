\* full_contention_handling_snzi, K = 2, H = 1, a single thread that may hold two
\* arrivals at once, the code's escalation threshold MaxContentionNumFailures = 5,
\* and compare_exchange_weak allowed to fail spuriously (an LL/SC machine).  No
\* other thread ever touches the root, yet ArriveDirectly counts five failures,
\* escalates, and the thread departs a direct arrival through its leaf.
CONSTANTS
    K = 2
    H = 1
    T = 1
    Variant = "full_contention"
    DelayAmount = 2
    MaxContentionNumFailures = 5
    CounterBits = 3
    MaxArrivals = 2
    MaxOutstanding = 2
    Endless = FALSE
    SpuriousCasFailure = TRUE

SPECIFICATION Spec

INVARIANT QueryLinearizable
