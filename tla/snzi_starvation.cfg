\* semi_contention_handling_snzi, K = 2, H = 1, threads 0 and 1 share leaf 1,
\* clients loop Arrive; Depart without end as the benchmark's thread_job does.
\* Every thread in a call is scheduled infinitely often (weak fairness).
CONSTANTS
    K = 2
    H = 1
    T = 3
    Variant = "semi_contention"
    DelayAmount = 2
    MaxContentionNumFailures = 2
    CounterBits = 3
    MaxArrivals = 1
    MaxOutstanding = 1
    Endless = TRUE
    SpuriousCasFailure = FALSE

SPECIFICATION Spec

PROPERTY CallsReturn
