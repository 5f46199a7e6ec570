\* stamped_counter with W = 2 bits per part (value_type of 4 bits): every
\* packed value, operands 0 (division by zero), 1, 2 (a shift by W, undefined)
\* and 3 (the largest part value, so that +, -, * wrap).
CONSTANTS
    W = 2
    Args = {0, 1, 2, 3}

SPECIFICATION Spec

PROPERTY StampedCounterRefinement
