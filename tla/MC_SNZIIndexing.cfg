CONSTANTS
    Arities = {2, 3, 4}
    Heights = {0, 1, 2, 3}
    ThreadNums = {1, 2, 3, 4, 5, 6, 7, 8, 9}

SPECIFICATION Spec

INVARIANT TreeShapeMatches
INVARIANT LeafAssignmentLinear
