SPECIFICATION Spec
CONSTANTS
    h1 = h1
    h2 = h2
    h3 = h3
    Isrs = {h1, h2, h3}
    Ipls = {4, 5}
    Priorities = {0, 1, 2}
INVARIANTS ByPriority
CHECK_DEADLOCK FALSE
