\* Every grader over its small cases.
CONSTANTS
    None = None
    Rich = Rich
SPECIFICATION Spec
INVARIANTS
    VerdictsAreRight
PROPERTIES
    VerdictsAreStable
CHECK_DEADLOCK FALSE
