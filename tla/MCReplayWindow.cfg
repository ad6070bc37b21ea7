CONSTANTS
    Width = 3
    MaxSequence = 8
    Sequence <- MCSequence
SPECIFICATION Spec
INVARIANTS WindowExact
PROPERTIES ImplementsFilter
