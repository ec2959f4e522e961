SPECIFICATION OutputSpec
CONSTANTS
    Publisher = {p1, p2, p3}
    Nobody = nobody
CHECK_DEADLOCK FALSE
SYMMETRY PublisherSymmetry
PROPERTIES
    ImplementsRunStore
