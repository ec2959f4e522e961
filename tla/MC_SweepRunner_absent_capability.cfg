SPECIFICATION Spec
CONSTANTS
    Level <- MCLevel
    Order <- MCShortOrder
INVARIANTS
    AbsentCapabilityIsUnsupported
