SPECIFICATION ShaSpec
CONSTANT Sizes <- MCSizes
INVARIANTS
    PaddedRight
PROPERTIES
    HashComes
CHECK_DEADLOCK FALSE
