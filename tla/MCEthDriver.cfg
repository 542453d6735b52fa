SPECIFICATION Spec
CONSTANTS
    Rom <- MCRom
    IntRam0 = 83886080
    MaxIn = 3
    MaxOut = 2
INVARIANTS
    FramesConserved
PROPERTIES
    FramesIntact
    Drained
