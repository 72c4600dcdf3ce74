CONSTANTS
    Width = 8
    Types <- MCTypes
    Symbols <- MCSymbols
    Signatures <- MCSignatures
    Functions <- MCSignatures
    Registers <- MCRegisters
    Image <- MCImage
    Home <- MCHome
    Objects <- MCObjects
    Block <- MCBlock
    Suites <- MCSuites
    Level = 3
    pe_bounds_check = TRUE
    Liberties = {}

SPECIFICATION Spec

INVARIANTS TypeOK StackIsBalanced
PROPERTIES ImplementsMeaning Finishes
CHECK_DEADLOCK FALSE
