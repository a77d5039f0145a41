SPECIFICATION Spec
CONSTANTS
    Types <- MCTypes
    Registry <- MCRegistry
    Blocks <- MCBlocks
INVARIANTS
    TypeOK
    LeavesDisjoint
    EvenStarts
    PaddingIsMinimal
    ContainersHold
CHECK_DEADLOCK FALSE
