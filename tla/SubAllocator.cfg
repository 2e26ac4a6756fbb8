\* Three pages of two bytes; fixed requests end in the block they start in.
SPECIFICATION Spec
CONSTANTS
    TotalSize = 6
    PageSize = 2
    Word = 32
    MayOverrun = FALSE
INVARIANTS Tiling Coalesced
PROPERTIES ImplementsPool
