CONSTANTS
    Word = 3
    MaxResources = 24
    WrittenInts <- MCWritten
SPECIFICATION Spec
INVARIANTS
    IInv
    HeapOwned
    DeclaredIsServed
    ReadsDeclaredType
    FirmwareReport
PROPERTY WriteReadsBack
