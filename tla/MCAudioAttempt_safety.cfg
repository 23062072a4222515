SPECIFICATION Spec
CONSTANTS
    drums = drums
    vocals = vocals
    c1 = c1
    c2 = c2
    Stems <- TwoStems
    Cleaners <- OneCleaner
    Prompt <- AllPrompt
    MaxFaults = 1
SYMMETRY Symmetry
INVARIANTS
    TypeOK
    ReadyIsWhole
PROPERTIES
    AppearsWhole
