SPECIFICATION FairSpec
CONSTANTS
    drums = drums
    vocals = vocals
    c1 = c1
    c2 = c2
    Stems <- OneStem
    Cleaners <- OneCleaner
    Prompt <- AllPrompt
    MaxFaults = 1
PROPERTIES
    FilesSettle
