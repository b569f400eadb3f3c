SPECIFICATION MainSpec
CONSTANTS
    KbPerGb = 18
    SmallKb = 4
    LargeGb = 3
    TestSizes <- MCSizes
    MaxCreateFailures = 2
    MaxAllocFailures = 1
    Machines <- MCMachines
    BankSizes <- MCBankSizes
    MaxSpacing = 2
    TotalLoads = 100
    Runs <- MCRuns
INVARIANTS
    MainTypeOK
    ReadsLiveMemory
    ReportsCountTheWork
    ResultsAreOwn
    MeasuresTheMethod
    CodeIsWritten
PROPERTIES
    MainEnds
