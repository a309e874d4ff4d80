SPECIFICATION Spec

CONSTANT PathLength = {100, 1000, 1048}

INVARIANTS
    TypeOK
    LeavesARevision
    HeadIsModels
    RetriesSucceed
    IInv
