CONSTANTS
    NPAGES = 7
    MAX_ORDER = 2
    Threads = {t1}
    ReqPages <- MCReqPages
    MinReq <- MCMinReq
    MinMin <- MCMinMin
SPECIFICATION Spec
INVARIANTS
    TypeOK
    NoCorruption
    BlocksTile
    FreeSizeExact
    OrderDeducible
    BuddyBalance
    AvailQueries
PROPERTIES
    AllocMinReturns
    AbstractSpec
