\* A second free of a block, or a free of a page inside one, with the buddy_core constants
CONSTANTS
    NPAGES = 7
    MAX_ORDER = 2
    Threads = {}
    ReqPages <- MCReqPages
    MinReq <- MCMinReq
    MinMin <- MCMinMin
SPECIFICATION StraySpec
INVARIANT BlocksTile
