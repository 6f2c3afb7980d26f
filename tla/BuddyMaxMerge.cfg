CONSTANTS
    NPAGES = 5
    MAX_ORDER = 1
    Threads = {t1}
    ReqPages <- MCReqPages
    MinReq <- MCMinReq
    MinMin <- MCMinMin
SPECIFICATION Spec
INVARIANT FreeSizeExact
