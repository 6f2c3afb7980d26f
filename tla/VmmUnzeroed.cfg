\* vm_ptab_create without VM_ZERO_PAGES: a new page table keeps the
\* free-list links rmm_freepages left in its first two entries.
CONSTANTS
    PAGE_SIZE_BITS = 2
    VM_ADDR_BITS = 4
    VM_ADDR_MAX = 15
    VM_PTAB_LEVELS = 2
    VM_PTAB_BITS = 1
    VM_CACHE_LEN = 2
    WORD_BITS = 8
    HOST_BASE = 1
    NHOST = 5
    LINK = 200
    ZERO_PAGES = FALSE
    OTHER_MAX = 1
    Threads <- MCThreads
    VAddrs <- MCVAddrs
    Sizes = {1, 2}
    Values = {1, 2}
SPECIFICATION Spec
CHECK_DEADLOCK FALSE
INVARIANT AccessSound
