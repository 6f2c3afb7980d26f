\* rmm_create over every base in one page and every size up to 200 bytes,
\* with 8-byte pages, MAX_ORDER 2 and a 12-byte, 4-aligned rmm_t.  The
\* model is of one call: after it there is nothing left to do.
CONSTANTS
    PAGE_SIZE = 8
    MAX_ORDER = 2
    RMM_SIZE = 12
    RMM_ALIGN = 4
    Bases <- MCBases
    MemSizes <- MCMemSizes
SPECIFICATION Spec
CHECK_DEADLOCK FALSE
INVARIANTS
    TypeOK
    LayoutDisjoint
    BitsetsCover
