\* init_mm and test_rmm at the build's constants: 4 KiB pages, MAX_ORDER
\* 20, a 544-byte rmm_t (the figure mem_mm.c gives for MAX_ORDER 20) and
\* the test's 10 MiB region.  test_rmm returns and init_mm with it: the
\* final states have no successor.
CONSTANTS
    PAGE_SIZE = 4096
    MAX_ORDER = 20
    RMM_SIZE = 544
    RMM_ALIGN = 8
    MEMSIZE = 10485760
    MEMP = 16777216
    HostPageSizes <- MCHostPageSizes
SPECIFICATION Spec
CHECK_DEADLOCK FALSE
INVARIANTS
    TypeOK
    TestPasses
    TestRestores
