SPECIFICATION Spec
CONSTANTS
    PAGE_SIZE = 8
    MAX_PAGES = 24
    Boots <- MCBoots
    Procs = {p1, p2}
    None = None
    Mappable <- MCMappable
    HeapPages = 1
    Values = {0, 1}
SYMMETRY ProcSymmetry
INVARIANTS PagesAccounted Isolated KernelShared
