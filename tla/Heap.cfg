SPECIFICATION Spec
CONSTANTS
    PAGE_SIZE = 8
    MAX_PAGES = 16
    Boots <- MCBoots
    HEADER = 2
    ALIGN = 2
    MIN_SPLIT_SIZE = 2
    VIRT_END = 32
    PagesPerTable = 3
    Sizes = {1, 4, 11}
    Increments = {8}
    MaxOthers = 2
INVARIANTS OnlyUsablePages ListInOrder NoOverlap PagesOwned
