------------------------------- MODULE Heap -------------------------------
(***************************************************************************)
(* The kernel heap (include/heap.cpp) on top of the physical memory        *)
(* manager: the list of blocks as it lies in memory, the break, and the    *)
(* pages mapped below it.                                                  *)
(*                                                                         *)
(* Calls do not interleave, so each is one step.  The heap starts at       *)
(* address 0 here.  The rest of the kernel takes and returns physical      *)
(* pages, so that a call can run out of them at any page it maps.          *)
(***************************************************************************)
EXTENDS Pmm

CONSTANTS HEADER,           \* sizeof(Block)
          ALIGN,
          MIN_SPLIT_SIZE,
          VIRT_END,         \* virt_end_, the size of the heap's address range
          PagesPerTable,    \* pages that one page table maps
          Sizes,            \* bound: the sizes that clients ask for
          Increments,       \* bound: the arguments of direct calls of sbrk()
          MaxOthers         \* bound: pages that the rest of the kernel holds at a time

ASSUME HeapConstants ==
    /\ ALIGN \in Nat \ {0} /\ HEADER \in Nat \ {0} /\ MIN_SPLIT_SIZE \in Nat
    /\ HEADER % ALIGN = 0 /\ PAGE_SIZE % ALIGN = 0 /\ PAGE_SIZE > HEADER
    /\ VIRT_END \in Nat /\ PagesPerTable \in Nat \ {0}
    /\ Sizes \subseteq Nat \ {0}
    /\ \A n \in Increments : n \in Nat \ {0} /\ n % PAGE_SIZE = 0
    /\ MaxOthers \in Nat

VARIABLES
    brk,      \* brk_
    block,    \* the blocks of the list by the address of their headers
    mapped,   \* the physical page of each page of the heap that is mapped
    tables,   \* the physical page of each page table
    live,     \* what clients hold: payload address -> the size they asked for
    given,    \* addresses below brk that direct calls of sbrk() returned
    others    \* physical pages that the rest of the kernel holds

heapVars == <<brk, block, mapped, tables, live, given>>
vars == <<pmmVars, heapVars, others>>

null == -1
VirtPages == 0 .. VIRT_END \div PAGE_SIZE - 1
Nothing   == [x \in {} |-> 0]

\* f with the value v at x.
with(f, x, v) == [y \in DOMAIN f \cup {x} |-> IF y = x THEN v ELSE f[y]]

-----------------------------------------------------------------------------
(* sbrk() *)

\* What sbrk() works on; ok says whether it went well so far.
Memory(used, pages, tabs) == [bitmap |-> used, mapped |-> pages, tables |-> tabs, ok |-> TRUE]

\* map_page(va, pa), which may have to allocate the page table first.
map_page(m, va, pa) ==
    LET t     == va \div PagesPerTable
        frame == allocated(m.bitmap)
        pages == with(m.mapped, va, pa)
    IN  IF t \in DOMAIN m.tables THEN [m EXCEPT !.mapped = pages]
        ELSE IF can_allocate(m.bitmap)
        THEN Memory(m.bitmap \cup {frame}, pages, with(m.tables, t, frame))
        ELSE [m EXCEPT !.ok = FALSE]

\* One round of the loop: a physical page, mapped at va.  When there is none, or no page
\* table, sbrk() ends there and leaves what it has done.
add_page(m, va) ==
    IF ~m.ok THEN m
    ELSE IF ~can_allocate(m.bitmap) THEN [m EXCEPT !.ok = FALSE]
    ELSE LET pa == allocated(m.bitmap)
         IN  map_page([m EXCEPT !.bitmap = m.bitmap \cup {pa}], va, pa)

\* The memory after sbrk(increment) for increment > 0.
sbrk(memory, old_brk, increment) ==
    LET first == RoundUp(old_brk) \div PAGE_SIZE
        last  == (old_brk + increment - 1) \div PAGE_SIZE
        loop[k \in 0 .. last - first + 1] ==
            IF k = 0 THEN memory ELSE add_page(loop[k - 1], first + k - 1)
    IN  IF old_brk + increment > VIRT_END THEN [memory EXCEPT !.ok = FALSE]
        ELSE loop[last - first + 1]

sbrk_now(increment) == sbrk(Memory(bitmap, mapped, tables), brk, increment)

\* The break moves although a page is missing.
sbrk_effect_always(m, increment) ==
    /\ bitmap' = m.bitmap /\ mapped' = m.mapped /\ tables' = m.tables
    /\ brk' = IF brk + increment > VIRT_END THEN brk ELSE brk + increment
    /\ UNCHANGED pmmFixed

\* The break moves only if all went well.
sbrk_effect(m, increment) ==
    /\ bitmap' = m.bitmap /\ mapped' = m.mapped /\ tables' = m.tables
    /\ brk' = IF m.ok THEN brk + increment ELSE brk
    /\ UNCHANGED pmmFixed

\* A caller other than the heap itself.
sbrk_call(increment) ==
    /\ LET m == sbrk_now(increment)
       IN  /\ sbrk_effect(m, increment)
           /\ given' = IF m.ok THEN given \cup brk .. brk + increment - 1 ELSE given
    /\ UNCHANGED <<block, live, others>>

-----------------------------------------------------------------------------
(* allocate() *)

aligned(size) == ((size + ALIGN - 1) \div ALIGN) * ALIGN

Fits(bs, n) == {a \in DOMAIN bs : bs[a].free /\ bs[a].size >= n}

\* Block b with another size and another successor.
resized(b, size, next) == [b EXCEPT !.size = size, !.next = next]

\* A split that does not tell the next block of its new predecessor.
split_one_way(bs, a, n) ==
    LET b   == bs[a]
        new == a + HEADER + n
        rest == [size |-> b.size - n - HEADER, free |-> TRUE, next |-> b.next, prev |-> a]
    IN  with([bs EXCEPT ![a] = resized(b, n, new)], new, rest)

\* A split whose rest forgets to leave room for its own header.
split_wide(bs, a, n) ==
    LET b   == bs[a]
        new == a + HEADER + n
        rest == [size |-> b.size - n, free |-> TRUE, next |-> b.next, prev |-> a]
    IN  with([x \in DOMAIN bs |->
               CASE x = a      -> resized(b, n, new)
                 [] x = b.next -> [bs[x] EXCEPT !.prev = new]
                 [] OTHER      -> bs[x]], new, rest)

\* The rest of block a behind its first n bytes becomes a block.
split(bs, a, n) ==
    LET b   == bs[a]
        new == a + HEADER + n
        rest == [size |-> b.size - n - HEADER, free |-> TRUE, next |-> b.next, prev |-> a]
    IN  with([x \in DOMAIN bs |->
               CASE x = a      -> resized(b, n, new)
                 [] x = b.next -> [bs[x] EXCEPT !.prev = new]
                 [] OTHER      -> bs[x]], new, rest)

\* The first block that fits, split if the rest is large enough.
take(bs, n) ==
    LET a == Min(Fits(bs, n))
    IN  [(IF bs[a].size >= n + HEADER + MIN_SPLIT_SIZE THEN split(bs, a, n) ELSE bs)
         EXCEPT ![a].free = FALSE]

Last(bs) == CHOOSE a \in DOMAIN bs : bs[a].next = null

\* The list with the new memory: a free last block grows, or there is a new block.
grown(bs, at, bytes) ==
    LET last == Last(bs)
        more == [size |-> bytes - HEADER, free |-> TRUE, next |-> null, prev |-> last]
    IN  IF bs[last].free THEN [bs EXCEPT ![last].size = bs[last].size + bytes]
        ELSE with([bs EXCEPT ![last].next = at], at, more)

pages_needed(n) == (n + HEADER + PAGE_SIZE - 1) \div PAGE_SIZE

\* allocate(size).  After the list has grown, the second attempt always finds room; without
\* memory the result is nullptr.
allocate(size) ==
    /\ DOMAIN block # {}
    /\ LET n     == aligned(size)
           bytes == pages_needed(n) * PAGE_SIZE
           m     == sbrk_now(bytes)
           Got(bs) == /\ block' = take(bs, n)
                      /\ live' = with(live, Min(Fits(bs, n)) + HEADER, size)
       IN  \/ /\ Fits(block, n) # {}
              /\ Got(block)
              /\ UNCHANGED <<pmmVars, brk, mapped, tables>>
           \/ /\ Fits(block, n) = {} /\ m.ok
              /\ sbrk_effect(m, bytes)
              /\ Got(grown(block, brk, bytes))
           \/ /\ Fits(block, n) = {} /\ ~m.ok
              /\ sbrk_effect(m, bytes)
              /\ UNCHANGED <<block, live>>
    /\ UNCHANGED <<given, others>>

-----------------------------------------------------------------------------
(* free() *)

\* Block a takes in its successor.
merged(bs, a) ==
    LET c == bs[a].next
        after == bs[c].next
    IN  [x \in DOMAIN bs \ {c} |->
            CASE x = a     -> resized(bs[a], bs[a].size + HEADER + bs[c].size, after)
              [] x = after -> [bs[x] EXCEPT !.prev = a]
              [] OTHER     -> bs[x]]

merged_with_next(bs, a) ==
    IF bs[a].next # null /\ bs[bs[a].next].free THEN merged(bs, a) ELSE bs

merged_with_prev(bs, a) ==
    IF bs[a].prev # null /\ bs[bs[a].prev].free THEN merged(bs, bs[a].prev) ELSE bs

\* Clients free what they hold.
free(p) ==
    /\ p \in DOMAIN live
    /\ LET a == p - HEADER
           freed == [block EXCEPT ![a].free = TRUE]
       IN  block' = merged_with_prev(merged_with_next(freed, a), a)
    /\ live' = [q \in DOMAIN live \ {p} |-> live[q]]
    /\ UNCHANGED <<pmmVars, brk, mapped, tables, given, others>>

-----------------------------------------------------------------------------
(* The rest of the kernel *)

others_allocate ==
    /\ Cardinality(others) < MaxOthers
    /\ can_allocate(bitmap)
    /\ bitmap' = bitmap \cup {allocated(bitmap)}
    /\ others' = others \cup {allocated(bitmap)}
    /\ UNCHANGED <<pmmFixed, heapVars>>

others_free(p) ==
    /\ p \in others
    /\ free_page(p)
    /\ others' = others \ {p}
    /\ UNCHANGED <<pmmFixed, heapVars>>

-----------------------------------------------------------------------------
\* The constructor: the first page is one free block; without it there is no list and
\* every allocate() returns nullptr.
Init ==
    /\ PmmInit
    /\ LET m == sbrk(Memory(initial_bitmap(boot), Nothing, Nothing), 0, PAGE_SIZE)
       IN  /\ bitmap = m.bitmap /\ mapped = m.mapped /\ tables = m.tables
           /\ brk = IF m.ok THEN PAGE_SIZE ELSE 0
           /\ block = IF m.ok THEN with(Nothing, 0, [size |-> PAGE_SIZE - HEADER, free |-> TRUE,
                                                      next |-> null, prev |-> null])
                      ELSE Nothing
    /\ live = Nothing /\ given = {} /\ others = {}

Next ==
    \/ \E size \in Sizes : allocate(size)
    \/ \E p \in DOMAIN live : free(p)
    \/ \E n \in Increments : sbrk_call(n)
    \/ others_allocate
    \/ \E p \in others : others_free(p)

Spec == Init /\ [][Next]_vars

-----------------------------------------------------------------------------
(* Properties *)

Addresses  == 0 .. VIRT_END - 1
End(a)     == a + HEADER + block[a].size
Values(f)  == {f[x] : x \in DOMAIN f}

TypeOK ==
    /\ bitmap \subseteq 0 .. MAX_PAGES - 1
    /\ brk \in 0 .. VIRT_END
    /\ DOMAIN block \subseteq Addresses
    /\ \A a \in DOMAIN block :
        block[a] \in [size : 0 .. VIRT_END, free : BOOLEAN, next : Addresses \cup {null},
                     prev : Addresses \cup {null}]
    /\ DOMAIN mapped \subseteq VirtPages /\ Values(mapped) \subseteq Pages
    /\ DOMAIN tables \subseteq VirtPages /\ Values(tables) \subseteq Pages
    /\ DOMAIN live \subseteq Addresses /\ Values(live) \subseteq Sizes
    /\ given \subseteq Addresses /\ others \subseteq Pages

\* The constructor of PhysicalMemoryManager, its allocate() and free(): the pages that are
\* handed out or may be are usable, and those of the multiboot2 information and of the
\* kernel never are.
OnlyUsablePages ==
    \A p \in free_pages(bitmap) \cup Values(mapped) \cup Values(tables) \cup others : UsablePage(p)

\* The type invariant, and allocate() and free(): the list runs through the blocks by rising address, in both
\* directions, and no two neighbours are free.
ListInOrder ==
    /\ TypeOK
    /\ \A a \in DOMAIN block :
        LET above == {c \in DOMAIN block : c > a}
            below == {c \in DOMAIN block : c < a}
        IN  /\ block[a].next = IF above = {} THEN null ELSE Min(above)
            /\ block[a].prev = IF below = {} THEN null ELSE Max(below)
            /\ block[a].free /\ above # {} => ~block[Min(above)].free

\* allocate() and free(): what clients hold lies in used blocks, is aligned and as long as
\* they asked for; no block reaches into the next one or beyond the break, although free()
\* and the growth of the last block add up sizes without looking at addresses; and no memory
\* is lost: unless somebody else called sbrk() the blocks fill the heap up to the break.
NoOverlap ==
    /\ {p - HEADER : p \in DOMAIN live} = {a \in DOMAIN block : ~block[a].free}
    /\ \A p \in DOMAIN live : p % ALIGN = 0 /\ live[p] <= block[p - HEADER].size
    /\ \A a \in DOMAIN block :
        LET limit == IF block[a].next = null THEN brk ELSE block[a].next
        IN  End(a) <= limit /\ (given = {} => End(a) = limit)

\* sbrk(): everything below the break is mapped, each page to a physical page of its own that is
\* nobody else's and is marked used, also when an earlier call failed half way and its
\* pages are mapped again.
PagesOwned ==
    /\ \A va \in VirtPages : va * PAGE_SIZE < brk => va \in DOMAIN mapped
    /\ \A va, wa \in DOMAIN mapped : mapped[va] = mapped[wa] => va = wa
    /\ \A t, u \in DOMAIN tables : tables[t] = tables[u] => t = u
    /\ Values(mapped) \cap Values(tables) = {}
    /\ others \cap (Values(mapped) \cup Values(tables)) = {}
    /\ Values(mapped) \cup Values(tables) \cup others \subseteq bitmap
=============================================================================
