-------------------------------- MODULE Pmm --------------------------------
(***************************************************************************)
(* The physical memory manager (include/pmm.cpp): which pages of the boot  *)
(* loader's memory map it hands out.                                       *)
(*                                                                         *)
(* Pages are named by their index in bitmap_, relative to base_; addresses *)
(* are in bytes of a scaled machine.  The bitmap is the set of used pages  *)
(* of the managed range; free_pages_ is left out.                          *)
(***************************************************************************)
EXTENDS Integers, Sequences, FiniteSetsExt, TLC

CONSTANTS PAGE_SIZE,
          MAX_PAGES,   \* bits of bitmap_
          Boots        \* what the boot loader may report: the memory map, a sequence of regions,
                       \* the end of the kernel and the place of the multiboot2 information

ASSUME PmmConstants ==
    /\ PAGE_SIZE \in Nat \ {0} /\ MAX_PAGES \in Nat \ {0}
    /\ \A b \in Boots :
        /\ b.map \in Seq([base : Nat, length : Nat, available : BOOLEAN])
        /\ b.kernel_end \in Nat /\ b.info_start \in Nat /\ b.info_end \in Nat

VARIABLES boot,     \* what the boot loader reported
          base_, pages_,
          bitmap    \* the pages marked used

pmmFixed == <<boot, base_, pages_>>
pmmVars  == <<pmmFixed, bitmap>>

RoundUp(a)   == ((a + PAGE_SIZE - 1) \div PAGE_SIZE) * PAGE_SIZE
RoundDown(a) == (a \div PAGE_SIZE) * PAGE_SIZE

-----------------------------------------------------------------------------
(* The constructor, as a function of what the boot loader reported *)

\* A region whose end is rounded up as well.
whole_pages_outward(region) ==
    [start |-> RoundUp(region.base), end |-> RoundUp(region.base + region.length)]

\* The pages that lie wholly within a region.
whole_pages(region) ==
    [start |-> RoundUp(region.base), end |-> RoundDown(region.base + region.length)]

\* The entries of the memory map that both loops of the constructor look at.
Usable(b) == {k \in DOMAIN b.map : /\ b.map[k].available
                                   /\ whole_pages(b.map[k]).start < whole_pages(b.map[k]).end}

\* The kernel could not have been loaded otherwise.
ASSUME SomeMemory == \A b \in Boots : Usable(b) # {}

first_page(b) == whole_pages(b.map[Min(Usable(b))]).start
total(b) == LET pages(k) == (whole_pages(b.map[k]).end - whole_pages(b.map[k]).start) \div PAGE_SIZE
                n[k \in 0 .. Len(b.map)] ==
                    IF k = 0 THEN 0 ELSE n[k - 1] + IF k \in Usable(b) THEN pages(k) ELSE 0
            IN  n[Len(b.map)]
page_count(b) == IF total(b) > MAX_PAGES THEN MAX_PAGES ELSE total(b)

address_to_page_index(b, a) == (a - first_page(b)) \div PAGE_SIZE
page_index_to_address(b, p) == first_page(b) + p * PAGE_SIZE

\* Addresses of the pages that overlap start .. end - 1.
PageAddresses(start, end) == {PAGE_SIZE * k : k \in start \div PAGE_SIZE .. (end - 1) \div PAGE_SIZE}

\* The pages that reserve_region() marks.
reserved(b, start, end) ==
    {address_to_page_index(b, a) :
        a \in {x \in PageAddresses(start, end) : end > start /\ x >= first_page(b)}}

\* The pages that the constructor frees: pages of an available region behind the kernel...
Freed(b) ==
    {address_to_page_index(b, a) :
        a \in {x \in UNION {PageAddresses(whole_pages(b.map[k]).start, whole_pages(b.map[k]).end)
                            : k \in Usable(b)} :
                   x >= b.kernel_end /\ x >= first_page(b)}}
    \cap 0 .. MAX_PAGES - 1

\* ...except page zero, the kernel, and the multiboot2 information.
Reserved(b) ==
    (IF first_page(b) = 0 THEN {0} ELSE {})
    \cup {p \in 0 .. page_count(b) - 1 : page_index_to_address(b, p) < RoundUp(b.kernel_end)}
    \cup {p \in reserved(b, b.info_start, b.info_end) : p < page_count(b)}

\* The members that the constructor sets; bitmap starts as initial_bitmap(boot).
PmmInit ==
    /\ boot \in Boots
    /\ base_ = first_page(boot) /\ pages_ = page_count(boot)
initial_bitmap(b) == 0 .. MAX_PAGES - 1 \ (Freed(b) \ Reserved(b))

-----------------------------------------------------------------------------
(* allocate() and free() *)

Pages == 0 .. pages_ - 1

\* What the scan of allocate() can find.
free_pages(used) == Pages \ used

\* allocate() takes the first page it finds.
can_allocate(used) == free_pages(used) # {}
allocated(used)    == Min(free_pages(used))

free_page(p) == bitmap' = bitmap \ {p}

-----------------------------------------------------------------------------
(* What allocate() may hand out *)

\* The page lies wholly in an available region and holds neither the kernel nor multiboot2
\* information nor address 0.
UsablePage(p) ==
    LET a == page_index_to_address(boot, p)
        Bytes == a .. a + PAGE_SIZE - 1
    IN  /\ \E k \in DOMAIN boot.map :
            /\ boot.map[k].available
            /\ Bytes \subseteq boot.map[k].base .. boot.map[k].base + boot.map[k].length - 1
        /\ \A x \in Bytes : x # 0 /\ x >= boot.kernel_end
                            /\ ~(boot.info_start <= x /\ x < boot.info_end)
=============================================================================
