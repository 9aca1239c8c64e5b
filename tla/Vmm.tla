-------------------------------- MODULE Vmm --------------------------------
(***************************************************************************)
(* Address spaces (include/vmm.cpp, and usermode.cpp's map_user_space()):  *)
(* page tables in physical memory, on top of the physical memory manager.  *)
(*                                                                         *)
(* Tables have four levels, as in the code, but two entries: entry 0 of a  *)
(* PML4 is the user half, entry 1 stands for PML4[256..511].  A virtual    *)
(* page is its four indices.  An entry is a physical page and its User     *)
(* bit; Writable is left out.  A page that is not a table in use has       *)
(* unknown contents, for which Junk stands.  Calls do not interleave.      *)
(***************************************************************************)
EXTENDS Pmm

CONSTANTS Procs,       \* processes: the callers
          None,
          Mappable,    \* bound: pages of the user half that are mapped besides the stack
          HeapPages,   \* bound: pages the kernel heap grows by
          Values       \* what user pages contain

Index   == 0 .. 1
Present(e) == e # None
Zeroed  == [i \in Index |-> None]
Junk    == [i \in Index |-> [page |-> 1, user |-> TRUE]]

\* The kernel image: page 0 is never used, then the tables the boot code has left and the
\* .user section.
KPML4 == 1
KPDPT == 2
KPD   == 3
KPT   == 4
KUSER == 5
KernelPages == {KPML4, KPDPT, KPD, KPT, KUSER}

\* Virtual pages: the .user section, the heap and the user half in the order of the loops.
UserCode   == <<1, 1, 0, 0>>
HeapPage(k) == <<1, 1, 1, k>>
UserHalf   == << <<0, 0, 0, 0>>, <<0, 0, 0, 1>>, <<0, 0, 1, 0>>, <<0, 0, 1, 1>>,
                 <<0, 1, 0, 0>>, <<0, 1, 0, 1>>, <<0, 1, 1, 0>>, <<0, 1, 1, 1>> >>
kUserStack == <<0, 0, 0, 1>>
UserPages  == {UserHalf[k] : k \in DOMAIN UserHalf}

ASSUME VmmConstants ==
    /\ \A b \in Boots :
        /\ first_page(b) = 0 /\ page_count(b) \in Nat
        /\ KernelPages \subseteq Reserved(b) \cap 0 .. page_count(b) - 1
    /\ Mappable \subseteq UserPages \ {kUserStack}
    /\ HeapPages \in 0 .. 2
    /\ 0 \in Values
    /\ None \notin Nat /\ None \notin [page : 0 .. MAX_PAGES - 1, user : BOOLEAN]

VARIABLES
    table,      \* what the pages contain when read as tables
    data,       \* what the pages contain when read by user code
    current,    \* pml4_phys_ and CR3
    pml4,       \* the address space of each process, or None
    mode,       \* what a process is: "none", "kernel", "user", or "failed" in map_user_space()
    contents,   \* history: what each process has in its user pages
    heap        \* pages that the heap has taken

vars == <<pmmVars, table, data, current, pml4, mode, contents, heap>>

\* The memory as the calls below change it: free pages and contents; at is the table or
\* page the last step arrived at, None after a failure.
Memory == [bitmap |-> bitmap, table |-> table, data |-> data, at |-> None]

TakesEffect(m) ==
    /\ bitmap' = m.bitmap /\ table' = m.table /\ data' = m.data
    /\ UNCHANGED pmmFixed

\* pmm allocate() and free()
new_page(m) ==
    IF can_allocate(m.bitmap)
    THEN [m EXCEPT !.at = allocated(m.bitmap), !.bitmap = m.bitmap \cup {allocated(m.bitmap)}]
    ELSE [m EXCEPT !.at = None]
give_back(m, pages) ==
    [m EXCEPT !.bitmap = m.bitmap \ pages,
              !.table = [p \in Pages |-> IF p \in pages THEN Junk ELSE m.table[p]],
              !.data  = [p \in Pages |-> IF p \in pages THEN 0 ELSE m.data[p]]]

-----------------------------------------------------------------------------
(* Mapping *)

\* An existing entry e gains the User bit; a new table is cleared.
existing_table(m, parent, i, e, user) ==
    [m EXCEPT !.at = e.page, !.table[parent][i] = [page |-> e.page, user |-> e.user \/ user]]
new_table(n, parent, i, user) ==
    IF n.at = None THEN n
    ELSE [n EXCEPT !.table = [n.table EXCEPT ![n.at] = Zeroed,
                                             ![parent][i] = [page |-> n.at, user |-> user]]]

\* From the table m.at through its entry i.
get_or_create_table(m, i, user) ==
    LET parent == m.at
        e == m.table[parent][i]
    IN  IF parent = None THEN m
        ELSE IF Present(e) THEN existing_table(m, parent, i, e, user)
        ELSE new_table(new_page(m), parent, i, user)

\* map_page_in(space, va, page, flags): the tables get the User bit in any case.
\* map_page() is the same with the current space and User on the tables only if in flags.
map_with(m, space, va, page, user, tables_user) ==
    LET pdpt == get_or_create_table([m EXCEPT !.at = space], va[1], tables_user)
        pd   == get_or_create_table(pdpt, va[2], tables_user)
        pt   == get_or_create_table(pd, va[3], tables_user)
    IN  IF pt.at = None THEN pt
        ELSE [pt EXCEPT !.table[pt.at][va[4]] = [page |-> page, user |-> user]]

map_page_in(m, space, va, page, user) == map_with(m, space, va, page, user, TRUE)
map_page(m, va, page, user)           == map_with(m, current, va, page, user, user)

\* The entries on the way to va, in tables tab; None from the first that is not present.
Walk(tab, space, va) ==
    LET behind(e, i) == IF Present(e) THEN tab[e.page][i] ELSE None
        e1 == tab[space][va[1]]
        e2 == behind(e1, va[2])
        e3 == behind(e2, va[3])
    IN  <<e1, e2, e3, behind(e3, va[4])>>

\* virtual_to_physical(), in any space.
virtual_to_physical(tab, space, va) ==
    LET e == Walk(tab, space, va)[4] IN IF Present(e) THEN e.page ELSE None

-----------------------------------------------------------------------------
(* Whole address spaces *)

\* What the entries of some tables point to, and so the tables below PML4[0] by level.
Entries(tab, t, is) == {tab[t][i].page : i \in {j \in is : Present(tab[t][j])}}
Children(tab, ts)   == UNION {Entries(tab, t, Index) : t \in ts}
PDPTs(tab, space)   == Entries(tab, space, {0})
PDs(tab, space)     == Children(tab, PDPTs(tab, space))
PTs(tab, space)     == Children(tab, PDs(tab, space))

\* for_each_user_page() goes through UserHalf and calls its visitor for these pages.
visits(tab, space, va) == LET e == Walk(tab, space, va)[4] IN Present(e) /\ e.user

\* A create_address_space() that copies the kernel half of the first PML4.
create_address_space_from_boot(m) ==
    LET n == new_page(m)
    IN  IF n.at = None THEN n
        ELSE [n EXCEPT !.table[n.at] = [Zeroed EXCEPT ![1] = m.table[KPML4][1]]]

\* The kernel half is shared with the current space; m.at is the new PML4.
create_address_space(m) ==
    LET n == new_page(m)
    IN  IF n.at = None THEN n
        ELSE [n EXCEPT !.table[n.at] = [Zeroed EXCEPT ![1] = m.table[current][1]]]

\* A copy that maps the page of the parent.
copy_page_shared(m, space, va, page) == map_page_in(m, space, va, page, TRUE)

\* The visitor of copy_user_pages(): one page, given back if it cannot be mapped.
copy_page(m, space, va, page) ==
    LET n   == new_page(m)
        new == n.at
        r   == map_page_in([n EXCEPT !.data[new] = n.data[page]], space, va, new, TRUE)
    IN  IF new = None THEN n
        ELSE IF r.at = None THEN give_back(r, {new})
        ELSE r

\* copy_user_pages(): it stops at the first failure and leaves what it has copied.
copy_user_pages(m, src, dest) ==
    LET round(r, va) ==
            IF r.at = None \/ ~ visits(m.table, src, va) THEN r
            ELSE copy_page(r, dest, va, virtual_to_physical(m.table, src, va))
        loop[k \in 0 .. Len(UserHalf)] ==
            IF k = 0 THEN [m EXCEPT !.at = dest] ELSE round(loop[k - 1], UserHalf[k])
    IN  loop[Len(UserHalf)]

\* free_user_pages()
freed_user_pages(tab, space) ==
    {virtual_to_physical(tab, space, va) : va \in {v \in UserPages : visits(tab, space, v)}}

\* A destroy_address_space() that forgets the PDs.
destroy_address_space_but_pds(m, space) ==
    give_back(m, freed_user_pages(m.table, space) \cup PTs(m.table, space)
                 \cup PDPTs(m.table, space) \cup {space})

\* User pages, PTs, PDs, the PDPT and the PML4.
destroy_address_space(m, space) ==
    give_back(m, freed_user_pages(m.table, space) \cup PTs(m.table, space)
                 \cup PDs(m.table, space) \cup PDPTs(m.table, space) \cup {space})

\* map_user_space(): the .user section, then a page for the stack.
map_user_space(m, space) ==
    LET code  == map_page_in(m, space, UserCode,
                             virtual_to_physical(m.table, current, UserCode), TRUE)
        stack == new_page(code)
        r     == map_page_in(stack, space, kUserStack, stack.at, TRUE)
    IN  IF code.at = None THEN code
        ELSE IF stack.at = None THEN stack
        ELSE IF r.at = None THEN give_back(r, {stack.at})
        ELSE r

-----------------------------------------------------------------------------
(* The callers *)

NoContents == [va \in {} |-> 0]
With(f, va, v) == [x \in DOMAIN f \cup {va} |-> IF x = va THEN v ELSE f[x]]

Init ==
    /\ PmmInit
    /\ bitmap = initial_bitmap(boot)
    /\ table = [p \in Pages |->
           CASE p = KPML4 -> [Zeroed EXCEPT ![1] = [page |-> KPDPT, user |-> FALSE]]
             [] p = KPDPT -> [Zeroed EXCEPT ![1] = [page |-> KPD, user |-> FALSE]]
             [] p = KPD   -> [Zeroed EXCEPT ![0] = [page |-> KPT, user |-> FALSE]]
             [] p = KPT   -> [Zeroed EXCEPT ![0] = [page |-> KUSER, user |-> FALSE]]
             [] OTHER     -> Junk]
    /\ data = [p \in Pages |-> 0]
    /\ current = KPML4
    /\ pml4 = [s \in Procs |-> None]
    /\ mode = [s \in Procs |-> "none"]
    /\ contents = [s \in Procs |-> NoContents]
    /\ heap = <<>>

\* allocate_process(), as create_process() and fork_kernel() use it.
create(s) ==
    /\ mode[s] = "none"
    /\ LET m == create_address_space(Memory)
       IN  /\ TakesEffect(m)
           /\ pml4' = [pml4 EXCEPT ![s] = m.at]
           /\ mode' = [mode EXCEPT ![s] = IF m.at = None THEN "none" ELSE "kernel"]
    /\ UNCHANGED <<current, contents, heap>>

\* switch_address_space() to the process that runs next.
switch_address_space(s) ==
    /\ mode[s] # "none"
    /\ current' = pml4[s]
    /\ UNCHANGED <<pmmVars, table, data, pml4, mode, contents, heap>>

\* init_func() and the threads of the tests call it for their own space, and end if it fails.
enter_user(s) ==
    /\ mode[s] = "kernel" /\ current = pml4[s] /\ kUserStack \notin DOMAIN contents[s]
    /\ LET m == map_user_space(Memory, pml4[s])
           stack == virtual_to_physical(m.table, pml4[s], kUserStack)
       IN  /\ TakesEffect(m)
           /\ mode' = [mode EXCEPT ![s] = IF m.at = None THEN "failed" ELSE "user"]
           /\ contents' = IF m.at = None THEN contents
                          ELSE [contents EXCEPT ![s] = With(contents[s], kUserStack, m.data[stack])]
    /\ UNCHANGED <<current, pml4, heap>>

\* Another page of the user half, allocated and mapped by a caller of map_page_in().
map_more(s, va) ==
    /\ mode[s] = "user" /\ current = pml4[s] /\ va \notin DOMAIN contents[s]
    /\ LET n == new_page(Memory)
           r == map_page_in(n, pml4[s], va, n.at, TRUE)
           m == IF n.at = None THEN n ELSE IF r.at = None THEN give_back(r, {n.at}) ELSE r
       IN  /\ TakesEffect(m)
           /\ contents' = IF m.at = None THEN contents
                          ELSE [contents EXCEPT ![s] = With(contents[s], va, m.data[n.at])]
    /\ UNCHANGED <<current, pml4, mode, heap>>

\* User code stores into its memory.
user_write(s, va, v) ==
    /\ mode[s] = "user" /\ current = pml4[s] /\ va \in DOMAIN contents[s]
    /\ data' = [data EXCEPT ![virtual_to_physical(table, current, va)] = v]
    /\ contents' = [contents EXCEPT ![s] = With(contents[s], va, v)]
    /\ UNCHANGED <<pmmVars, table, current, pml4, mode, heap>>

\* fork_user(): a child in slot c, or everything as it was.
fork(s, c) ==
    /\ mode[s] = "user" /\ current = pml4[s] /\ mode[c] = "none"
    /\ LET n == create_address_space(Memory)
           r == copy_user_pages(n, pml4[s], n.at)
           m == IF n.at = None THEN n
                ELSE IF r.at = None THEN destroy_address_space(r, n.at) ELSE r
           ok == n.at # None /\ r.at # None
       IN  /\ TakesEffect(m)
           /\ pml4' = [pml4 EXCEPT ![c] = IF ok THEN n.at ELSE None]
           /\ mode' = [mode EXCEPT ![c] = IF ok THEN "user" ELSE "none"]
           /\ contents' = [contents EXCEPT ![c] = IF ok THEN contents[s] ELSE NoContents]
    /\ UNCHANGED <<current, heap>>

\* free_process_resources(), from wait(): never for the space that is loaded (Process).
reap(s) ==
    /\ mode[s] # "none" /\ current # pml4[s]
    /\ TakesEffect(destroy_address_space(Memory, pml4[s]))
    /\ pml4' = [pml4 EXCEPT ![s] = None]
    /\ mode' = [mode EXCEPT ![s] = "none"]
    /\ contents' = [contents EXCEPT ![s] = NoContents]
    /\ UNCHANGED <<current, heap>>

\* The heap's sbrk() maps a page in the shared kernel half, through whichever space is loaded.
\* When it fails it keeps the page (Heap).
heap_grow ==
    /\ Len(heap) < HeapPages
    /\ LET n == new_page(Memory)
           m == map_page(n, HeapPage(Len(heap)), n.at, FALSE)
       IN  /\ n.at # None
           /\ TakesEffect(m)
           /\ heap' = Append(heap, [page |-> n.at, mapped |-> m.at # None])
    /\ UNCHANGED <<current, pml4, mode, contents>>

Next ==
    \/ heap_grow
    \/ \E s \in Procs :
        \/ create(s) \/ switch_address_space(s) \/ enter_user(s) \/ reap(s)
        \/ \E va \in Mappable : map_more(s, va)
        \/ \E va \in DOMAIN contents[s], v \in Values : user_write(s, va, v)
        \/ \E c \in Procs : fork(s, c)

Spec == Init /\ [][Next]_vars

-----------------------------------------------------------------------------
(* Properties *)

Live        == {s \in Procs : mode[s] # "none"}
Table(space) == {space} \cup PDPTs(table, space) \cup PDs(table, space) \cup PTs(table, space)
\* The pages of a process, and those of the kernel half.
Owned(s)  == Table(pml4[s]) \cup Children(table, PTs(table, pml4[s]))
HeapTable == Entries(table, KPD, {1})
AtBoot    == [b \in Boots |-> initial_bitmap(b)]
Kernel    == (AtBoot[boot] \cap Pages) \cup HeapTable
             \cup {heap[k].page : k \in DOMAIN heap}

\* Every entry of a table in use points to a page.
TypeOK ==
    /\ bitmap \subseteq 0 .. MAX_PAGES - 1
    /\ \A p \in Pages, i \in Index :
        Present(table[p][i]) => table[p][i] \in [page : Pages, user : BOOLEAN]
    /\ data \in [Pages -> Values]
    /\ current \in Pages
    /\ pml4 \in [Procs -> Pages \cup {None}]
    /\ mode \in [Procs -> {"none", "kernel", "user", "failed"}]
    /\ \A s \in Procs : /\ DOMAIN contents[s] \subseteq UserPages
                        /\ \A va \in DOMAIN contents[s] : contents[s][va] \in Values
    /\ heap \in Seq([page : Pages, mapped : BOOLEAN])

\* The pages of a process are not another process's.
OwnedOnce == \A s, t \in Live : s # t => Owned(s) \cap Owned(t) = {}

\* The type invariant, and get_or_create_table(), copy_user_pages() and
\* destroy_address_space(): every page that is marked used has one owner, a process or the
\* kernel, and what has an owner is marked used; a process that is gone, a failed fork() and a failed
\* map_user_space() leave no page behind (tests/process_free_test.cpp:48).
PagesAccounted ==
    /\ TypeOK /\ OwnedOnce
    /\ LET kernel == Kernel
           owned  == UNION {Owned(s) : s \in Live}
       IN  kernel \cap owned = {} /\ bitmap \cap Pages = kernel \cup owned

\* copy_user_pages(): whatever other processes store, fork, map or free, a process finds in
\* its user pages what it has stored, or what its parent had there at fork().
Isolated ==
    \A s \in Live : \A va \in UserPages :
        LET p == virtual_to_physical(table, pml4[s], va)
        IN  IF va \in DOMAIN contents[s] THEN p # None /\ data[p] = contents[s][va] ELSE p = None

\* create_address_space() and map_page(): the kernel half is the same in every space, also
\* what is mapped there after the space was made; and a process in ring 3 reaches its code and
\* its pages through entries that all have the User bit, in a child as in its parent.
KernelShared ==
    \A s \in Live :
        /\ \A k \in DOMAIN heap : heap[k].mapped =>
                virtual_to_physical(table, pml4[s], HeapPage(k - 1)) = heap[k].page
        /\ virtual_to_physical(table, pml4[s], UserCode) = KUSER
        /\ mode[s] = "user" => \A va \in {UserCode} \cup DOMAIN contents[s] :
                \A k \in 1 .. 4 : Walk(table, pml4[s], va)[k].user

ProcSymmetry == Permutations(Procs)
=============================================================================
