# A verification of the unixv6-x86_64-cpp kernel

TLA+ models of the kernel's process table and scheduler, its open-file table, its address
spaces, page allocator and heap, its block driver and buffer cache, its file system with
directories and paths, and its keyboard input, checked with TLC on small instances and, where the prover
reaches, proved with TLAPS for every size. File and line references are to `src/`.

## The system

A small x86-64 kernel after UNIX V6 and xv6, for one CPU, without preemption and without
locks: the timer interrupt only counts ticks (`exception.cpp:149`), a process runs until
it calls `yield`, `sleep`, `wait` or `exit`.

| part | state | operations | hard about it |
|---|---|---|---|
| process table, scheduler (`process.cpp`) | 64 slots (state, pid, parent, channel, status, fd table, saved context), `cpu.current`, `init_proc`, CR3/TSS | create, yield, sleep/wakeup, fork, exit, wait, trampoline | a process resumes in the middle of `sleep`/`wait`; wakeups and exits in any order; slots and page tables freed while something still refers to them |
| open files (`file.cpp`) | `file_table` with reference counts | open console, duplicate, close, read, write | counts kept by fork, exit, close and failed creations; table full |
| system calls (`systemcall.cpp`, `syscall_entry.asm`) | the trap frame on the kernel stack | read, write, close, fork, exit, wait | enter with interrupts off |
| buffer cache (`buffer_cache.cpp`) | 30 buffers, LRU list, reference counts, dirty bits | acquire, release, mark dirty, write, flush | device errors half way, recycling, releases by block number |
| block store interface (`block_store.hpp`) | – | acquire, write_back, release | what the file system may rely on |
| keyboard (`keyboard.cpp`) | ring of 256 characters, Shift and prefix state | handle_irq, has_input, getchar | the only truly concurrent code: interrupt handler against reader |
| file system (`file_system.cpp`, `inode.cpp`, `directory.cpp`, `path.cpp`) | superblock, bitmap, inode table | format, allocate, read/write data, lookup, link, walk | order of device writes, failures and power loss in between |
| memory (`pmm.cpp`, `heap.cpp`, `vmm.cpp`) | page bitmap, free list, page tables | allocate, free, map, copy, destroy | partial failure, double free, shared tables |
| block driver (`virtioblock.cpp`) | virtqueue | read, write | protocol with the device |
| boot, GDT/IDT/PIC, PCI, consoles | tables, ports | set-up and output | straight-line code |

Interaction: system calls run on the kernel stack of `cpu.current` and call the process
table and the file layer; `fork` and `exit` move File references; the file system borrows
blocks from the cache through `IBlockStore`; the cache calls the driver, which polls; the
keyboard handler is the only interrupt handler that shares data with the rest.

What makes each part correct: the scheduler runs exactly `cpu.current`, in its own address
space; every exit status reaches one `wait`, no wakeup is lost, nothing is freed in use;
reference counts are exact; the cache cannot be told from a disk without a cache; no
disk block has two owners and no power failure damages what was reported written; names
in a directory are unique and a path leads where its names lead; every physical page has
one owner, and processes do not see each other's pages; heap blocks do not overlap; the
driver and its device together are a block device; each typed character is read once and
in order.

## Modules

**File** – the open-file table as operators on its value (`file_allocate`, `file_open_console`,
`file_duplicate`, `file_close`). No system call opens an inode, so Files are console Files.

**Process** – extends File. Variables are the fields of `struct Process`, one function from
slots each, plus `cpu.current`, `next_pid` and `init_proc`. Three variables stand for
machine state: `loaded` (whose page tables are in CR3 and whose stack is in TSS.rsp0), `pc`
(where the saved context resumes) and `frame` (the variable `proc` of the `trampoline` frame
on the slot's kernel stack, which `fork_kernel` copies). `exits` and `reaps` are history.

The code between two calls of `schedule` is one atomic step: there is one CPU, no
preemption, and no interrupt handler touches the table. Actions have the code's names;
`sleep` and `wait` are split where they lose the CPU (`sleep_on`, `sleep_return`, `wait` once
per round of its loop). A creation can fail at every place of the code (`create_thread_fails`, `fork_fails`):
before a File is open, after `open_console_files` got one File or none, and in `fork_user`, when the child
already has the parent and its Files. `creation_fails` then applies `free_process_resources` to the
table as the creation left it, as the code does; the pid is used up. Clients are arbitrary: whoever runs may
make any call open to it. Ring 3 has no `yield`, `sleep` or `wakeup`. `HasInit` selects the
normal build (an init process, created once) or the test build (threads created from the
kernel context, no adopter). `ForkedMayReturn` says whether the entry function may return in
a forked kernel thread. No caller in the repository calls `wait` from the kernel context.

**BlockStore** – the abstract specification: contents of blocks as borrowers see them, the
disk, who holds what. The disk only receives contents a borrower gave.

**BufferCache** – the cache with its borrowers. The list is represented by positions
(`age`); `acquire` has three outcomes (hit, miss, failed read), a failed write-back of the victim or a
cache without a free buffer changes nothing. `Interfaces` selects the kind of borrower:
`BlockRef` (the file system: change in place, `write_back` at once, release by number) or
`BufferRef` (change, `mark_dirty`, `write`/`flush`, release by pointer). `Store` instantiates
BlockStore with `view <- View`, and `Transparent` is its specification. The statistics
counters are left out.

**Keyboard** – one step per access to shared data. The handler runs with interrupts off and
is one step; `initialize`, `has_input`, `getchar` and the `sti; hlt` of `console_read` are
split. `if_flag` is IF, `shadow` the one-instruction delay after an `sti` that turned IF on.
Scancodes are represented by the classes the handler tells apart.

**FileSystem** – `initialize`, `format`, block allocation, the inode table, `read_data` and
`write_data`. Calls do not interleave (no preemption), but every device write is a step of
its own, so that the power can fail (`crash`) or the device can refuse a write between any two. `disk` is
what the device holds; `view` is what the cache shows, which differs after a refused
write-through until the buffer is recycled (the finding of `cache_lost_update` is why
`recycle` forgets it). A device write of one block is taken as atomic (`FSBLOCK_SIZE` is
the sector size, 512). Inodes and the bitmap take one block each; a data block has
`FSBLOCK_SIZE` words that are contents, directory entries or block numbers. `op` holds the
locals of the running `write_data`; `reported` is history. Clients hold `InodeRef`s and ask for inodes
in use. `free_block` has no caller in the kernel; the tests call it to give a file back
(`release_file` from `inode_test.cpp:112`, `release_held` from `file_test.cpp:157` and `path_test.cpp:68`): they free
every block while the inode on the device, and in the latter two the slot, still names it, and
clear the inode last. Each of these writes is a step (`free_next`, `clear_inode`) in which the device or
the power may fail; `cleanup` holds the blocks that are left. `released` is history: the files whose release
has begun, until the device has an empty or a new inode in their place. A release that is cut short leaves an inode whose
blocks are free, and later perhaps another file's; that is what the code does, and the
properties speak of the other files (`Live`). Of the clients it is assumed that nobody looks up, holds or releases again such
a file: the tests have no entry for it, or remove it before, and let go of the inode
(`path_test.cpp:66` ignores that the removal of the entry may fail; then the assumption does not hold). The root is not released. When `initialize` fails the model is in the state
`failed`, left only by a restart: the kernel goes on (see below), but none of its code then
uses the file system; runs in which this happens do not check deadlock. Directories appear as files.

**Directory** – directories and paths over the inode table. What FileSystem shows of
`write_data` is taken from there: a directory is a sequence of entries in blocks of
`EntriesPerBlock`, the cache (`view`) may be ahead of the device (`disk`) in a data block or in
the inodes, and each of the two writes of a `directory_link` can be refused for a read or a write
error. Names are sequences of characters because the comparison with the unterminated
field is what has to be right; the zero-filled field is `Padded`, and clients' names and paths
are texts without zeros over `Characters`. `walk` is a loop over
`walk_step` that carries the inode table, so that every reference it takes and gives back
counts. `clear_entry` is the tests' way to remove an entry; the code has no unlink.
`MCDirectory` gives the instance: a root, a directory, a file, and paths with slashes in all places.

**Pmm** – the page allocator as operators: what its constructor makes of the boot loader's
memory map, `allocate` (the lowest page that is not marked) and `free`. `free_pages_` is left out.

**Heap** – extends Pmm. `block` maps the address of each header to its fields, so that the
list, the layout and the break can be compared. A call is one step; `sbrk` allocates and maps page by page
and stops at the first failure, with the page table as one of the pages. Sizes are natural numbers: a
size so large that the rounding at `heap.cpp:116` wraps around is outside the model. The rest of the
kernel holds up to `MaxOthers` pages, which makes a call fail at any of its pages.
`MCHeap` has three machines: memory from 0 with the boot information across a page boundary,
regions that do not start or end on a page with a hole in between, and one too small for a heap.

**Vmm** – extends Pmm. Page tables in pages, with four levels and two entries per table:
entry 1 of a PML4 stands for the kernel half 256..511, the user half hangs under entry 0.
Unused pages contain `Junk`, entries that look present, as the comment at `vmm.cpp:256`
warns. Each operation works on a record of the memory (`bitmap`, `table`, `data`) and stops
where the code returns false. The callers are `allocate_process`, `init_func`, `fork_user`,
`free_process_resources`, `sbrk` and user code. `reap` frees only a space that is not loaded:
that is `LoadedNotFreed` of Process, proved there. `contents` is history: what a process has
stored in its pages. The model differs from the code in three ways: entries 1 to 255 of a PML4, where only
`tests/addrspace_test.cpp:61` maps a page, which `destroy_address_space` does not look at, have no counterpart;
`destroy_address_space` frees one set of pages, so an order in which
a table goes before what it names cannot be expressed; and `heap_grow` goes on with the next address after a map that failed,
where `sbrk` maps the same address again (that is in Heap). `MCVmm` has memories of several sizes, so that each allocation of a fork
and of `map_user_space` is the one that fails in some of them. `VmmConstants` assumes that the boot code's tables and the
`.user` section are pages that `Pmm` manages and has reserved, as the kernel image is.

**BlockDevice** – the abstract specification of `read_block` and `write_block`: a call works on its
sector once, between call and return, and reports truthfully.

**VirtioBlock** – driver and device as two processes. Stores of the driver wait in
`pending` and become visible in any order until a barrier; the device reads memory when it
likes. One step per barrier interval of the driver, four for the device (fetch, transfer,
status, used ring), which may fail a request. `hw` is what the machine reports: device present, buffers
resolvable, queue size, physically contiguous queue. `initialize` may run again between requests. `IsBlockDevice`
instantiates BlockDevice with the running request as `call` and, once the device has moved
the data, its result as `outcome`. The device is external: it is modelled from how the driver uses it.

**ProcessProofs, BufferCacheProofs, VirtioBlockProofs, KeyboardProofs, DirectoryProofs,
FileSystemProofs, HeapProofs, VmmProofs** – lemmas and theorems about the module of that name.

## Runs

| run | question | instance | states |
|---|---|---|---|
| process_init | normal build: scheduling, family tree, exit statuses | 4 slots, 5 pids, 2 statuses | 833 512 |
| process_threads | test build: threads, channels, returning entry functions, reference counts of Files, starvation, wait | 3 slots, 4 Files, 4 pids, 1 channel, closable fd 0, fairness | 155 532 |
| cache_errors | both kinds of borrowers, device errors, refinement | 2 buffers, 3 blocks, 3 borrowers | 37 430 |
| keyboard_read | handler against reader, input is read | ring of 3, 7 interrupts, reads of 2, fairness | 149 957 |
| fs_crash | power failures, read errors, a full disk, releases cut short | 4 data blocks, 2 inodes, 2 InodeRefs, blocks of 2 words, 1 direct block, 2 writes, 1 power failure | 2 562 360 |
| fs_device_errors | refused reads and writes, in `format` and in releases too | as above, 1 inode slot, no power failure | 1 161 982 |
| directory_paths | links and walks with refused writes and power failures | 3 inodes, 3 inode slots, 2 InodeRefs, 4 entries in blocks of 2, names of 2 characters, 10 paths | 295 037 |
| heap_pages | block list and physical pages under page shortage | 3 machines of 4 to 11 pages of 8 bytes, heap of 32 bytes, header 2, sizes 1, 4 and 11 | 290 745 |
| address_spaces | fork, ring 3 and reaping under page shortage | 2 processes, memories of 13 to 20 pages, 2 user pages each, 1 heap page | 748 124 |
| virtio_requests | driver against device, refinement, every call returns | 2 sectors, 2 values, indices modulo 8, queue sizes 0, 4, 6, 256, 512, fairness | 206 656 |
| cache_lost_update | violation, see below | 2 buffers | |
| fs_format_crash | violation, see below | as fs_crash | |

Why the bounds are enough. Four slots hold init, a parent, its child and a grandchild or
an unrelated process (process_init): every relation the code distinguishes (self, parent, child, adopted
orphan, stranger). More pids than slots make slots be reused. Four Files let two threads
be created and a third fail without a File, or, when one thread has closed fd 0, with fd 0 open and no
File for fd 1; a failing `fork_user` gives back what it duplicated. Two buffers with three borrowers reach
the full cache, hits on a held buffer and recycling of clean, dirty and emptied buffers; lists with a
middle are left to the proofs, which hold for every number of buffers. A ring of three holds two characters: empty, full and wrapped
around several times in seven interrupts. With one direct block and two words
per block a write of three words crosses from the direct block through the
indirect block to its first entry; together with the root directory that fills the four
data blocks, so that the next allocation fails. Two writes let the second one work on
what a failed, interrupted or overlapping first one left, or take the blocks of a file that
was released, or half released, in between. One inode slot makes the inode
table full, two let two inodes be open. Two entries per block and four in all let a directory
grow into a second block, reuse a freed entry in front of a name, and be full; three inode slots
with two held by clients leave a walk one slot, one less than it needs. The heap's sizes give
blocks that are split, blocks that are too small to split, and requests that need two
pages or a second page table; the heap's range ends after four pages. Two processes
are parent and child, and after the parent is reaped the child forks into its slot. Indices
modulo 8 wrap around in a few requests. 256 is the largest queue that fits in
`virtqueue_memory` (`QUEUE_MEMORY` and `VIRTIO_PAGE_SIZE` have their real values). `MaxPid`, `MaxKeys`, `Closable`, `Counts`,
`MaxWrites`, `MaxCrashes`, `MaxEntries`, `Links`, `Paths`, `Sizes`, `Increments`, `MaxOthers`,
`Mappable` and `HeapPages` are the only bounds that are not the code's own.

Properties, and what each would catch: see the comment above each definition. `RunsAsItself`,
`LoadedNotFreed`, `NoLostWakeup`, `ParentNotFreed`, `ExitsConserved`, `ZombieWaitsForParent`,
`TrampolineNeverResumes`, `RefcntExact`, `NoStarvation` and `WaitReturns` for processes;
`OneCopy`, `RefsStable`, `RefcntExact`, `CleanMatchesDisk` and `Transparent` for the cache;
`AllocatedOnce`, `Durable`, `ReadsBack` and `SlotsExact` for the file system;
`NamesUnique`, `LinkedFound`, `PathsResolve` and `RefsExact` for directories and paths;
`OnlyUsablePages`, `ListInOrder`, `NoOverlap` and `PagesOwned` for page allocator and heap;
`PagesAccounted`, `Isolated` and `KernelShared` for address spaces;
`DeviceSeesTheRequest`, `QueueFits`, `RequestReturns` and `IsBlockDevice` for the driver;
`InOrder`, `NeverEmptyHanded` and `InputIsRead` for the keyboard. Every property has a mutant of the code it
is about, defined next to it, that TLC finds out. What the properties do not see: links of the LRU list that a double
link or unlink would corrupt (the list is represented by positions), keys that `initialize` drops, and, for
`Durable` and `ReadsBack`, an `update_inode` whose write the device refuses (in `PROJECT.json`, see the notes at the hazards).

### Fairness

Process: the kernel context returns to `yield` after every interrupt (`main.cpp:175`), a
process with the CPU executes kernel code to its next call, and clients keep the
cooperative contract the design assumes (threads call `yield`, ring-3 processes end in
`exit` or block). Without that contract starvation is inherent: there is no preemption.
Keyboard: the CPU executes instructions, and the PIT interrupts it (100 Hz,
`main.cpp:84`; IRQ0 is unmasked because `pic.cpp:153` restores the firmware's mask). No
fairness is assumed of the user at the keyboard.
VirtioBlock: the CPU executes the driver and its stores reach memory; the device finishes what it has
begun and looks at the queue when it was notified. It need not look before.
The polling loop of the code has no timeout, so without a device that answers it would not end.

### Disagreements between the code and what it says

* **cache_lost_update.** `buffer_cache.cpp:95` and `buffer_cache.hpp:28`: changes are written back before
  eviction. After a failed `BlockStore::write_back` the changed buffer is not dirty and is
  recycled without another attempt. `BufferRef` with `mark_dirty` does not have the problem.
* **fs_format_crash.** `file_system.hpp:52`: the magic tells whether the disk is formatted. The
  superblock is written before the root directory; after a power failure in between the
  disk mounts without a root, and inode 1 is handed out as a file.

Met on the way, without a run of their own:

* `process.cpp:113` calls the code after `trampoline`'s `yield` unreachable. A kernel thread
  made by `fork` has a copy of its parent's `trampoline` frame; if its entry function returns
  it ends the parent and is itself scheduled again. With `ForkedMayReturn = TRUE` in
  `ProcessThreads.cfg` TLC finds `TrampolineNeverResumes` violated. All clients in the repository call
  `exit` in the child, and with that assumption (`ForkedMayReturn = FALSE`) the comment is
  proved right.
* `file.cpp:19`: `sti; hlt` misses no input between check and `hlt`. That holds in the first
  round of the wait only: afterwards IF is on, `sti` has no shadow, and the CPU can halt with
  input in the ring until the next tick. `InputIsRead` shows that nothing worse happens
  while the timer runs.
* `inode.cpp:187`: `write_data` makes no holes. After a failed write of the indirect table
  (`inode.cpp:179`) its entry lives in the cache only; the next call builds on it and writes a
  size that covers a block the device does not know. `fs_device_errors` shows that even then
  no block gets two owners.
* `file_system.cpp:145` says that without the magic the disk is not formatted yet, but a
  read error of block 1 has the same result (`file_system_internal.cpp:44`), and a disk with
  files is formatted (`mount` in FileSystem has the step). If the power fails in that `format` after
  the bitmap was cleared, the next boot finds the magic, mounts the disk and hands out blocks
  0 and 1 (`AllocatedOnce` fails); `FormatsOnce` keeps the theorems away from it.
* `main.cpp:163` stops with `hlt` when the file system cannot be initialized. Interrupts are
  on since `idt.cpp:55`, so the next tick resumes the kernel, which starts init.
* `process.cpp:516` says `copy_user_pages` frees what it copied before it fails. It frees only
  the page at hand (`vmm.cpp:378`); `destroy_address_space` frees the others, and `PagesAccounted`
  shows that all come back.
* `heap.hpp:41` says a block's size includes the header; the code never counts it in.
  `heap.cpp:160` lets a free last block grow by the new pages without looking whether
  they follow it: after a direct `sbrk`, as in `tests/heap_test.cpp:14`, the block reaches over
  what that caller was given. `NoOverlap` therefore speaks of the blocks, and does not see what a direct caller of `sbrk` holds.
* `pmm.cpp:72` subtracts the kernel's pages from `free_pages_` although they were never
  added, so the count is too low, and `allocate` may take it below 0. With a hole in the memory map
  `pages_` counts pages but the index counts addresses: the highest pages are never handed out.
* `virtioblock.cpp:107` accepts a queue of 1 or 2 descriptors, too few for a chain of 3. Devices
  have more (`VirtioConstants`).
* The tests free blocks before they clear the inode that names them (`tests/inode_test.cpp:118`), the wrong
  way round for a power failure. Nothing says otherwise; `AllocatedOnce` and `Durable` show that the other files are safe.
* Stale text: `README.md:204` says there is no init and no reparenting; `process.cpp:450` says a
  failed fork leaves `parent` set, which `free_process_resources` clears.

## Proofs

`tlapm` checks every step; the assumptions are the named `ASSUME`s on the constants, which TLC
evaluates in the runs. Sizes, bounds and sets of clients are arbitrary.

* **Process.** `TypeCorrect`: by induction, no strengthening needed. The others assume
  `ForkedMayReturn = FALSE` (see above).
  `ProcInvariant`: `NoLostWakeup` and `ParentNotFreed`
  are not inductive. `wait` may free a Zombie only if nobody has it as parent: a Zombie that
  came from `exit` has handed over its children; one that came from `trampoline` has not, but
  then it has no parent and nobody can reap it (`ZombieParentsAreRoots`, which needs
  `EntryThreadsAreRoots`, since only entry threads return). `init_proc` must stay allocated
  (`InitIsRoot`), or reparenting would create dangling parents. A sleeper in `wait` must sleep
  on its own slot and a resumed context must be where `pc` says (`SavedContexts`). `RunsAsItself`
  gives `LoadedNotFreed`: the caller of `wait` has its own page tables loaded, so the child it frees does not.
  `CurrentRunsAsItself`, `NoWakeupIsLost`, `ParentsStay`, `NothingFreedInUse` and `TrampolineEnds` are its
  consequences; `ZombiesWait` (an action property) takes one step from it.
  `ExitsAreConserved` adds `ExitInv`: pids in use are distinct and below `next_pid`, so the
  record of an exit can be told from every other. `FileRefcntsExact` adds `FileInv`: the counts,
  and that an unused slot or a Zombie has no open descriptor, since a creation fills a slot without closing
  what is in it; the steps are sorted into those that open, close or move one slot's
  descriptors (`StepKinds`), and the count of a File changes by the difference of two sets. For a failed creation
(`FailedCounted`) the counts are exact twice: in the table the creation has in hand, with the descriptors it
opened or duplicated, and again after `close_all_files` has closed just these.
* **BufferCache.** `CacheCorrect`: `TypeOK /\ CacheInv` is inductive, with `Cardinality` of the set of holders
  for the counts. `OneCopy` and `RefsStable` together make the lookup by number find the
  buffer a BlockRef points into. `BlocksHaveOneCopy`, `BorrowedBlocksStay` and `BufferRefcntsExact`
  are its parts. `CleanBuffers` and `CacheTransparent`, assuming `NoFailedUpdate` (the borrowers are
  BufferRefs or the device does not fail their write-throughs; the violation above is why): each call maps
  to one step of BlockStore or to none.
* **VirtioBlock.** `VirtioInv` says for every place of the driver which of its stores may still be
  pending, what memory therefore holds, and how far the device may be: the request is offered, in
  work or done, which the distance of the four indices tells. `RequestSeen` follows: the barrier before the index is
  what keeps the device from an old chain. `RingsFit` is arithmetic on the layout of
  `vring_init` and needs the page size to be a multiple of 8. `DriverIsBlockDevice` is the
  refinement: the transfer by the device is the step in which the abstract device works on the
  sector; everything else the driver and the device do is a call, a return or a stutter.
* **Keyboard.** `KeyboardInv` adds to the two properties what the reader knows between its
  accesses (`ReaderInv`): the character in hand is the one at `tail` until `tail` moves, and
  nothing was read before `initialize` has reset the ring. The lemmas are about the ring as a sequence:
  what the handler's store appends and the reader's step of `tail` takes off, with indices that wrap around.
* **Directory.** `DirInv`: an inode in use has one slot and the slot counts its InodeRefs
  (`GoodTable`); sizes grow from the device over the cache to the holder; where the device has not the
  entry of the cache, its own is free (`DeviceBehind`); names are unique in the cache as far as the holder's size;
  fields are filled up with zeros; a reported link is in both. `NamesUnique` is not inductive
  without `DeviceBehind`: `recycle` brings back what the device has. `walk` is a recursive
  function: that its loop exists, round by round, is shown by the least counterexample
  (`LoopExists`), and each round keeps `WalkOK`, that only the current inode has a reference more
  than before. `NameEqual` says that `is_name_equal` compares with the padded name, which
  needs names without zeros (`LinkTexts`). `RefsAreExact`, `NamesStayUnique` and `LinksAreFound` follow.
* **FileSystem.** `FsInv` is proved under `FormatsOnce`: device reads do not fail in a mount, or the
  power does not fail in a format (see above). Between releases it is `CoreInv(Live)`, for the files whose release has not
begun; beside the types that has five parts. `Once` is `AllocatedOnce`
  of any two stores and an inode table, so that lemmas can speak of the state after a step: a step that adds no
  reference and frees no block in use keeps it (`OnceKept`), and so does one that adds a
  single reference to a marked block nobody referred to (`OnceGrown`). `OpInv` supplies that block: between
  `allocate_block` and the store of its address, the block in hand is marked on the device and
  unreferenced; and the block that `write_data` writes is no table of addresses, or its words
  would become references. `SuperInv` says where the magic is worth its promise that the
  layout is marked, `FormatInv` how far `format` is, and that nothing is referred to until its
  last write. `SlotInv` counts the InodeRefs. `recycle`, a failed write and a power failure
  are all cases of going back to what the device has, which never brings a new reference
  (`RevertFewer`), because references on the device are among those that `Once` already counts.
  `Once`, `OpInv` and `SlotInv` take the set of files as a parameter: when a release begins, its file leaves the set, and
  what is left keeps them, as a smaller set has fewer references. During the release, when no other call runs, `CleanInv` holds instead:
  `Once`, `SlotInv` and `SuperInv`, and that no other file refers to a block in `cleanup.blocks`, which follows from `Once` of the larger set
  at its beginning and lets `free_block` unmark the block. When the inode is cleared, or given to a new file, the file
  comes back without an address. A release that is cut short leaves the file outside the set for good.
  `BlocksAllocatedOnce` and `SlotsAreExact` follow.
  `WritesAreDurable` and `ReadsWhatWasWritten` are proved under `Reliable`, the setting of the run
  `fs_crash`: device writes do not fail (a refused write leaves cache and device apart) and the mount can read.
  `DurInv` relates files to blocks: `FilesOK` says, of the same set of files, that each inode on the device, and each slot, finds the
  reported words below its size (`Holds`), and that a slot's addresses are those on the device and
  perhaps more (`More`), since `write_data` hangs blocks into the slot long before `update_inode`
  writes it. `WriteInv` adds for the running call that the words before `pos` are on the device, that the place it is
  allocating for is empty, and that the block in hand is the one found at `logical`; without the
  empty place, a new address could hide a block with words. `FreshInv` says that a disk without the magic has
  no files, so that `format` destroys none. Steps that write outside the files, or to a block nobody refers to, keep
  all that is found (`AllKept`); for the round of the loop (`Round`), `Once` makes the written block this file's
  logical block and no other's. Which word goes where is arithmetic of quotient and remainder (`InChunk`).
* **Heap.** `HeapInv` has two parts that meet only in the break. `MemInv`: each page
  has one owner and all that are owned or free are usable (`MemOK`), and the break is a multiple
  of the page size with every page below it mapped; without the multiple the first page of a call would be
  rounded past memory that is not mapped. `FreeIsUsable` is the induction's start: what the
  two loops over the memory map and `reserve_region` leave free, by arithmetic on multiples
  of `PAGE_SIZE`; `PageCount` needs that the sum of the pages is a number, shown, like the loop of
  `sbrk` (`LoopExists`, `LoopKeeps`), by the least counterexample. `ListInv`: `next` and `prev`
  are the neighbours by address and blocks end where their successors begin (`ChainOK`), no two neighbours
  are free (`Coalesced`), and clients hold the used blocks (`LiveOK`). Addresses are kept multiples of `ALIGN`,
  and there is a last block, which `allocate` looks for. The lemmas take a list as a parameter, because `free`
  goes through two lists that are not coalesced: after the flag is set, only `a` and its
  neighbours may be free together (`FreeNear`); after the first merge, only `a` and the block before it (`FreeBefore`).
  `HandedOutIsUsable`, `PagesHaveOneOwner`, `ListIsOrdered` and `BlocksAreDisjoint` follow.
* **Vmm.** For every memory map, number of processes, set of mappable pages and contents; the tables keep
  the model's two entries. The properties speak of walks through tables, which no step preserves
  by itself, so `VmmInv` says that there are trees the tables represent: `nd[s][n]` is the page at place `n` of
  the user half of process `s`, where entry `i` of the table at place `n` leads to place `2 * n + i` (`Tree`).
  Each page is at one place of one tree, the kernel's, or not marked (`Once`, which also has a set of pages in
  hand: taken, but in no table yet). The kernel half hangs below entry 1 of every PML4 (`Kern`), and
  a process's pages hold its `contents` (`Holds`). The code changes memory by a few elementary steps,
  each with a lemma: a page is taken, scratched, hung into a tree, dropped, made a root, given to the kernel; or a
  whole tree is given back. `MapUser` follows `map_page_in` through the three levels, where each table may be missing and each
  allocation fail; `PlacePage` adds the page that is given back then, and serves the stack, `map_more` and
  `copy_page`. `CopyPages` goes through the eight rounds of `copy_user_pages`: the pages up to the current one are
  copies, the others absent, and everybody else's memory as it was. `SpacePages` says that the nested
  loops of `destroy_address_space` find exactly the tree. `PagesAreAccounted`, `SpacesAreIsolated` and
  `KernelIsShared` follow.

Only model-checked: the liveness properties `NoStarvation`, `WaitReturns`, `InputIsRead` and
`RequestReturns` (outside the prover's reach, with fairness and ENABLED); `PathsResolve`, which compares
`walk` with a recursive reference over the components of a path (induction over data).

## Plan

Still to do, in this order:

1. The interrupt flag across context switches (`process.cpp:296`, `:368`): `switch_context` does
   not save it, so a thread may run with interrupts off until the next `sti`.
2. Inode Files in File, when a system call opens one.

Not modelled and not planned: boot code, descriptor tables, PIC/PIT programming, PCI
enumeration, consoles, C run-time stubs (straight-line set-up and output); the contents of
registers across system calls; the TLB (`map_page_in` flushes nothing; a stale entry would need an earlier
access to the page in the same space) and the Writable bit; `unmap_page`, which nothing in the
kernel calls; directories that reach into the indirect block.
