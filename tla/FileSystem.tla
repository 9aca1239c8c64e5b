----------------------------- MODULE FileSystem -----------------------------
(***************************************************************************)
(* The file system (include/file_system.cpp, file_system_internal.cpp and  *)
(* inode.cpp): mount and format, the block bitmap, the inode table and     *)
(* write_data(), with power failures and device errors between and in its  *)
(* device writes.                                                          *)
(*                                                                         *)
(* Calls do not interleave with each other (the kernel is not preemptive), *)
(* but the machine may stop between any two device writes, so each of them *)
(* is a step.  Blocks are written through the cache: an update that the    *)
(* device refuses stays visible in the cache (view) until the buffer is    *)
(* recycled (module BufferCache).                                          *)
(*                                                                         *)
(* Inodes and the bitmap take one block each.  A data block is a sequence  *)
(* of FSBLOCK_SIZE words: file contents, directory entries (their inode    *)
(* numbers) or block numbers; offsets and sizes count words.               *)
(***************************************************************************)
EXTENDS Integers, FiniteSets, TLC

CONSTANTS Size,           \* superblock.size, the blocks of the device
          NumInodes,      \* superblock.ninodes
          FSBLOCK_SIZE,   \* words of a block, and NINDIRECT
          NDIRECT,
          NUM_INODE,      \* slots of inode_table
          Refs,           \* InodeRef objects
          Values,         \* what files contain: word k of a source is its Value + k
          Counts,         \* bound: the counts clients pass to write_data()
          WriteMayFail,   \* may a device write fail?
          FailingReads,   \* "mount", "run": phases in which a device read may fail
          Crashes,        \* "format", "run": phases in which the power may fail
          MaxCrashes,     \* bound on power failures
          MaxWrites       \* bound on calls of write_data()

ASSUME FileSystemConstants ==
    /\ Size \in Nat /\ Size > 4
    /\ NumInodes \in Nat /\ NumInodes > 1
    /\ FSBLOCK_SIZE \in Nat /\ FSBLOCK_SIZE > 1
    /\ NDIRECT \in Nat \ {0}
    /\ NUM_INODE \in Nat \ {0}
    /\ IsFiniteSet(Refs)
    /\ Values \subseteq Nat \ {0}
    /\ Counts \subseteq Nat \ {0}
    /\ WriteMayFail \in BOOLEAN
    /\ FailingReads \subseteq {"mount", "run"}
    /\ Crashes \subseteq {"format", "run"}
    /\ MaxCrashes \in Nat /\ MaxWrites \in Nat

\* The layout: 0 is the boot block.
SUPER      == 1
INODES     == 2
BITMAP     == 3
DATA_START == 4
Blocks     == 1 .. Size - 1
DataBlocks == DATA_START .. Size - 1

Words    == 0 .. FSBLOCK_SIZE - 1
Zero     == [w \in Words |-> 0]
MAXFILE  == NDIRECT + FSBLOCK_SIZE
MaxBytes == MAXFILE * FSBLOCK_SIZE

ROOT_INODE == 1
Inums      == 1 .. NumInodes - 1
NoInode    == [type |-> "kUnused", size |-> 0, addrs |-> [a \in 0 .. NDIRECT |-> 0]]
Slots      == 0 .. NUM_INODE - 1
NoSlot     == -1
EmptySlot  == [number |-> 0, refcnt |-> 0, disk |-> NoInode]

NoFile     == [size |-> 0, words |-> [w \in 0 .. MaxBytes - 1 |-> 0]]

VARIABLES
    disk,       \* what the device holds: disk[SUPER] says whether the magic is there,
                \* disk[INODES] is the inode blocks, disk[BITMAP] the set of used blocks
    view,       \* the blocks as the cache shows them
    inode_table,
    ref,        \* the slot an InodeRef points to
    pc,         \* where the running call is; "idle": no call, the file system is mounted
    i,          \* loop variable of format()
    op,         \* locals of write_data() and allocate_or_find_block()
    cleanup,    \* locals of release_file(): the inode, and the blocks it has still to free
    writes, crashes,  \* counters for the bounds
    released,   \* history: the files whose release has begun, until the device has an empty
                \* or a new inode in that place
    reported    \* history: the words that reached the device for each file, and the size
                \* that the last write_data() to return a count left

storeVars == <<disk, view>>
inodeVars == <<inode_table, ref>>
cleanVars == <<cleanup, released>>
vars == <<storeVars, inodeVars, cleanVars, pc, i, op, writes, crashes, reported>>

NoOp == [slot |-> NoSlot, offset |-> 0, count |-> 0, value |-> 0, done |-> 0,
         block |-> 0, for |-> "direct"]

FormatSteps == {"format_zero", "format_mark", "format_super", "root_alloc", "root_zero",
                "root_dot", "root_dotdot", "root_inode", "reload", "failed"}
WriteSteps  == {"map", "alloc", "zero", "table", "data", "update"}
CleanSteps  == {"free", "clear"}

NoCleanup == [number |-> 0, blocks |-> {}]

\* A device that was never formatted.
Blank == [b \in Blocks |-> CASE b = SUPER  -> FALSE
                             [] b = INODES -> [n \in Inums |-> NoInode]
                             [] b = BITMAP -> {}
                             [] OTHER      -> Zero]

Init ==
    /\ disk = Blank /\ view = Blank
    /\ inode_table = [s \in Slots |-> EmptySlot]
    /\ ref = [r \in Refs |-> NoSlot]
    /\ pc = "mount"
    /\ i = 0
    /\ op = NoOp
    /\ cleanup = NoCleanup /\ released = {}
    /\ writes = 0 /\ crashes = 0
    /\ reported = [n \in Inums |-> NoFile]

-----------------------------------------------------------------------------
(* The block store *)

\* The ways a change of a block can end: acquire() fails, or write_back() fails, or neither.
\* IBlockStore lets acquire() fail for any block at any time.
Outcomes(phase) ==
    {"written"} \cup (IF WriteMayFail THEN {"write_error"} ELSE {})
                \cup (IF phase \in FailingReads THEN {"read_error"} ELSE {})

\* acquire(b), the assignment of the new contents v, write_back().
put(b, v, outcome) ==
    /\ view' = IF outcome = "read_error" THEN view ELSE [view EXCEPT ![b] = v]
    /\ disk' = IF outcome = "written" THEN [disk EXCEPT ![b] = v] ELSE disk

\* A buffer is recycled: a change the device refused is forgotten.  write_data() keeps the
\* table of the indirect block borrowed while it allocates the block of an entry.
Borrowed == IF pc \in {"alloc", "zero", "table"} /\ op.for = "entry"
            THEN {inode_table[op.slot].disk.addrs[NDIRECT]} ELSE {}
recycle(b) ==
    /\ pc \in WriteSteps \cup CleanSteps \cup {"idle"}
    /\ view[b] # disk[b] /\ b \notin Borrowed
    /\ view' = [view EXCEPT ![b] = disk[b]]
    /\ UNCHANGED <<disk, inodeVars, cleanVars, pc, i, op, writes, crashes, reported>>

FreeBlocks == {b \in 0 .. Size - 1 : b \notin view[BITMAP]}
FirstFree  == CHOOSE b \in FreeBlocks : \A c \in FreeBlocks : b <= c

-----------------------------------------------------------------------------
(* initialize() and format() *)

\* load_superblock(); without the magic, format().
mount ==
    /\ pc = "mount"
    /\ \/ /\ pc' = IF view[SUPER] THEN "idle" ELSE "format_zero"
       \/ /\ "mount" \in FailingReads
          /\ pc' = "format_zero"
    /\ i' = INODES
    /\ UNCHANGED <<storeVars, inodeVars, cleanVars, op, writes, crashes, reported>>

\* One device write of format(): when it fails so does initialize(), and nothing is mounted.
format_step(at, b, v, next) ==
    /\ pc = at
    /\ \E outcome \in Outcomes("mount") :
        /\ put(b, v, outcome)
        /\ pc' = IF outcome = "written" THEN next ELSE "failed"
    /\ UNCHANGED <<inodeVars, cleanVars, writes, crashes>>

\* zero_block() for every inode and bitmap block.
format_zero ==
    /\ format_step("format_zero", i, Blank[i], IF i = BITMAP THEN "format_mark" ELSE "format_zero")
    /\ i' = IF i = BITMAP THEN 0 ELSE i + 1
    /\ UNCHANGED <<op, reported>>

\* mark_block_used() for the blocks before the data.
format_mark ==
    /\ format_step("format_mark", BITMAP, view[BITMAP] \cup {i},
                   IF i = DATA_START - 1 THEN "format_super" ELSE "format_mark")
    /\ i' = i + 1
    /\ UNCHANGED <<op, reported>>

format_super ==
    /\ format_step("format_super", SUPER, TRUE, "root_alloc")
    /\ UNCHANGED <<i, op, reported>>

\* add_root_entry(".") allocates the block of the root directory...
root_alloc ==
    /\ format_step("root_alloc", BITMAP, view[BITMAP] \cup {FirstFree}, "root_zero")
    /\ op' = [op EXCEPT !.block = FirstFree]
    /\ UNCHANGED <<i, reported>>

root_zero ==
    /\ format_step("root_zero", op.block, Zero, "root_dot")
    /\ UNCHANGED <<i, op, reported>>

\* ...and writes an entry; add_root_entry("..") writes the next one.
root_dot ==
    /\ format_step("root_dot", op.block, [view[op.block] EXCEPT ![0] = ROOT_INODE], "root_dotdot")
    /\ UNCHANGED <<i, op, reported>>

root_dotdot ==
    /\ format_step("root_dotdot", op.block, [view[op.block] EXCEPT ![1] = ROOT_INODE], "root_inode")
    /\ UNCHANGED <<i, op, reported>>

root_inode ==
    /\ format_step("root_inode", INODES,
                   [view[INODES] EXCEPT ![ROOT_INODE] =
                        [type |-> "kDirectory", size |-> 2,
                         addrs |-> [NoInode.addrs EXCEPT ![0] = op.block]]], "reload")
    /\ op' = NoOp
    /\ reported' = IF pc' = "failed" THEN reported ELSE [reported EXCEPT ![ROOT_INODE] =
           [size |-> 2, words |-> [w \in 0 .. MaxBytes - 1 |-> IF w < 2 THEN ROOT_INODE ELSE 0]]]
    /\ UNCHANGED i

\* The load_superblock() after format().
reload ==
    /\ pc = "reload"
    /\ \/ pc' = IF view[SUPER] THEN "idle" ELSE "failed"
       \/ "mount" \in FailingReads /\ pc' = "failed"
    /\ UNCHANGED <<storeVars, inodeVars, cleanVars, i, op, writes, crashes, reported>>

format == \/ format_zero \/ format_mark \/ format_super \/ root_alloc \/ root_zero
          \/ root_dot \/ root_dotdot \/ root_inode \/ reload

-----------------------------------------------------------------------------
(* The inode table *)

Held(n)    == {s \in Slots : inode_table[s].refcnt > 0 /\ inode_table[s].number = n}
EmptySlots == {s \in Slots : inode_table[s].refcnt = 0}
FirstEmpty == CHOOSE s \in EmptySlots : \A t \in EmptySlots : s <= t

\* A get_inode() that does not look for the inode in the table.
obtain_unshared(r, n, inodes, may_fail) ==
    IF EmptySlots = {} THEN UNCHANGED inodeVars
    ELSE /\ inode_table' = [inode_table EXCEPT ![FirstEmpty] =
                                [number |-> n, refcnt |-> 1, disk |-> inodes[n]]]
         /\ ref' = [ref EXCEPT ![r] = FirstEmpty]

\* get_inode() for the result r, given the contents of the inode blocks.  With a full table
\* or a failed read, r is empty.
obtain(r, n, inodes, may_fail) ==
    \/ \E s \in Held(n) :
        /\ inode_table' = [inode_table EXCEPT ![s].refcnt = @ + 1]
        /\ ref' = [ref EXCEPT ![r] = s]
    \/ /\ Held(n) = {} /\ EmptySlots # {}
       /\ inode_table' = [inode_table EXCEPT ![FirstEmpty] =
                              [number |-> n, refcnt |-> 1, disk |-> inodes[n]]]
       /\ ref' = [ref EXCEPT ![r] = FirstEmpty]
    \/ /\ Held(n) = {} /\ (EmptySlots = {} \/ may_fail)
       /\ UNCHANGED inodeVars

\* The number comes from a directory entry, so the inode is in use; a file that the tests
\* release has none (they remove it first, or never link the file).
get_inode(r, n) ==
    /\ pc = "idle" /\ ref[r] = NoSlot
    /\ view[INODES][n].type # "kUnused" /\ n \notin released
    /\ obtain(r, n, view[INODES], "run" \in FailingReads)
    /\ UNCHANGED <<storeVars, cleanVars, pc, i, op, writes, crashes, reported>>

UnusedInums == {n \in Inums : view[INODES][n].type = "kUnused"}
FirstUnused == CHOOSE n \in UnusedInums : \A m \in UnusedInums : n <= m

\* One device write; a read error anywhere ends it, after the write it leaks the inode.
allocate_inode(r) ==
    /\ pc = "idle" /\ ref[r] = NoSlot
    /\ UnusedInums # {}
    /\ \E outcome \in Outcomes("run") :
        LET inodes == [view[INODES] EXCEPT ![FirstUnused] = [NoInode EXCEPT !.type = "kFile"]]
        IN  /\ put(INODES, inodes, outcome)
            /\ IF outcome = "written"
               THEN obtain(r, FirstUnused, inodes, "run" \in FailingReads)
               ELSE UNCHANGED inodeVars
            /\ released' = IF outcome = "written" THEN released \ {FirstUnused} ELSE released
            /\ reported' = IF outcome = "written" THEN [reported EXCEPT ![FirstUnused] = NoFile]
                           ELSE reported
    /\ UNCHANGED <<cleanup, pc, i, op, writes, crashes>>

\* InodeRef::reset()
put_inode(r) ==
    /\ pc = "idle" /\ ref[r] # NoSlot
    /\ inode_table' = [inode_table EXCEPT ![ref[r]].refcnt = IF @ > 0 THEN @ - 1 ELSE @]
    /\ ref' = [ref EXCEPT ![r] = NoSlot]
    /\ UNCHANGED <<storeVars, cleanVars, pc, i, op, writes, crashes, reported>>

-----------------------------------------------------------------------------
(* free_block(), and the tests, which are its only callers *)

\* The file n is given up, whose inode says node and whose table says table.
release(n, node, table) ==
    LET blocks == ({node.addrs[a] : a \in 0 .. NDIRECT} \cup {table[w] : w \in Words}) \ {0}
    IN  /\ n # ROOT_INODE
        /\ pc' = IF blocks = {} THEN "clear" ELSE "free"
        /\ cleanup' = [number |-> n, blocks |-> blocks]
        /\ released' = released \cup {n}
        /\ UNCHANGED <<storeVars, inodeVars, i, op, writes, crashes, reported>>

\* release_file() reads the inode and its table again; when that fails it returns.
release_file(n) ==
    /\ pc = "idle" /\ Held(n) = {}
    /\ view[INODES][n].type # "kUnused" /\ n \notin released
    /\ LET node == view[INODES][n]
       IN  release(n, node, IF node.addrs[NDIRECT] = 0 THEN Zero ELSE view[node.addrs[NDIRECT]])

\* The other tests free the addresses that the inode has in the table, whose last holders
\* they are; they do not look at the indirect block.
release_held(r) ==
    /\ pc = "idle" /\ ref[r] # NoSlot
    /\ LET slot == inode_table[ref[r]]
       IN  slot.refcnt = 1 /\ release(slot.number, slot.disk, Zero)

\* An error is not reported.
free_block(b) == \E outcome \in Outcomes("run") : put(BITMAP, view[BITMAP] \ {b}, outcome)

\* The blocks go while the inode still names them, in any order (the code's is: entries of
\* the table, then addresses).
free_next ==
    /\ pc = "free"
    /\ \E b \in cleanup.blocks :
        /\ free_block(b)
        /\ cleanup' = [cleanup EXCEPT !.blocks = @ \ {b}]
        /\ pc' = IF cleanup.blocks = {b} THEN "clear" ELSE "free"
    /\ UNCHANGED <<inodeVars, i, op, writes, crashes, released, reported>>

\* write_disk_inode() with an empty inode; who still holds the file lets go of it.
clear_inode ==
    /\ pc = "clear"
    /\ LET n == cleanup.number
       IN  /\ \E outcome \in Outcomes("run") :
                /\ put(INODES, [view[INODES] EXCEPT ![n] = NoInode], outcome)
                /\ released' = IF outcome = "written" THEN released \ {n} ELSE released
                /\ reported' = IF outcome = "written" THEN [reported EXCEPT ![n] = NoFile]
                               ELSE reported
           /\ inode_table' = [s \in Slots |-> IF s \in Held(n) THEN [inode_table[s] EXCEPT !.refcnt = 0]
                                              ELSE inode_table[s]]
           /\ ref' = [r \in Refs |-> IF ref[r] \in Held(n) THEN NoSlot ELSE ref[r]]
    /\ pc' = "idle"
    /\ cleanup' = NoCleanup
    /\ UNCHANGED <<i, op, writes, crashes>>

-----------------------------------------------------------------------------
(* find_block() and read_data() *)

containing(offset) == offset \div FSBLOCK_SIZE

\* The disk block of a logical block, 0 if there is none; store is what the blocks contain.
find_block(store, node, index) ==
    IF index < NDIRECT THEN node.addrs[index]
    ELSE IF node.addrs[NDIRECT] = 0 THEN 0
    ELSE store[node.addrs[NDIRECT]][index - NDIRECT]

\* Words offset .. offset + count - 1, cut at the end of the file.
read_data(store, node, offset, count) ==
    LET n    == IF count > node.size - offset THEN node.size - offset ELSE count
        b(k) == find_block(store, node, containing(offset + k))
    IN  IF offset > node.size \/ \E k \in 0 .. n - 1 : b(k) = 0
        THEN [ok |-> FALSE, data |-> <<>>]
        ELSE [ok |-> TRUE, data |-> [k \in 0 .. n - 1 |-> store[b(k)][(offset + k) % FSBLOCK_SIZE]]]

-----------------------------------------------------------------------------
(* write_data() *)

inode   == inode_table[op.slot].disk
pos     == op.offset + op.done
logical == containing(pos)
left    == op.count - op.done
in_block == pos % FSBLOCK_SIZE
\* A chunk that does not stop at the end of the block.
chunk_unbounded == left
chunk   == IF left < FSBLOCK_SIZE - in_block THEN left ELSE FSBLOCK_SIZE - in_block

\* The checks before the loop; a call they refuse changes nothing.
write_data(r, offset, count, v) ==
    /\ pc = "idle" /\ ref[r] # NoSlot
    /\ writes < MaxWrites
    /\ offset <= inode_table[ref[r]].disk.size
    /\ count <= MaxBytes - offset
    /\ op' = [NoOp EXCEPT !.slot = ref[r], !.offset = offset, !.count = count, !.value = v]
    /\ pc' = IF count = 0 THEN "update" ELSE "map"
    /\ writes' = writes + 1
    /\ UNCHANGED <<storeVars, inodeVars, cleanVars, i, crashes, reported>>

\* allocate_or_find_block() up to the first missing block.  The table of the indirect
\* block has to be read; logical < MAXFILE, by the checks of write_data().
missing(kind) == pc' = "alloc" /\ op' = [op EXCEPT !.for = kind]
map_block ==
    /\ pc = "map"
    /\ \/ /\ logical < NDIRECT /\ inode.addrs[logical] = 0
          /\ missing("direct")
       \/ /\ logical >= NDIRECT /\ inode.addrs[NDIRECT] = 0
          /\ missing("indirect")
       \/ /\ logical >= NDIRECT /\ inode.addrs[NDIRECT] # 0
          /\ find_block(view, inode, logical) = 0
          /\ missing("entry")
       \/ /\ find_block(view, inode, logical) # 0
          /\ pc' = "data" /\ op' = [op EXCEPT !.block = find_block(view, inode, logical)]
       \/ /\ logical >= NDIRECT /\ inode.addrs[NDIRECT] # 0 /\ "run" \in FailingReads
          /\ pc' = "update" /\ UNCHANGED op
    /\ UNCHANGED <<storeVars, inodeVars, cleanVars, i, writes, crashes, reported>>

\* An allocate_block() without its write_back().
allocate_block_unwritten ==
    /\ pc = "alloc"
    /\ FreeBlocks # {}
    /\ view' = [view EXCEPT ![BITMAP] = @ \cup {FirstFree}]
    /\ pc' = "zero"
    /\ op' = [op EXCEPT !.block = FirstFree]
    /\ UNCHANGED <<disk, inodeVars, cleanVars, i, writes, crashes, reported>>

\* An allocate_block() that does not look at the result of its write_back().
allocate_block_unchecked ==
    /\ pc = "alloc"
    /\ FreeBlocks # {}
    /\ \E outcome \in Outcomes("run") \ {"read_error"} :
        put(BITMAP, view[BITMAP] \cup {FirstFree}, outcome)
    /\ pc' = "zero"
    /\ op' = [op EXCEPT !.block = FirstFree]
    /\ UNCHANGED <<inodeVars, cleanVars, i, writes, crashes, reported>>

\* allocate_block() marks the first free block used...
allocate_block ==
    /\ pc = "alloc"
    /\ \/ /\ FreeBlocks = {}
          /\ pc' = "update"
          /\ UNCHANGED <<storeVars, op>>
       \/ /\ FreeBlocks # {}
          /\ \E outcome \in Outcomes("run") :
                /\ put(BITMAP, view[BITMAP] \cup {FirstFree}, outcome)
                /\ pc' = IF outcome = "written" THEN "zero" ELSE "update"
                /\ op' = [op EXCEPT !.block = FirstFree]
    /\ UNCHANGED <<inodeVars, cleanVars, i, writes, crashes, reported>>

\* ...and clears it; its address goes into the inode, or next into the table.
zero_block ==
    /\ pc = "zero"
    /\ \E outcome \in Outcomes("run") :
        /\ put(op.block, Zero, outcome)
        /\ pc' = IF outcome # "written" THEN "update"
                 ELSE CASE op.for = "direct"   -> "data"
                        [] op.for = "indirect" -> "map"
                        [] op.for = "entry"    -> "table"
        /\ LET place == IF op.for = "direct" THEN logical ELSE NDIRECT
               addrs == [inode.addrs EXCEPT ![place] = op.block]
           IN  inode_table' = IF outcome = "written" /\ op.for # "entry"
                              THEN [inode_table EXCEPT ![op.slot].disk = [inode EXCEPT !.addrs = addrs]]
                              ELSE inode_table
    /\ UNCHANGED <<ref, cleanVars, i, op, writes, crashes, reported>>

\* The entry in the table of the indirect block, which is still borrowed.
write_table ==
    /\ pc = "table"
    /\ \E outcome \in Outcomes("run") \ {"read_error"} :
        LET table == inode.addrs[NDIRECT]
        IN  /\ put(table, [view[table] EXCEPT ![logical - NDIRECT] = op.block], outcome)
            /\ pc' = IF outcome = "written" THEN "data" ELSE "update"
    /\ UNCHANGED <<inodeVars, cleanVars, i, op, writes, crashes, reported>>

\* One round of the loop: the words of one block.
write_block ==
    /\ pc = "data"
    /\ \E outcome \in Outcomes("run") :
        /\ put(op.block, [w \in Words |-> IF w \in in_block .. in_block + chunk - 1
                                          THEN op.value + op.done + (w - in_block)
                                          ELSE view[op.block][w]], outcome)
        /\ IF outcome = "written"
           THEN /\ op' = [op EXCEPT !.done = @ + chunk]
                /\ pc' = IF chunk < left THEN "map" ELSE "update"
                /\ LET n == inode_table[op.slot].number
                   IN  reported' = [reported EXCEPT ![n].words =
                           [w \in 0 .. MaxBytes - 1 |-> IF w \in pos .. pos + chunk - 1
                                                        THEN op.value + (w - op.offset)
                                                        ELSE reported[n].words[w]]]
           ELSE pc' = "update" /\ UNCHANGED <<op, reported>>
    /\ UNCHANGED <<inodeVars, cleanVars, i, writes, crashes>>

\* An inode that is written only when the size changes.
update_inode_if_grown ==
    /\ pc = "update"
    /\ LET n     == inode_table[op.slot].number
           size  == IF pos > inode.size THEN pos ELSE inode.size
           final == [inode EXCEPT !.size = size]
       IN  /\ inode_table' = [inode_table EXCEPT ![op.slot].disk = final]
           /\ \E outcome \in Outcomes("run") :
                /\ IF size = inode.size THEN UNCHANGED storeVars
                   ELSE put(INODES, [view[INODES] EXCEPT ![n] = final], outcome)
                /\ reported' = IF outcome = "written" \/ size = inode.size
                               THEN [reported EXCEPT ![n].size = size] ELSE reported
    /\ pc' = "idle"
    /\ op' = NoOp
    /\ UNCHANGED <<ref, cleanVars, i, writes, crashes>>

\* The new size, and update_inode(), after which write_data() returns.
update_inode ==
    /\ pc = "update"
    /\ LET n     == inode_table[op.slot].number
           size  == IF pos > inode.size THEN pos ELSE inode.size
           final == [inode EXCEPT !.size = size]
       IN  /\ inode_table' = [inode_table EXCEPT ![op.slot].disk = final]
           /\ \E outcome \in Outcomes("run") :
                /\ put(INODES, [view[INODES] EXCEPT ![n] = final], outcome)
                /\ reported' = IF outcome = "written"
                               THEN [reported EXCEPT ![n].size = size] ELSE reported
    /\ pc' = "idle"
    /\ op' = NoOp
    /\ UNCHANGED <<ref, cleanVars, i, writes, crashes>>

write_step == \/ map_block \/ allocate_block \/ zero_block \/ write_table \/ write_block
              \/ update_inode

-----------------------------------------------------------------------------
(* Power failures *)

\* The machine stops and starts again: the device keeps what it has, the next boot calls
\* initialize().
crash ==
    /\ crashes < MaxCrashes
    /\ \/ "format" \in Crashes /\ pc \in FormatSteps
       \/ "run" \in Crashes /\ pc \in WriteSteps \cup CleanSteps \cup {"idle"}
    /\ view' = disk
    /\ inode_table' = [s \in Slots |-> EmptySlot]
    /\ ref' = [r \in Refs |-> NoSlot]
    /\ pc' = "mount"
    /\ op' = NoOp
    /\ cleanup' = NoCleanup
    /\ crashes' = crashes + 1
    /\ UNCHANGED <<disk, i, writes, released, reported>>

Next ==
    \/ mount \/ format \/ write_step \/ free_next \/ clear_inode \/ crash
    \/ \E b \in Blocks : recycle(b)
    \/ \E n \in Inums : release_file(n)
    \/ \E r \in Refs :
        \/ allocate_inode(r) \/ put_inode(r) \/ release_held(r)
        \/ \E n \in Inums : get_inode(r, n)
        \/ \E offset \in 0 .. MaxBytes, count \in Counts, v \in Values :
            write_data(r, offset, count, v)

Spec == Init /\ [][Next]_vars

\* InodeRefs are interchangeable.
RefSymmetry == Permutations(Refs)

-----------------------------------------------------------------------------
(* Properties *)

BlockNumbers == 0 .. Size - 1
InodeType    == [type : {"kUnused", "kDirectory", "kFile"}, size : 0 .. MaxBytes,
                 addrs : [0 .. NDIRECT -> BlockNumbers]]
StoreOK(store) ==
    /\ DOMAIN store = Blocks
    /\ store[SUPER] \in BOOLEAN
    /\ store[INODES] \in [Inums -> InodeType]
    /\ store[BITMAP] \subseteq BlockNumbers
    /\ \A b \in DataBlocks : store[b] \in [Words -> Nat]

\* Sizes stay below MAXFILE blocks and every address within the device.
TypeOK ==
    /\ StoreOK(disk) /\ StoreOK(view)
    /\ inode_table \in [Slots -> [number : Inums \cup {0}, refcnt : Nat, disk : InodeType]]
    /\ ref \in [Refs -> Slots \cup {NoSlot}]
    /\ pc \in FormatSteps \cup WriteSteps \cup CleanSteps \cup {"mount", "idle"}
    /\ i \in 0 .. DATA_START
    /\ op \in [slot : Slots \cup {NoSlot}, offset : 0 .. MaxBytes, count : Counts \cup {0},
               value : Values \cup {0}, done : 0 .. MaxBytes, block : BlockNumbers,
               for : {"direct", "indirect", "entry"}]
    /\ cleanup \in [number : Inums \cup {0}, blocks : SUBSET DataBlocks]
    /\ released \subseteq Inums
    /\ writes \in 0 .. MaxWrites /\ crashes \in 0 .. MaxCrashes
    /\ reported \in [Inums -> [size : 0 .. MaxBytes, words : [0 .. MaxBytes - 1 -> Nat]]]

\* The inodes whose release has not begun.
Live == Inums \ released

\* The blocks that inodes refer to, each with the inode and the place of the reference:
\* a direct block, the indirect block (NDIRECT) or an entry of its table; on the device,
\* in the cache and in the inode table.
Copies(n)  == {disk[INODES][n], view[INODES][n]} \cup {inode_table[s].disk : s \in Held(n)}
Tables(b)  == IF b = 0 THEN {} ELSE {disk[b], view[b]}
References(nums) ==
    {x \in UNION {{<<node.addrs[a], n, a>> : a \in 0 .. NDIRECT, node \in Copies(n)}
                  \cup {<<table[w], n, NDIRECT + 1 + w>> : w \in Words,
                        table \in UNION {Tables(node.addrs[NDIRECT]) : node \in Copies(n)}}
                  : n \in nums} : x[1] # 0}

\* allocate_block(), allocate_or_find_block() and free_block(): a block that an inode or the
\* table of an indirect block refers to, on the device, in the cache or in the inode table,
\* is marked in the bitmap on the device, and only one place of one file refers to it,
\* whatever device write fails and wherever the power goes.  Only a file whose release has
\* begun and was not completed may name blocks that are free or, later, another file's: the
\* release that is cut short harms no other file.
AllocatedOnce ==
    /\ \A x \in References(Live) : x[1] \in disk[BITMAP] \cap view[BITMAP] \cap DataBlocks
    /\ \A x, y \in References(Live) : x[1] = y[1] => x = y

Contents(n, size) == [ok |-> TRUE, data |-> [w \in 0 .. size - 1 |-> reported[n].words[w]]]

\* write_data(): in every state, also in the middle of a call, what a power failure would
\* leave of each file is the size that the last call to return a count left, and all the
\* words written below that size; also while other files are released, however that ends.
Durable ==
    \A n \in Live :
        LET node == disk[INODES][n]
        IN  /\ node.size = reported[n].size
            /\ read_data(disk, node, 0, MaxBytes) = Contents(n, node.size)

\* read_data(): between calls every holder of an inode reads what was written through any
\* of its holders, across block boundaries and through the indirect block, also after a
\* call that was cut short.
ReadsBack ==
    pc = "idle" =>
        \A s \in Slots : inode_table[s].refcnt > 0 =>
            LET node == inode_table[s].disk
            IN  read_data(view, node, 0, MaxBytes) = Contents(inode_table[s].number, node.size)

\* The type invariant, and get_inode() and put_inode(): an inode in use has one slot, whose refcnt is the number of
\* InodeRefs to it.
SlotsExact ==
    /\ TypeOK
    /\ \A s \in Slots : inode_table[s].refcnt = Cardinality({r \in Refs : ref[r] = s})
    /\ \A s, t \in Slots : /\ inode_table[s].refcnt > 0 /\ inode_table[t].refcnt > 0
                           /\ inode_table[s].number = inode_table[t].number
                           => s = t

\* What file_system.hpp:52 says of the magic: a disk that has it is formatted, so that a
\* mounted file system has a root directory.
MagicMeansFormatted ==
    pc = "idle" => view[INODES][ROOT_INODE].type = "kDirectory"
=============================================================================
