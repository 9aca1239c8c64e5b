----------------------------- MODULE BufferCache -----------------------------
(***************************************************************************)
(* The buffer cache (include/buffer_cache.cpp) between the file system and *)
(* the block device: NBUF buffers in least-recently-used order, reference  *)
(* counts, write-back of dirty buffers on eviction and flush().            *)
(*                                                                         *)
(* The kernel is not preemptive and the device is polled, so every call is *)
(* one step; the borrowers (BlockRef and BufferRef objects) interleave     *)
(* between calls.  Any device request may fail.  The hit, miss, eviction   *)
(* and write-back counters, which only a test reads, are left out.         *)
(***************************************************************************)
EXTENDS Integers, FiniteSets

CONSTANTS NBUF,           \* buffers
          Blocks,         \* block numbers
          Values,         \* contents of a block
          Refs,           \* BlockRef and BufferRef objects
          Interfaces,     \* which of the two the borrowers use
          ReadMayFail,    \* may device.read_block() return false?
          WriteMayFail,   \* may device.write_block() return false in a write-back or flush?
          UpdateMayFail   \* ... in the write-through of a BlockRef?

ASSUME BufferCacheConstants ==
    /\ NBUF \in Nat \ {0}
    /\ IsFiniteSet(Refs)
    /\ Blocks \subseteq Nat /\ 0 \in Blocks
    /\ 0 \in Values
    /\ Interfaces \subseteq {"BlockRef", "BufferRef"}
    /\ ReadMayFail \in BOOLEAN
    /\ WriteMayFail \in BOOLEAN /\ UpdateMayFail \in BOOLEAN

Bufs    == 0 .. NBUF - 1
NoBuf   == -1
NoBlock == -1

VARIABLES
    initialized,  \* initialize() has run
    block,        \* Buffer::block_number
    valid,        \* Buffer::valid
    dirty,        \* Buffer::dirty
    refcnt,       \* Buffer::refcnt
    data,         \* Buffer::data
    age,          \* the position in the list, 0 at head.next (most recently used)
    disk,         \* the contents of the device
    number,       \* BlockRef::block_number_, or NoBlock in an empty reference
    buffer        \* the Buffer a reference points into, or NoBuf

bufVars == <<block, valid, dirty, refcnt, data, age>>
vars == <<initialized, bufVars, disk, number, buffer>>

Init ==
    /\ initialized = FALSE
    /\ block  = [i \in Bufs |-> 0]
    /\ valid  = [i \in Bufs |-> FALSE]
    /\ dirty  = [i \in Bufs |-> FALSE]
    /\ refcnt = [i \in Bufs |-> 0]
    /\ data   = [i \in Bufs |-> 0]
    /\ age    = [i \in Bufs |-> 0]
    /\ disk   \in [Blocks -> Values]
    /\ number = [r \in Refs |-> NoBlock]
    /\ buffer = [r \in Refs |-> NoBuf]

\* Every buffer is linked at the head, in index order.  A second call returns false.
initialize ==
    /\ ~initialized
    /\ initialized' = TRUE
    /\ age' = [i \in Bufs |-> NBUF - 1 - i]
    /\ UNCHANGED <<block, valid, dirty, refcnt, data, disk, number, buffer>>

-----------------------------------------------------------------------------
(* The list and the search for a buffer *)

\* Mutant of most_recent: the buffer is linked without being unlinked.
most_recent_linked_twice(i) == [j \in Bufs |-> IF j = i THEN 0 ELSE age[j] + 1]

\* unlink() and link_as_most_recent().
most_recent(i) ==
    [j \in Bufs |-> IF j = i THEN 0 ELSE IF age[j] < age[i] THEN age[j] + 1 ELSE age[j]]

\* Mutant of Cached: a buffer somebody holds is passed over.
CachedUnheld(b) == {i \in Bufs : valid[i] /\ block[i] = b /\ refcnt[i] = 0}

\* The buffers lookup(b) stops at.  Before initialize() the list is empty, and no buffer
\* is valid.
Cached(b) == {i \in Bufs : valid[i] /\ block[i] = b}

\* lookup(b): from the most recently used end.
lookup(b) ==
    IF Cached(b) = {} THEN NoBuf
    ELSE CHOOSE i \in Cached(b) : \A j \in Cached(b) : age[i] <= age[j]

\* Mutant of Reusable: the reference count is not looked at.
ReusableHeld == {i \in Bufs : initialized}

\* What find_cached() may recycle...
Reusable == {i \in Bufs : initialized /\ refcnt[i] = 0}

\* ...from the least recently used end.
IsVictim(i) == i \in Reusable /\ \A j \in Reusable : age[j] <= age[i]

\* Mutant of evict: the changes of a dirty buffer are dropped.
evict_dirty(i) == UNCHANGED disk

\* The write_back() of a buffer that is about to be recycled, when it succeeds.
evict(i) == disk' = IF dirty[i] THEN [disk EXCEPT ![block[i]] = data[i]] ELSE disk

-----------------------------------------------------------------------------
(* Borrowing *)

\* Mutant of acquire_hit: the reference is not counted.
acquire_hit_uncounted(r, b) ==
    /\ lookup(b) # NoBuf
    /\ number' = [number EXCEPT ![r] = b]
    /\ buffer' = [buffer EXCEPT ![r] = lookup(b)]
    /\ UNCHANGED <<initialized, refcnt, block, valid, dirty, data, age, disk>>

\* read() finds the block in the cache.
acquire_hit(r, b) ==
    /\ lookup(b) # NoBuf
    /\ refcnt' = [refcnt EXCEPT ![lookup(b)] = @ + 1]
    /\ number' = [number EXCEPT ![r] = b]
    /\ buffer' = [buffer EXCEPT ![r] = lookup(b)]
    /\ UNCHANGED <<initialized, block, valid, dirty, data, age, disk>>

\* read() recycles the buffer i and fills it from the device.
acquire_miss(r, b, i) ==
    /\ lookup(b) = NoBuf
    /\ IsVictim(i)
    /\ evict(i)
    /\ block'  = [block EXCEPT ![i] = b]
    /\ valid'  = [valid EXCEPT ![i] = TRUE]
    /\ dirty'  = [dirty EXCEPT ![i] = FALSE]
    /\ refcnt' = [refcnt EXCEPT ![i] = 1]
    /\ data'   = [data EXCEPT ![i] = disk'[b]]
    /\ number' = [number EXCEPT ![r] = b]
    /\ buffer' = [buffer EXCEPT ![r] = i]
    /\ UNCHANGED <<initialized, age>>

\* Mutant of acquire_fails: the buffer that was not filled stays valid.
acquire_fails_valid(b, i) ==
    /\ ReadMayFail
    /\ lookup(b) = NoBuf
    /\ IsVictim(i)
    /\ evict(i)
    /\ block' = [block EXCEPT ![i] = b]
    /\ dirty' = [dirty EXCEPT ![i] = FALSE]
    /\ age'   = most_recent(i)
    /\ UNCHANGED <<initialized, valid, refcnt, data, number, buffer>>

\* The device cannot read the block: the recycled buffer is released again, empty.  When
\* the victim cannot be written back, or every buffer is held, nothing changes at all.
acquire_fails(b, i) ==
    /\ ReadMayFail
    /\ lookup(b) = NoBuf
    /\ IsVictim(i)
    /\ evict(i)
    /\ block' = [block EXCEPT ![i] = b]
    /\ valid' = [valid EXCEPT ![i] = FALSE]
    /\ dirty' = [dirty EXCEPT ![i] = FALSE]
    /\ age'   = most_recent(i)
    /\ UNCHANGED <<initialized, refcnt, data, number, buffer>>

acquire(r, b) ==
    /\ buffer[r] = NoBuf
    /\ \/ acquire_hit(r, b)
       \/ \E i \in Bufs : acquire_miss(r, b, i) \/ acquire_fails(b, i)

\* release(i), then the reference r is empty.  A buffer nobody holds any more becomes
\* the most recently used one.
release(r, i) ==
    /\ i # NoBuf
    /\ refcnt[i] > 0
    /\ refcnt' = [refcnt EXCEPT ![i] = @ - 1]
    /\ age' = IF refcnt[i] = 1 THEN most_recent(i) ELSE age
    /\ number' = [number EXCEPT ![r] = NoBlock]
    /\ buffer' = [buffer EXCEPT ![r] = NoBuf]
    /\ UNCHANGED <<initialized, block, valid, dirty, data, disk>>

\* BlockRef::reset() looks the buffer up by its number...
reset_block_ref(r) ==
    /\ "BlockRef" \in Interfaces
    /\ buffer[r] # NoBuf
    /\ release(r, lookup(number[r]))

\* ...and BufferRef::reset() has the pointer.
reset_buffer_ref(r) ==
    /\ "BufferRef" \in Interfaces
    /\ buffer[r] # NoBuf
    /\ release(r, buffer[r])

-----------------------------------------------------------------------------
(* Writing *)

\* write_back(i) for each i in S succeeds, with the contents d of the buffers.
write_back(S, d) ==
    /\ disk' = [b \in Blocks |-> IF \E i \in S : block[i] = b
                                 THEN d[CHOOSE i \in S : block[i] = b] ELSE disk[b]]
    /\ dirty' = [i \in Bufs |-> dirty[i] /\ i \notin S]

\* A BlockRef borrower changes the contents in place and calls write_back() at once,
\* as every caller in the file system does.  write() refuses an invalid buffer.
update(r, v) ==
    /\ "BlockRef" \in Interfaces
    /\ buffer[r] # NoBuf
    /\ data' = [data EXCEPT ![buffer[r]] = v]
    /\ \/ write_back({lookup(number[r])} \ {NoBuf}, data')
       \/ UpdateMayFail /\ UNCHANGED <<disk, dirty>>
    /\ UNCHANGED <<initialized, block, valid, refcnt, age, number, buffer>>

\* A BufferRef borrower changes the contents and calls mark_dirty().
modify(r, v) ==
    /\ "BufferRef" \in Interfaces
    /\ buffer[r] # NoBuf
    /\ data' = [data EXCEPT ![buffer[r]] = v]
    /\ dirty' = [dirty EXCEPT ![buffer[r]] = TRUE]
    /\ UNCHANGED <<initialized, block, valid, refcnt, age, disk, number, buffer>>

\* BufferRef::write(); a failure changes nothing.
write(r) ==
    /\ "BufferRef" \in Interfaces
    /\ buffer[r] # NoBuf
    /\ valid[buffer[r]]
    /\ write_back({buffer[r]}, data)
    /\ UNCHANGED <<initialized, block, valid, refcnt, data, age, number, buffer>>

\* flush(): every valid dirty buffer, except those the device fails on.
flush ==
    LET changed == {i \in Bufs : valid[i] /\ dirty[i]}
    IN  /\ "BufferRef" \in Interfaces
        /\ \E S \in SUBSET changed : (WriteMayFail \/ S = changed) /\ write_back(S, data)
        /\ UNCHANGED <<initialized, block, valid, refcnt, data, age, number, buffer>>

-----------------------------------------------------------------------------

Next ==
    \/ initialize
    \/ \E r \in Refs, b \in Blocks : acquire(r, b)
    \/ \E r \in Refs : reset_block_ref(r) \/ reset_buffer_ref(r)
    \/ \E r \in Refs, v \in Values : update(r, v) \/ modify(r, v)
    \/ \E r \in Refs : write(r)
    \/ flush

Spec == Init /\ [][Next]_vars

-----------------------------------------------------------------------------
(* Properties *)

\* Buffers, list positions, references and contents are what their declarations say;
\* a position outside the list means a buffer linked twice or lost.
TypeOK ==
    /\ initialized \in BOOLEAN
    /\ block  \in [Bufs -> Blocks]
    /\ valid  \in [Bufs -> BOOLEAN]
    /\ dirty  \in [Bufs -> BOOLEAN]
    /\ refcnt \in [Bufs -> Nat]
    /\ data   \in [Bufs -> Values]
    /\ age    \in [Bufs -> 0 .. NBUF - 1]
    /\ disk   \in [Blocks -> Values]
    /\ number \in [Refs -> Blocks \cup {NoBlock}]
    /\ buffer \in [Refs -> Bufs \cup {NoBuf}]

\* A block is in at most one buffer, so two borrowers of a block share its contents, even
\* after recycling and failed reads left stale block numbers behind.
OneCopy == \A i, j \in Bufs : valid[i] /\ valid[j] /\ block[i] = block[j] => i = j

\* A borrowed block stays where it is: as long as the reference lives its buffer holds
\* that block, whatever others acquire, fail to acquire, flush or release.
RefsStable ==
    \A r \in Refs :
        /\ buffer[r] # NoBuf => valid[buffer[r]] /\ block[buffer[r]] = number[r]
        /\ buffer[r] = NoBuf => number[r] = NoBlock

\* Buffer::refcnt is the number of living references to it, so a leaked or forgotten
\* count cannot pin a buffer or free one in use.
RefcntExact == \A i \in Bufs : refcnt[i] = Cardinality({r \in Refs : buffer[r] = i})

\* A buffer that is not dirty holds what the disk holds: recycling it loses nothing.
\* find_cached(): "if changes remain they are always written back before eviction".
CleanMatchesDisk == \A i \in Bufs : valid[i] /\ ~dirty[i] => data[i] = disk[block[i]]

\* Only a buffer with contents can have changed contents.
DirtyIsValid == \A i \in Bufs : dirty[i] => valid[i]

\* The inductive invariant of the cache.
CacheInv == OneCopy /\ RefsStable /\ RefcntExact /\ DirtyIsValid

\* The contents of every block as its borrowers see them.
View == [b \in Blocks |-> IF Cached(b) = {} THEN disk[b] ELSE data[lookup(b)]]

Store == INSTANCE BlockStore WITH view <- View, held <- number

\* The cache is transparent: borrowers cannot tell it from the block store without one.
Transparent == Store!Spec
=============================================================================
