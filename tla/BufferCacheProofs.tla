-------------------------- MODULE BufferCacheProofs --------------------------
(***************************************************************************)
(* The buffer cache keeps its invariant for any number of buffers, blocks  *)
(* and references, and is transparent: it implements module BlockStore.    *)
(***************************************************************************)
EXTENDS BufferCache, FiniteSetTheorems, TLAPS

\* The null values are no buffer and no block.
LEMMA BufFacts == NoBuf \notin Bufs /\ Bufs \subseteq Nat /\ NoBlock \notin Blocks
BY BufferCacheConstants DEF NoBuf, Bufs, NoBlock

\* With one copy of each block, lookup() finds that copy or nothing.
LEMMA LookupFinds ==
    ASSUME TypeOK, OneCopy, NEW b
    PROVE  \/ Cached(b) = {} /\ lookup(b) = NoBuf
           \/ \E i \in Bufs : Cached(b) = {i} /\ lookup(b) = i
<1>1. CASE Cached(b) = {}
  BY <1>1 DEF lookup
<1>2. CASE Cached(b) # {}
  <2>1. PICK i \in Cached(b) : TRUE
    BY <1>2
  <2>2. Cached(b) = {i} /\ i \in Bufs
    BY <2>1 DEF Cached, OneCopy
  <2>3. age[i] <= age[i]
    BY <2>2, BufFacts, BufferCacheConstants DEF TypeOK
  <2>4. lookup(b) = i
    BY <1>2, <2>2, <2>3 DEF lookup
  <2>5. QED
    BY <2>2, <2>4
<1>3. QED
  BY <1>1, <1>2

\* Moving a buffer to the head of the LRU list keeps every position inside the list.
LEMMA MostRecentType ==
    ASSUME TypeOK, NEW i \in Bufs
    PROVE  most_recent(i) \in [Bufs -> 0 .. NBUF - 1]
<1>1. ASSUME NEW j \in Bufs
      PROVE  (IF j = i THEN 0 ELSE IF age[j] < age[i] THEN age[j] + 1 ELSE age[j])
                \in 0 .. NBUF - 1
  <2>1. age[i] \in 0 .. NBUF - 1 /\ age[j] \in 0 .. NBUF - 1 /\ NBUF \in Nat \ {0}
    BY BufferCacheConstants DEF TypeOK
  <2>2. QED
    BY <2>1
<1>2. QED
  BY <1>1 DEF most_recent

\* Whatever is written back are contents of buffers.
LEMMA WriteBackType ==
    ASSUME TypeOK, NEW S \in SUBSET Bufs, NEW d \in [Bufs -> Values], write_back(S, d)
    PROVE  disk' \in [Blocks -> Values] /\ dirty' \in [Bufs -> BOOLEAN]
<1>1. ASSUME NEW b \in Blocks, \E i \in S : block[i] = b
      PROVE  d[CHOOSE i \in S : block[i] = b] \in Values
  BY <1>1
<1>2. disk' \in [Blocks -> Values]
  BY <1>1 DEF write_back, TypeOK
<1>3. QED
  BY <1>2 DEF write_back, TypeOK

\* The write-back of an evicted buffer leaves a disk.
LEMMA EvictType ==
    ASSUME TypeOK, NEW i \in Bufs, evict(i)
    PROVE  disk' \in [Blocks -> Values]
BY DEF evict, TypeOK

\* A BlockRef is released, and written back, through the buffer it points into.
LEMMA LookupOfRef ==
    ASSUME TypeOK, OneCopy, RefsStable, NEW r \in Refs, buffer[r] # NoBuf
    PROVE  lookup(number[r]) = buffer[r] /\ buffer[r] \in Bufs
<1>1. buffer[r] \in Cached(number[r])
  BY DEF RefsStable, Cached, TypeOK
<1>2. QED
  BY <1>1, LookupFinds DEF TypeOK

\* Every call of the cache keeps the types.  write_back() needs the lookup of a living
\* BlockRef to find its buffer, hence OneCopy and RefsStable.
LEMMA TypeInductive ==
    ASSUME TypeOK, OneCopy, RefsStable, [Next]_vars
    PROVE  TypeOK'
<1>1. CASE initialize
  <2>1. age' \in [Bufs -> 0 .. NBUF - 1]
    BY <1>1, BufferCacheConstants DEF initialize, Bufs
  <2>2. QED
    BY <1>1, <2>1 DEF initialize, TypeOK
<1>2. ASSUME NEW r \in Refs, NEW b \in Blocks, acquire_hit(r, b)
      PROVE  TypeOK'
  <2>1. lookup(b) \in Bufs
    BY <1>2, LookupFinds DEF acquire_hit
  <2>2. QED
    BY <1>2, <2>1 DEF acquire_hit, TypeOK
<1>3. ASSUME NEW r \in Refs, NEW b \in Blocks, NEW i \in Bufs, acquire_miss(r, b, i)
      PROVE  TypeOK'
  <2>1. disk' \in [Blocks -> Values]
    BY <1>3, EvictType DEF acquire_miss
  <2>2. QED
    BY <1>3, <2>1 DEF acquire_miss, TypeOK
<1>4. ASSUME NEW b \in Blocks, NEW i \in Bufs, acquire_fails(b, i)
      PROVE  TypeOK'
  <2>1. disk' \in [Blocks -> Values] /\ age' \in [Bufs -> 0 .. NBUF - 1]
    BY <1>4, EvictType, MostRecentType DEF acquire_fails
  <2>2. QED
    BY <1>4, <2>1 DEF acquire_fails, TypeOK
<1>5. ASSUME NEW r \in Refs, reset_block_ref(r) \/ reset_buffer_ref(r)
      PROVE  TypeOK'
  <2>1. buffer[r] \in Bufs /\ release(r, buffer[r])
    BY <1>5, LookupOfRef DEF reset_block_ref, reset_buffer_ref, TypeOK
  <2>2. refcnt' \in [Bufs -> Nat]
    BY <2>1 DEF release, TypeOK
  <2>3. age' \in [Bufs -> 0 .. NBUF - 1]
    BY <2>1, MostRecentType DEF release, TypeOK
  <2>4. QED
    BY <2>1, <2>2, <2>3 DEF release, TypeOK
<1>6. ASSUME NEW r \in Refs, NEW v \in Values, update(r, v)
      PROVE  TypeOK'
  <2>1. data' \in [Bufs -> Values] /\ {lookup(number[r])} \ {NoBuf} \in SUBSET Bufs
    BY <1>6, LookupOfRef DEF update, TypeOK
  <2>2. disk' \in [Blocks -> Values] /\ dirty' \in [Bufs -> BOOLEAN]
    BY <1>6, <2>1, WriteBackType DEF update, TypeOK
  <2>3. QED
    BY <1>6, <2>1, <2>2 DEF update, TypeOK
<1>7. ASSUME NEW r \in Refs, NEW v \in Values, modify(r, v)
      PROVE  TypeOK'
  BY <1>7 DEF modify, TypeOK
<1>8. ASSUME NEW r \in Refs, write(r)
      PROVE  TypeOK'
  <2>1. disk' \in [Blocks -> Values] /\ dirty' \in [Bufs -> BOOLEAN]
    BY <1>8, WriteBackType DEF write, TypeOK
  <2>2. QED
    BY <1>8, <2>1 DEF write, TypeOK
<1>9. CASE flush
  <2>1. disk' \in [Blocks -> Values] /\ dirty' \in [Bufs -> BOOLEAN]
    BY <1>9, WriteBackType DEF flush, TypeOK
  <2>2. QED
    BY <1>9, <2>1 DEF flush, TypeOK
<1>10. CASE UNCHANGED vars
  BY <1>10 DEF vars, bufVars, TypeOK
<1>11. QED
  BY <1>1, <1>2, <1>3, <1>4, <1>5, <1>6, <1>7, <1>8, <1>9, <1>10 DEF Next, acquire

-----------------------------------------------------------------------------
(* Reference counts *)

Holders(i) == {r \in Refs : buffer[r] = i}

\* The references to a buffer can be counted.
LEMMA HoldersFinite ==
    ASSUME NEW i
    PROVE  IsFiniteSet(Holders(i)) /\ Cardinality(Holders(i)) \in Nat
<1>1. Holders(i) \in SUBSET Refs
  BY DEF Holders
<1>2. IsFiniteSet(Holders(i))
  BY <1>1, FS_Subset, BufferCacheConstants
<1>3. QED
  BY <1>2, FS_CardinalityType

\* A reference count of 0 means that no living reference points to the buffer.
LEMMA Unheld ==
    ASSUME TypeOK, RefcntExact, NEW i \in Bufs
    PROVE  refcnt[i] = 0 <=> \A r \in Refs : buffer[r] # i
<1>1. refcnt[i] = Cardinality(Holders(i))
  BY DEF RefcntExact, Holders
<1>2. refcnt[i] = 0 <=> Holders(i) = {}
  BY <1>1, HoldersFinite, FS_EmptySet
<1>3. QED
  BY <1>2 DEF Holders

\* An empty reference takes the buffer i.
LEMMA RefTaken ==
    ASSUME TypeOK, RefcntExact, NEW r \in Refs, buffer[r] = NoBuf, NEW i \in Bufs,
           buffer' = [buffer EXCEPT ![r] = i],
           refcnt' = [refcnt EXCEPT ![i] = refcnt[i] + 1]
    PROVE  RefcntExact'
<1>1. SUFFICES ASSUME NEW j \in Bufs
               PROVE  refcnt'[j] = Cardinality(Holders(j)')
  BY DEF RefcntExact, Holders
<1>2. refcnt[j] = Cardinality(Holders(j))
  BY DEF RefcntExact, Holders
<1>3. CASE j = i
  <2>1. Holders(j)' = Holders(j) \cup {r} /\ r \notin Holders(j)
    BY <1>3, BufFacts DEF Holders, TypeOK
  <2>2. Cardinality(Holders(j)') = Cardinality(Holders(j)) + 1
    BY <2>1, HoldersFinite, FS_AddElement
  <2>3. QED
    BY <1>2, <1>3, <2>2 DEF TypeOK
<1>4. CASE j # i
  <2>1. Holders(j)' = Holders(j)
    BY <1>4, BufFacts DEF Holders, TypeOK
  <2>2. QED
    BY <1>2, <1>4, <2>1 DEF TypeOK
<1>5. QED
  BY <1>3, <1>4

\* A reference to the buffer i becomes empty.
LEMMA RefGiven ==
    ASSUME TypeOK, RefcntExact, NEW r \in Refs, NEW i \in Bufs, buffer[r] = i,
           buffer' = [buffer EXCEPT ![r] = NoBuf],
           refcnt' = [refcnt EXCEPT ![i] = refcnt[i] - 1]
    PROVE  RefcntExact'
<1>1. SUFFICES ASSUME NEW j \in Bufs
               PROVE  refcnt'[j] = Cardinality(Holders(j)')
  BY DEF RefcntExact, Holders
<1>2. refcnt[j] = Cardinality(Holders(j))
  BY DEF RefcntExact, Holders
<1>3. CASE j = i
  <2>1. Holders(j)' = Holders(j) \ {r} /\ r \in Holders(j)
    BY <1>3, BufFacts DEF Holders, TypeOK
  <2>2. Cardinality(Holders(j)') = Cardinality(Holders(j)) - 1
    BY <2>1, HoldersFinite, FS_RemoveElement
  <2>3. QED
    BY <1>2, <1>3, <2>2 DEF TypeOK
<1>4. CASE j # i
  <2>1. Holders(j)' = Holders(j)
    BY <1>4, BufFacts DEF Holders, TypeOK
  <2>2. QED
    BY <1>2, <1>4, <2>1 DEF TypeOK
<1>5. QED
  BY <1>3, <1>4

-----------------------------------------------------------------------------
(* The inductive invariant *)

\* read() through a reference, on a hit, a miss and a failed read.
LEMMA AcquireInv ==
    ASSUME TypeOK, CacheInv, NEW r \in Refs, NEW b \in Blocks, acquire(r, b)
    PROVE  CacheInv'
<1>1. buffer[r] = NoBuf
  BY DEF acquire
<1>2. CASE acquire_hit(r, b)
  <2>1. PICK i \in Bufs : Cached(b) = {i} /\ lookup(b) = i
    BY <1>2, LookupFinds DEF CacheInv, acquire_hit
  <2>2. valid[i] /\ block[i] = b
    BY <2>1 DEF Cached
  <2>3. RefcntExact'
    BY <1>1, <1>2, <2>1, RefTaken DEF CacheInv, acquire_hit
  <2>4. RefsStable'
    BY <1>2, <2>1, <2>2 DEF CacheInv, RefsStable, acquire_hit, TypeOK
  <2>5. OneCopy' /\ DirtyIsValid'
    BY <1>2 DEF CacheInv, OneCopy, DirtyIsValid, acquire_hit
  <2>6. QED
    BY <2>3, <2>4, <2>5 DEF CacheInv
<1>3. ASSUME NEW i \in Bufs, acquire_miss(r, b, i)
      PROVE  CacheInv'
  <2>1. refcnt[i] = 0 /\ Cached(b) = {}
    BY <1>3, LookupFinds, BufFacts DEF CacheInv, acquire_miss, IsVictim, Reusable
  <2>2. \A x \in Refs : buffer[x] # i
    BY <2>1, Unheld DEF CacheInv
  <2>3. RefcntExact'
    <3>1. refcnt[i] + 1 = 1
      BY <2>1
    <3>2. refcnt' = [refcnt EXCEPT ![i] = refcnt[i] + 1]
      BY <1>3, <3>1 DEF acquire_miss
    <3>3. QED
      BY <1>1, <1>3, <3>2, RefTaken DEF CacheInv, acquire_miss
  <2>4. RefsStable'
    <3>1. buffer'[r] = i /\ number'[r] = b /\ valid'[i] /\ block'[i] = b
      BY <1>3 DEF acquire_miss, TypeOK
    <3>2. \A x \in Refs \ {r} : buffer'[x] = buffer[x] /\ number'[x] = number[x]
      BY <1>3 DEF acquire_miss, TypeOK
    <3>3. \A j \in Bufs \ {i} : valid'[j] = valid[j] /\ block'[j] = block[j]
      BY <1>3 DEF acquire_miss, TypeOK
    <3>4. \A x \in Refs : buffer[x] \in Bufs \cup {NoBuf}
      BY DEF TypeOK
    <3>5. ASSUME NEW x \in Refs
          PROVE  /\ buffer'[x] # NoBuf => valid'[buffer'[x]] /\ block'[buffer'[x]] = number'[x]
                 /\ buffer'[x] = NoBuf => number'[x] = NoBlock
      <4>1. CASE x = r
        BY <3>1, <4>1, BufFacts
      <4>2. CASE x # r
        BY <2>2, <3>2, <3>3, <3>4, <4>2 DEF CacheInv, RefsStable
      <4>3. QED
        BY <4>1, <4>2
    <3>6. QED
      BY <3>5 DEF RefsStable
  <2>5. OneCopy' /\ DirtyIsValid'
    BY <1>3, <2>1 DEF CacheInv, OneCopy, DirtyIsValid, acquire_miss, TypeOK, Cached
  <2>6. QED
    BY <2>3, <2>4, <2>5 DEF CacheInv
<1>4. ASSUME NEW i \in Bufs, acquire_fails(b, i)
      PROVE  CacheInv'
  <2>1. refcnt[i] = 0
    BY <1>4 DEF acquire_fails, IsVictim, Reusable
  <2>2. \A x \in Refs : buffer[x] # i
    BY <2>1, Unheld DEF CacheInv
  <2>3. RefcntExact'
    BY <1>4 DEF CacheInv, RefcntExact, acquire_fails
  <2>4. RefsStable'
    BY <1>4, <2>2 DEF CacheInv, RefsStable, acquire_fails, TypeOK
  <2>5. OneCopy' /\ DirtyIsValid'
    BY <1>4 DEF CacheInv, OneCopy, DirtyIsValid, acquire_fails, TypeOK
  <2>6. QED
    BY <2>3, <2>4, <2>5 DEF CacheInv
<1>5. QED
  BY <1>2, <1>3, <1>4 DEF acquire

\* Both kinds of reset() release the buffer the reference points into.
LEMMA ResetReleases ==
    ASSUME TypeOK, CacheInv, NEW r \in Refs, reset_block_ref(r) \/ reset_buffer_ref(r)
    PROVE  buffer[r] \in Bufs /\ release(r, buffer[r])
BY LookupOfRef DEF CacheInv, reset_block_ref, reset_buffer_ref, TypeOK

\* Giving a reference back, by number or by pointer.
LEMMA ResetInv ==
    ASSUME TypeOK, CacheInv, NEW r \in Refs, reset_block_ref(r) \/ reset_buffer_ref(r)
    PROVE  CacheInv'
<1>1. buffer[r] \in Bufs /\ release(r, buffer[r])
  BY ResetReleases
<1>2. RefcntExact'
  BY <1>1, RefGiven DEF CacheInv, release
<1>3. RefsStable'
  BY <1>1 DEF CacheInv, RefsStable, release, TypeOK
<1>4. OneCopy' /\ DirtyIsValid'
  BY <1>1 DEF CacheInv, OneCopy, DirtyIsValid, release
<1>5. QED
  BY <1>2, <1>3, <1>4 DEF CacheInv

\* Writing moves no block and no reference.
LEMMA WriteInv ==
    ASSUME TypeOK, CacheInv,
           UNCHANGED <<initialized, block, valid, refcnt, number, buffer>>,
           \A i \in Bufs : dirty'[i] => valid[i]
    PROVE  CacheInv'
BY DEF CacheInv, OneCopy, RefsStable, RefcntExact, DirtyIsValid

\* The invariant of the cache is kept by every call.
LEMMA CacheInductive ==
    ASSUME TypeOK, CacheInv, [Next]_vars
    PROVE  CacheInv'
<1>1. CASE initialize
  BY <1>1 DEF initialize, CacheInv, OneCopy, RefsStable, RefcntExact, DirtyIsValid
<1>2. ASSUME NEW r \in Refs, NEW b \in Blocks, acquire(r, b)
      PROVE  CacheInv'
  BY <1>2, AcquireInv
<1>3. ASSUME NEW r \in Refs, reset_block_ref(r) \/ reset_buffer_ref(r)
      PROVE  CacheInv'
  BY <1>3, ResetInv
<1>4. ASSUME NEW r \in Refs, NEW v \in Values, update(r, v)
      PROVE  CacheInv'
  <2>1. \A i \in Bufs : dirty'[i] => dirty[i]
    BY <1>4 DEF update, write_back
  <2>2. QED
    BY <1>4, <2>1, WriteInv DEF update, CacheInv, DirtyIsValid
<1>5. ASSUME NEW r \in Refs, NEW v \in Values, modify(r, v)
      PROVE  CacheInv'
  <2>1. \A i \in Bufs : dirty'[i] => valid[i]
    BY <1>5 DEF modify, CacheInv, DirtyIsValid, RefsStable, TypeOK
  <2>2. QED
    BY <1>5, <2>1, WriteInv DEF modify
<1>6. ASSUME NEW r \in Refs, write(r)
      PROVE  CacheInv'
  BY <1>6, WriteInv DEF write, write_back, CacheInv, DirtyIsValid
<1>7. CASE flush
  BY <1>7, WriteInv DEF flush, write_back, CacheInv, DirtyIsValid
<1>8. CASE UNCHANGED vars
  BY <1>8 DEF vars, bufVars, CacheInv, OneCopy, RefsStable, RefcntExact, DirtyIsValid
<1>9. QED
  BY <1>1, <1>2, <1>3, <1>4, <1>5, <1>6, <1>7, <1>8 DEF Next

\* An empty cache satisfies the invariant.
LEMMA InitInv == Init => TypeOK /\ CacheInv
<1>1. SUFFICES ASSUME Init PROVE TypeOK /\ CacheInv
  OBVIOUS
<1>2. TypeOK
  <2>1. 0 \in 0 .. NBUF - 1 /\ 0 \in Blocks /\ 0 \in Values
    BY BufferCacheConstants
  <2>2. QED
    BY <1>1, <2>1 DEF Init, TypeOK
<1>3. RefcntExact
  <2>1. SUFFICES ASSUME NEW i \in Bufs PROVE refcnt[i] = Cardinality(Holders(i))
    BY DEF RefcntExact, Holders
  <2>2. Holders(i) = {}
    BY <1>1, <2>1, BufFacts DEF Init, Holders
  <2>3. QED
    BY <1>1, <2>1, <2>2, FS_EmptySet DEF Init
<1>4. OneCopy /\ RefsStable /\ DirtyIsValid
  BY <1>1 DEF Init, OneCopy, RefsStable, DirtyIsValid
<1>5. QED
  BY <1>2, <1>3, <1>4 DEF CacheInv

\* Types and the cache's invariant: one copy of each block, borrowed blocks that stay in
\* place, exact reference counts.
THEOREM CacheCorrect == Spec => [](TypeOK /\ CacheInv)
<1>1. TypeOK /\ CacheInv /\ [Next]_vars => TypeOK' /\ CacheInv'
  BY TypeInductive, CacheInductive DEF CacheInv
<1>2. QED
  BY <1>1, InitInv, PTL DEF Spec

\* acquire() and find_cached(): no block is ever in two buffers.
THEOREM BlocksHaveOneCopy == Spec => []OneCopy
BY CacheCorrect, PTL DEF CacheInv

\* acquire() and release(): a borrowed block stays in its buffer while others come and go.
THEOREM BorrowedBlocksStay == Spec => []RefsStable
BY CacheCorrect, PTL DEF CacheInv

\* BlockRef and BufferRef: each buffer's refcnt is the number of its borrowers.
THEOREM BufferRefcntsExact == Spec => []RefcntExact
BY CacheCorrect, PTL DEF CacheInv

-----------------------------------------------------------------------------
(* Transparency.  A failed write of a BlockRef borrower leaves a changed buffer  *)
(* that is not dirty, so the theorem is about borrowers that mark their buffers  *)
(* dirty, or a device that does not fail those writes; others may fail.         *)

NoFailedUpdate == "BlockRef" \notin Interfaces \/ ~UpdateMayFail

\* What write_back() does to the blocks, and leaves alone.
LEMMA WriteBackDisk ==
    ASSUME TypeOK, OneCopy, NEW S \in SUBSET Bufs, \A i \in S : valid[i], NEW d,
           write_back(S, d)
    PROVE  /\ \A i \in S : disk'[block[i]] = d[i]
           /\ \A b \in Blocks : (\A i \in S : block[i] # b) => disk'[b] = disk[b]
           /\ \A i \in Bufs \ S : valid[i] => disk'[block[i]] = disk[block[i]]
<1>1. ASSUME NEW i \in S
      PROVE  disk'[block[i]] = d[i]
  <2>1. block[i] \in Blocks
    BY <1>1 DEF TypeOK
  <2>2. (CHOOSE j \in S : block[j] = block[i]) = i
    BY <1>1 DEF OneCopy
  <2>3. QED
    BY <1>1, <2>1, <2>2 DEF write_back
<1>2. ASSUME NEW b \in Blocks, \A i \in S : block[i] # b
      PROVE  disk'[b] = disk[b]
  BY <1>2 DEF write_back
<1>3. ASSUME NEW i \in Bufs \ S, valid[i]
      PROVE  disk'[block[i]] = disk[block[i]]
  <2>1. block[i] \in Blocks /\ \A j \in S : block[j] # block[i]
    BY <1>3 DEF TypeOK, OneCopy
  <2>2. QED
    BY <1>2, <2>1
<1>4. QED
  BY <1>1, <1>2, <1>3

\* The write-back of a victim touches its own block only.
LEMMA EvictDisk ==
    ASSUME TypeOK, CacheInv, NEW i \in Bufs, evict(i)
    PROVE  /\ \A j \in Bufs \ {i} : valid[j] => disk'[block[j]] = disk[block[j]]
           /\ \A b \in Blocks : disk'[b] = disk[b]
                               \/ (b = block[i] /\ dirty[i] /\ disk'[b] = data[i])
           /\ dirty[i] => disk'[block[i]] = data[i]
           /\ ~dirty[i] => disk' = disk
<1>1. CASE dirty[i]
  <2>1. disk' = [disk EXCEPT ![block[i]] = data[i]] /\ block[i] \in Blocks /\ valid[i]
    BY <1>1 DEF evict, TypeOK, CacheInv, DirtyIsValid
  <2>2. \A j \in Bufs \ {i} : valid[j] => block[j] \in Blocks /\ block[j] # block[i]
    BY <2>1 DEF TypeOK, CacheInv, OneCopy
  <2>3. QED
    <3>1. \A b \in Blocks : disk'[b] = IF b = block[i] THEN data[i] ELSE disk[b]
      BY <2>1 DEF TypeOK
    <3>2. QED
      BY <1>1, <2>1, <2>2, <3>1
<1>2. CASE ~dirty[i]
  <2>1. disk' = disk
    BY <1>2 DEF evict
  <2>2. QED
    BY <1>2, <2>1
<1>3. QED
  BY <1>1, <1>2

\* What is clean after a write_back() was written, or was clean before.
LEMMA WriteBackClean ==
    ASSUME NEW S, NEW d, write_back(S, d), NEW i \in Bufs, ~dirty'[i]
    PROVE  i \in S \/ ~dirty[i]
BY DEF write_back

\* A clean buffer goes on holding what the disk holds, if no BlockRef update can fail to be
\* written through.
LEMMA CleanInductive ==
    ASSUME TypeOK, CacheInv, CleanMatchesDisk, NoFailedUpdate, [Next]_vars
    PROVE  CleanMatchesDisk'
<1>1. CASE initialize
  BY <1>1 DEF initialize, CleanMatchesDisk
<1>2. ASSUME NEW r \in Refs, NEW b \in Blocks, acquire_hit(r, b)
      PROVE  CleanMatchesDisk'
  BY <1>2 DEF acquire_hit, CleanMatchesDisk
<1>3. ASSUME NEW r \in Refs, NEW b \in Blocks, NEW i \in Bufs, acquire_miss(r, b, i)
      PROVE  CleanMatchesDisk'
  <2>1. \A j \in Bufs \ {i} : valid[j] => disk'[block[j]] = disk[block[j]]
    BY <1>3, EvictDisk DEF acquire_miss
  <2>2. QED
    BY <1>3, <2>1 DEF acquire_miss, CleanMatchesDisk, TypeOK
<1>4. ASSUME NEW b \in Blocks, NEW i \in Bufs, acquire_fails(b, i)
      PROVE  CleanMatchesDisk'
  <2>1. \A j \in Bufs \ {i} : valid[j] => disk'[block[j]] = disk[block[j]]
    BY <1>4, EvictDisk DEF acquire_fails
  <2>2. QED
    BY <1>4, <2>1 DEF acquire_fails, CleanMatchesDisk, TypeOK
<1>5. ASSUME NEW r \in Refs, reset_block_ref(r) \/ reset_buffer_ref(r)
      PROVE  CleanMatchesDisk'
  BY <1>5, ResetReleases DEF release, CleanMatchesDisk
<1>6. ASSUME NEW r \in Refs, NEW v \in Values, update(r, v)
      PROVE  CleanMatchesDisk'
  <2>1. lookup(number[r]) = buffer[r] /\ buffer[r] \in Bufs /\ valid[buffer[r]]
    BY <1>6, LookupOfRef DEF update, CacheInv, RefsStable
  <2>2. {lookup(number[r])} \ {NoBuf} = {buffer[r]}
    BY <2>1, BufFacts
  <2>3. write_back({buffer[r]}, data')
    BY <1>6, <2>2 DEF update, NoFailedUpdate
  <2>4. /\ disk'[block[buffer[r]]] = data'[buffer[r]]
        /\ \A i \in Bufs \ {buffer[r]} : valid[i] => disk'[block[i]] = disk[block[i]]
    <3>1. PICK S, d : S = {buffer[r]} /\ d = data'
      OBVIOUS
    <3>2. TypeOK /\ OneCopy /\ S \in SUBSET Bufs /\ (\A i \in S : valid[i]) /\ write_back(S, d)
      BY <2>1, <2>3, <3>1 DEF CacheInv
    <3>3. /\ \A i \in S : disk'[block[i]] = d[i]
          /\ \A i \in Bufs \ S : valid[i] => disk'[block[i]] = disk[block[i]]
      BY <3>2, WriteBackDisk
    <3>4. QED
      BY <3>1, <3>3
  <2>5. QED
    BY <1>6, <2>1, <2>3, <2>4, WriteBackClean DEF update, CleanMatchesDisk, TypeOK
<1>7. ASSUME NEW r \in Refs, NEW v \in Values, modify(r, v)
      PROVE  CleanMatchesDisk'
  BY <1>7 DEF modify, CleanMatchesDisk, TypeOK
<1>8. ASSUME NEW r \in Refs, write(r)
      PROVE  CleanMatchesDisk'
  <2>1. buffer[r] \in Bufs /\ valid[buffer[r]]
    BY <1>8 DEF write, TypeOK
  <2>2. /\ disk'[block[buffer[r]]] = data[buffer[r]]
        /\ \A i \in Bufs \ {buffer[r]} : valid[i] => disk'[block[i]] = disk[block[i]]
    BY <1>8, <2>1, WriteBackDisk DEF write, CacheInv
  <2>3. QED
    BY <1>8, <2>1, <2>2, WriteBackClean DEF write, CleanMatchesDisk, TypeOK
<1>9. CASE flush
  <2>1. PICK S \in SUBSET {i \in Bufs : valid[i] /\ dirty[i]} : write_back(S, data)
    BY <1>9 DEF flush
  <2>2. /\ \A i \in S : disk'[block[i]] = data[i]
        /\ \A i \in Bufs \ S : valid[i] => disk'[block[i]] = disk[block[i]]
    BY <2>1, WriteBackDisk DEF CacheInv
  <2>3. QED
    BY <1>9, <2>1, <2>2, WriteBackClean DEF flush, CleanMatchesDisk, TypeOK
<1>10. CASE UNCHANGED vars
  BY <1>10 DEF vars, bufVars, CleanMatchesDisk
<1>11. QED
  BY <1>1, <1>2, <1>3, <1>4, <1>5, <1>6, <1>7, <1>8, <1>9, <1>10 DEF Next, acquire

\* Unless an update fails, a buffer that is not dirty can be recycled without loss.
THEOREM CleanBuffers ==
    ASSUME NoFailedUpdate
    PROVE  Spec => []CleanMatchesDisk
<1>1. Init => CleanMatchesDisk
  BY DEF Init, CleanMatchesDisk
<1>2. TypeOK /\ CacheInv /\ CleanMatchesDisk /\ [Next]_vars => CleanMatchesDisk'
  BY CleanInductive
<1>3. QED
  BY <1>1, <1>2, CacheCorrect, PTL DEF Spec

\* What borrowers see: the buffer that holds the block, or else the disk.
ViewFacts ==
    /\ View = [b \in Blocks |-> View[b]]
    /\ \A i \in Bufs : valid[i] => View[block[i]] = data[i]
    /\ \A b \in Blocks : (\A i \in Bufs : ~(valid[i] /\ block[i] = b)) => View[b] = disk[b]

\* What borrowers see, in terms of the buffers: with one copy of each block the contents of
\* a cached block are those of its buffer.
LEMMA ViewOfBuffers == TypeOK /\ OneCopy => ViewFacts
<1>1. SUFFICES ASSUME TypeOK, OneCopy PROVE ViewFacts
  OBVIOUS
<1>2. ASSUME NEW i \in Bufs, valid[i]
      PROVE  View[block[i]] = data[i]
  <2>1. block[i] \in Blocks /\ i \in Cached(block[i])
    BY <1>1, <1>2 DEF TypeOK, Cached
  <2>2. lookup(block[i]) = i /\ Cached(block[i]) # {}
    BY <1>1, <2>1, LookupFinds
  <2>3. QED
    BY <2>1, <2>2 DEF View
<1>3. ASSUME NEW b \in Blocks, \A i \in Bufs : ~(valid[i] /\ block[i] = b)
      PROVE  View[b] = disk[b]
  <2>1. Cached(b) = {}
    BY <1>3 DEF Cached
  <2>2. QED
    BY <2>1 DEF View
<1>4. View = [b \in Blocks |-> View[b]]
  BY DEF View
<1>5. QED
  BY <1>2, <1>3, <1>4 DEF ViewFacts

\* A step may write some of the blocks back, as they are seen after it.
LEMMA SomeWrittenBack ==
    ASSUME TypeOK, TypeOK', \A b \in Blocks : disk'[b] = disk[b] \/ disk'[b] = View'[b]
    PROVE  Store!WritesBack
<1> DEFINE S == {b \in Blocks : disk'[b] = View'[b]}
<1>1. disk' = [b \in Blocks |-> disk'[b]]
  BY DEF TypeOK
<1>2. disk' = [b \in Blocks |-> IF b \in S THEN View'[b] ELSE disk[b]]
  BY <1>1
<1>3. S \in SUBSET Blocks
  OBVIOUS
<1>4. QED
  BY <1>2, <1>3 DEF Store!WritesBack

\* Two views that agree on every block are the same.
LEMMA SameView ==
    ASSUME ViewFacts, ViewFacts', \A b \in Blocks : View'[b] = View[b]
    PROVE  View' = View
BY DEF ViewFacts

\* Recycling a buffer changes no block: its changes are on the disk.
LEMMA RecycledView ==
    ASSUME TypeOK, CacheInv, CleanMatchesDisk, ViewFacts, ViewFacts',
           NEW b \in Blocks, NEW i \in Bufs, Cached(b) = {}, evict(i),
           \A j \in Bufs \ {i} : valid'[j] = valid[j] /\ block'[j] = block[j]
                                   /\ data'[j] = data[j],
           block'[i] = b,
           valid'[i] => data'[i] = disk'[b]
    PROVE  /\ \A c \in Blocks : View'[c] = View[c]
           /\ \A c \in Blocks : disk'[c] = disk[c] \/ disk'[c] = View'[c]
<1>1. /\ \A c \in Blocks : disk'[c] = disk[c]
                          \/ (c = block[i] /\ dirty[i] /\ disk'[c] = data[i])
      /\ dirty[i] => disk'[block[i]] = data[i]
      /\ ~dirty[i] => disk' = disk
  BY EvictDisk
<1>2. valid[i] => block[i] # b /\ block[i] \in Blocks /\ disk'[block[i]] = data[i]
  BY <1>1 DEF Cached, TypeOK, CleanMatchesDisk
<1>3. \A j \in Bufs : ~(valid[j] /\ block[j] = b)
  BY DEF Cached
<1>4. disk'[b] = disk[b]
  BY <1>1, <1>3 DEF CacheInv, DirtyIsValid
<1>5. ASSUME NEW c \in Blocks
      PROVE  View'[c] = View[c] /\ (disk'[c] = disk[c] \/ disk'[c] = View'[c])
  <2>1. CASE c = b
    <3>1. View[c] = disk[b]
      BY <1>3, <2>1 DEF ViewFacts
    <3>2. View'[c] = disk'[b]
      <4>1. CASE valid'[i]
        BY <2>1, <4>1 DEF ViewFacts
      <4>2. CASE ~valid'[i]
        BY <1>3, <2>1, <4>2 DEF ViewFacts
      <4>3. QED
        BY <4>1, <4>2
    <3>3. QED
      BY <1>4, <2>1, <3>1, <3>2
  <2>2. CASE c # b /\ \E j \in Bufs \ {i} : valid[j] /\ block[j] = c
    <3>1. PICK j \in Bufs \ {i} : valid[j] /\ block[j] = c
      BY <2>2
    <3>2. View[c] = data[j] /\ View'[c] = data[j]
      BY <3>1 DEF ViewFacts
    <3>3. disk'[c] = disk[c]
      BY <3>1, EvictDisk
    <3>4. QED
      BY <3>2, <3>3
  <2>3. CASE c # b /\ ~ \E j \in Bufs \ {i} : valid[j] /\ block[j] = c
    <3>1. View'[c] = disk'[c]
      BY <2>3 DEF ViewFacts
    <3>2. View[c] = disk'[c]
      <4>1. CASE valid[i] /\ block[i] = c
        BY <1>2, <4>1 DEF ViewFacts
      <4>2. CASE ~(valid[i] /\ block[i] = c)
        <5>1. View[c] = disk[c]
          BY <2>3, <4>2 DEF ViewFacts
        <5>2. disk'[c] = disk[c]
          BY <1>1, <4>2 DEF CacheInv, DirtyIsValid
        <5>3. QED
          BY <5>1, <5>2
      <4>3. QED
        BY <4>1, <4>2
    <3>3. QED
      BY <3>1, <3>2
  <2>4. QED
    BY <2>1, <2>2, <2>3
<1>6. QED
  BY <1>5

\* Writing buffers back leaves the view to their contents alone.
LEMMA WrittenView ==
    ASSUME TypeOK, CacheInv, ViewFacts, ViewFacts', UNCHANGED <<block, valid>>,
           NEW S \in SUBSET Bufs, \A i \in S : valid[i], write_back(S, data')
    PROVE  \A c \in Blocks :
              /\ disk'[c] = disk[c] \/ disk'[c] = View'[c]
              /\ (\A i \in Bufs : ~(valid[i] /\ block[i] = c)) => View'[c] = View[c]
<1>1. /\ \A i \in S : disk'[block[i]] = data'[i]
      /\ \A b \in Blocks : (\A i \in S : block[i] # b) => disk'[b] = disk[b]
  BY WriteBackDisk DEF CacheInv
<1>2. SUFFICES ASSUME NEW c \in Blocks
               PROVE  /\ disk'[c] = disk[c] \/ disk'[c] = View'[c]
                      /\ (\A i \in Bufs : ~(valid[i] /\ block[i] = c)) => View'[c] = View[c]
  OBVIOUS
<1>3. CASE \E i \in S : block[i] = c
  BY <1>1, <1>3 DEF ViewFacts
<1>4. CASE \A i \in S : block[i] # c
  BY <1>1, <1>4 DEF ViewFacts
<1>5. QED
  BY <1>3, <1>4

\* New contents of a borrowed buffer are new contents of its block, and of no other.
LEMMA UpdatedView ==
    ASSUME TypeOK, CacheInv, ViewFacts, ViewFacts', UNCHANGED <<block, valid>>,
           NEW r \in Refs, buffer[r] # NoBuf, NEW v,
           data' = [data EXCEPT ![buffer[r]] = v],
           \A c \in Blocks : (\A i \in Bufs : ~(valid[i] /\ block[i] = c)) => View'[c] = View[c]
    PROVE  number[r] \in Blocks /\ View' = [View EXCEPT ![number[r]] = v]
<1>1. /\ buffer[r] \in Bufs /\ valid[buffer[r]] /\ block[buffer[r]] = number[r]
      /\ number[r] \in Blocks
  BY DEF CacheInv, RefsStable, TypeOK
<1>2. View'[number[r]] = v
  BY <1>1 DEF ViewFacts, TypeOK
<1>3. ASSUME NEW c \in Blocks, c # number[r]
      PROVE  View'[c] = View[c]
  <2>1. CASE \E i \in Bufs : valid[i] /\ block[i] = c
    <3>1. PICK i \in Bufs : valid[i] /\ block[i] = c
      BY <2>1
    <3>2. data'[i] = data[i]
      BY <1>1, <1>3, <3>1 DEF TypeOK
    <3>3. QED
      BY <3>1, <3>2 DEF ViewFacts
  <2>2. CASE ~ \E i \in Bufs : valid[i] /\ block[i] = c
    BY <2>2
  <2>3. QED
    BY <2>1, <2>2
<1>4. View' = [c \in Blocks |-> View'[c]] /\ View = [c \in Blocks |-> View[c]]
  BY DEF ViewFacts
<1>5. QED
  BY <1>1, <1>2, <1>3, <1>4

\* Every call of the cache is a step of the block store without a cache, or invisible.
LEMMA StoreStep ==
    ASSUME TypeOK, TypeOK', CacheInv, CacheInv', CleanMatchesDisk, NoFailedUpdate,
           ViewFacts, ViewFacts', [Next]_vars
    PROVE  Store!Next \/ UNCHANGED <<View, disk, number>>
<1>1. CASE initialize
  <2>1. \A b \in Blocks : View'[b] = View[b]
    BY <1>1 DEF initialize, ViewFacts
  <2>2. QED
    BY <1>1, <2>1, SameView DEF initialize
<1>2. ASSUME NEW r \in Refs, NEW b \in Blocks, buffer[r] = NoBuf, acquire_hit(r, b)
      PROVE  Store!Next
  <2>1. \A c \in Blocks : View'[c] = View[c]
    BY <1>2 DEF acquire_hit, ViewFacts
  <2>2. Store!WritesBack
    BY <1>2, SomeWrittenBack DEF acquire_hit
  <2>3. Store!Acquire(r, b)
    BY <1>2, <2>1, <2>2, SameView DEF CacheInv, RefsStable, acquire_hit, Store!Acquire
  <2>4. QED
    BY <2>3 DEF Store!Next
<1>3. ASSUME NEW r \in Refs, NEW b \in Blocks, buffer[r] = NoBuf,
             NEW i \in Bufs, acquire_miss(r, b, i)
      PROVE  Store!Next
  <2>1. Cached(b) = {}
    BY <1>3, LookupFinds, BufFacts DEF CacheInv, acquire_miss
  <2>2. /\ \A c \in Blocks : View'[c] = View[c]
        /\ \A c \in Blocks : disk'[c] = disk[c] \/ disk'[c] = View'[c]
    BY <1>3, <2>1, RecycledView DEF acquire_miss, TypeOK
  <2>3. Store!WritesBack
    BY <2>2, SomeWrittenBack
  <2>4. Store!Acquire(r, b)
    BY <1>3, <2>2, <2>3, SameView DEF CacheInv, RefsStable, acquire_miss, Store!Acquire
  <2>5. QED
    BY <2>4 DEF Store!Next
<1>4. ASSUME NEW b \in Blocks, NEW i \in Bufs, acquire_fails(b, i)
      PROVE  Store!Next
  <2>1. Cached(b) = {}
    BY <1>4, LookupFinds, BufFacts DEF CacheInv, acquire_fails
  <2>2. /\ \A c \in Blocks : View'[c] = View[c]
        /\ \A c \in Blocks : disk'[c] = disk[c] \/ disk'[c] = View'[c]
    BY <1>4, <2>1, RecycledView DEF acquire_fails, TypeOK
  <2>3. Store!WritesBack
    BY <2>2, SomeWrittenBack
  <2>4. Store!Sync
    BY <1>4, <2>2, <2>3, SameView DEF acquire_fails, Store!Sync
  <2>5. QED
    BY <2>4 DEF Store!Next
<1>5. ASSUME NEW r \in Refs, reset_block_ref(r) \/ reset_buffer_ref(r)
      PROVE  Store!Next
  <2>1. release(r, buffer[r])
    BY <1>5, ResetReleases
  <2>2. \A c \in Blocks : View'[c] = View[c]
    BY <2>1 DEF release, ViewFacts
  <2>3. Store!Release(r)
    BY <2>1, <2>2, SameView DEF release, Store!Release
  <2>4. QED
    BY <2>3 DEF Store!Next
<1>6. ASSUME NEW r \in Refs, NEW v \in Values, update(r, v)
      PROVE  Store!Next
  <2>1. lookup(number[r]) = buffer[r] /\ buffer[r] \in Bufs /\ valid[buffer[r]]
    BY <1>6, LookupOfRef DEF update, CacheInv, RefsStable
  <2>2. {lookup(number[r])} \ {NoBuf} = {buffer[r]}
    BY <2>1, BufFacts
  <2>3. write_back({buffer[r]}, data')
    BY <1>6, <2>2 DEF update, NoFailedUpdate
  <2>4. \A c \in Blocks :
            /\ disk'[c] = disk[c] \/ disk'[c] = View'[c]
            /\ (\A i \in Bufs : ~(valid[i] /\ block[i] = c)) => View'[c] = View[c]
    BY <1>6, <2>1, <2>3, WrittenView DEF update
  <2>5. number[r] \in Blocks /\ View' = [View EXCEPT ![number[r]] = v]
    BY <1>6, <2>4, UpdatedView DEF update
  <2>6. Store!Update(r, v)
    BY <1>6, <2>4, <2>5, SomeWrittenBack DEF update, Store!Update
  <2>7. QED
    BY <2>6 DEF Store!Next
<1>7. ASSUME NEW r \in Refs, NEW v \in Values, modify(r, v)
      PROVE  Store!Next
  <2>1. \A c \in Blocks : (\A i \in Bufs : ~(valid[i] /\ block[i] = c)) => View'[c] = View[c]
    BY <1>7 DEF modify, ViewFacts
  <2>2. number[r] \in Blocks /\ View' = [View EXCEPT ![number[r]] = v]
    BY <1>7, <2>1, UpdatedView DEF modify
  <2>3. Store!WritesBack
    BY <1>7, SomeWrittenBack DEF modify
  <2>4. Store!Update(r, v)
    BY <1>7, <2>2, <2>3 DEF modify, Store!Update
  <2>5. QED
    BY <2>4 DEF Store!Next
<1>8. ASSUME NEW S \in SUBSET Bufs, \A i \in S : valid[i], write_back(S, data),
             UNCHANGED <<block, valid, data, number>>
      PROVE  Store!Next
  <2>1. write_back(S, data')
    BY <1>8
  <2>2. \A c \in Blocks :
            /\ disk'[c] = disk[c] \/ disk'[c] = View'[c]
            /\ (\A i \in Bufs : ~(valid[i] /\ block[i] = c)) => View'[c] = View[c]
    BY <1>8, <2>1, WrittenView
  <2>3. \A c \in Blocks : View'[c] = View[c]
    BY <1>8, <2>2 DEF ViewFacts
  <2>4. Store!Sync
    BY <1>8, <2>2, <2>3, SomeWrittenBack, SameView DEF Store!Sync
  <2>5. QED
    BY <2>4 DEF Store!Next
<1>9. ASSUME NEW r \in Refs, write(r)
      PROVE  Store!Next
  <2>1. {buffer[r]} \in SUBSET Bufs /\ valid[buffer[r]]
    BY <1>9 DEF write, TypeOK
  <2>2. QED
    BY <1>8, <1>9, <2>1 DEF write
<1>10. CASE flush
  <2>1. PICK S \in SUBSET {i \in Bufs : valid[i] /\ dirty[i]} : write_back(S, data)
    BY <1>10 DEF flush
  <2>2. S \in SUBSET Bufs /\ \A i \in S : valid[i]
    BY <2>1
  <2>3. QED
    BY <1>8, <1>10, <2>1, <2>2 DEF flush
<1>11. CASE UNCHANGED vars
  <2>1. \A b \in Blocks : View'[b] = View[b]
    BY <1>11 DEF vars, bufVars, ViewFacts
  <2>2. QED
    BY <1>11, <2>1, SameView DEF vars
<1>12. QED
  BY <1>1, <1>2, <1>3, <1>4, <1>5, <1>6, <1>7, <1>9, <1>10, <1>11 DEF Next, acquire

\* The cache is transparent: unless an update fails on the device, borrowers cannot tell
\* it from a block store without a cache.
THEOREM CacheTransparent ==
    ASSUME NoFailedUpdate
    PROVE  Spec => Transparent
<1>1. Init => Store!Init
  <2>1. SUFFICES ASSUME Init PROVE Store!Init
    OBVIOUS
  <2>2. \A b \in Blocks : Cached(b) = {}
    BY <2>1 DEF Init, Cached
  <2>3. View = disk
    BY <2>1, <2>2 DEF Init, View
  <2>4. QED
    BY <2>1, <2>3 DEF Init, Store!Init
<1>2. /\ TypeOK /\ TypeOK' /\ CacheInv /\ CacheInv' /\ CleanMatchesDisk
      /\ ViewFacts /\ ViewFacts' /\ [Next]_vars
      => [Store!Next]_<<View, disk, number>>
  BY StoreStep
<1>3. CacheInv => OneCopy
  BY DEF CacheInv
<1>4. QED
  BY <1>1, <1>2, <1>3, ViewOfBuffers, CacheCorrect, CleanBuffers, PTL
     DEF Spec, Transparent, Store!Spec
=============================================================================
