-------------------------- MODULE FileSystemProofs --------------------------
(***************************************************************************)
(* Proofs about the file system: the inode table, that no block has two    *)
(* owners, with power failures and device errors, and that what was        *)
(* written is on the device and read back.                                 *)
(***************************************************************************)
EXTENDS FileSystem, FiniteSetTheorems, NaturalsInduction, TLAPS

\* The power does not fail in a format() that a read error of the superblock has set off: the
\* disk would have the magic, and no block of the layout marked.
FormatsOnce == "mount" \notin FailingReads \/ "format" \notin Crashes

-----------------------------------------------------------------------------
(* The inductive invariant *)

\* The addresses that the copies of the inode n have: on the device d, in the cache v and in the
\* inode table t.
AddrsOf(d, v, t, n) ==
    {d[INODES][n].addrs, v[INODES][n].addrs}
    \cup {t[s].disk.addrs : s \in {u \in Slots : t[u].refcnt > 0 /\ t[u].number = n}}

\* The inode n, one of L, refers to the block b at the place a.
Refers(L, d, v, t, b, n, a) ==
    /\ b # 0 /\ n \in L
    /\ \E f \in AddrsOf(d, v, t, n) :
        \/ a \in 0 .. NDIRECT /\ b = f[a]
        \/ /\ f[NDIRECT] # 0
           /\ \E w \in Words : /\ a = NDIRECT + 1 + w
                               /\ b = d[f[NDIRECT]][w] \/ b = v[f[NDIRECT]][w]

Unreferenced(L, d, v, t, b) == \A n, a : ~Refers(L, d, v, t, b, n, a)
Used(d, v, b) == b \in d[BITMAP] /\ b \in v[BITMAP] /\ b \in DataBlocks

\* AllocatedOnce of stores and a table, for the inodes L.
Once(L, d, v, t) ==
    \A b, n, a : Refers(L, d, v, t, b, n, a) =>
        /\ Used(d, v, b)
        /\ \A m, c : Refers(L, d, v, t, b, m, c) => n = m /\ a = c

SlotInv(L) ==
    /\ \A s \in Slots : inode_table[s].refcnt = Cardinality({r \in Refs : ref[r] = s})
    /\ \A s, u \in Slots : /\ inode_table[s].refcnt > 0 /\ inode_table[u].refcnt > 0
                           /\ inode_table[s].number = inode_table[u].number
                           => s = u
    /\ \A s \in Slots : inode_table[s].refcnt > 0 => inode_table[s].number \in L
    /\ pc \in FormatSteps \cup {"mount"} => \A r \in Refs : ref[r] = NoSlot

\* Where write_data() is, and the block it has in hand.
OpInv(L) ==
    /\ pc \in WriteSteps =>
        /\ op.slot \in Slots /\ inode_table[op.slot].refcnt > 0
        /\ op.offset + op.count <= MaxBytes /\ op.done <= op.count
        /\ pc # "update" => op.done < op.count
    /\ pc \in {"alloc", "zero", "table"} =>
        /\ op.for = "direct" <=> logical < NDIRECT
        /\ op.for = "entry" => inode.addrs[NDIRECT] # 0
    /\ pc = "table" => op.for = "entry"
    /\ pc \in {"zero", "table"} =>
        Used(disk, view, op.block) /\ Unreferenced(L, disk, view, inode_table, op.block)
    /\ pc = "data" =>
        /\ op.block \in DataBlocks
        /\ \A n : ~Refers(L, disk, view, inode_table, op.block, n, NDIRECT)

Layout == 0 .. DATA_START - 1

\* How far format() is.
NoInodes(store) == store[INODES] = [n \in Inums |-> NoInode]
FormatInv ==
    /\ pc = "format_zero" => i \in {INODES, BITMAP}
    /\ \/ pc = "format_zero" /\ i = BITMAP
       \/ pc \in {"format_mark", "format_super", "root_alloc", "root_zero", "root_dot",
                  "root_dotdot", "root_inode"}
       => NoInodes(disk) /\ NoInodes(view)
    /\ pc = "format_mark" => i \in Layout /\ view[BITMAP] = 0 .. i - 1
    /\ pc \in {"format_super", "root_alloc"} => view[BITMAP] = Layout /\ disk[BITMAP] = Layout
    /\ pc \in {"root_zero", "root_dot", "root_dotdot", "root_inode"} => Used(disk, view, op.block)

\* What the magic promises of the bitmap.
SuperInv ==
    /\ pc \in WriteSteps \cup CleanSteps \cup {"idle", "reload", "root_zero", "root_dot", "root_dotdot", "root_inode"}
        => Layout \subseteq disk[BITMAP] /\ Layout \subseteq view[BITMAP]
    /\ pc = "mount" => view = disk /\ (view[SUPER] => Layout \subseteq view[BITMAP])
    /\ "mount" \notin FailingReads =>
        /\ disk[SUPER] => Layout \subseteq disk[BITMAP]
        /\ pc \in {"format_zero", "format_mark"} => ~disk[SUPER]

\* The type invariant without the variables of a release.
OpType == [slot : Slots \cup {NoSlot}, offset : 0 .. MaxBytes, count : Counts \cup {0},
           value : Values \cup {0}, done : 0 .. MaxBytes, block : BlockNumbers,
           for : {"direct", "indirect", "entry"}]
ReportType == [Inums -> [size : 0 .. MaxBytes, words : [0 .. MaxBytes - 1 -> Nat]]]
RefType == [Refs -> Slots \cup {NoSlot}]
Steps   == FormatSteps \cup WriteSteps \cup CleanSteps \cup {"mount", "idle"}
TableType == [Slots -> [number : Inums \cup {0}, refcnt : Nat, disk : InodeType]]
Stores(d, v, t) == StoreOK(d) /\ StoreOK(v) /\ t \in TableType
CoreType ==
    /\ Stores(disk, view, inode_table) /\ ref \in RefType /\ pc \in Steps
    /\ i \in 0 .. DATA_START /\ op \in OpType
    /\ writes \in 0 .. MaxWrites /\ crashes \in 0 .. MaxCrashes
    /\ reported \in ReportType

\* Outside a release: the inodes L have their blocks for themselves, and only they are held.
CoreInv(L) == /\ CoreType /\ SlotInv(L) /\ OpInv(L) /\ FormatInv /\ SuperInv
              /\ Once(L, disk, view, inode_table)

\* In a release: who is not being released refers to no block that has still to be freed, and
\* the file that is may still be held.
CleanInv ==
    /\ CoreType /\ SlotInv(Live \cup {cleanup.number}) /\ SuperInv
    /\ Once(Live, disk, view, inode_table)
    /\ cleanup.number \in released
    /\ \A b \in cleanup.blocks : Unreferenced(Live, disk, view, inode_table, b)

FsInv == /\ TypeOK
         /\ pc \notin CleanSteps => CoreInv(Live)
         /\ pc \in CleanSteps => CleanInv

-----------------------------------------------------------------------------
(* Constants *)

\* The first of some numbers is one of them.
LEMMA FirstIsIn ==
    ASSUME NEW S, S \subseteq Nat, S # {}
    PROVE  (CHOOSE b \in S : \A c \in S : b <= c) \in S
<1> DEFINE Less == OpToRel(<, Nat)
<1>1. PICK x \in S : \A y \in S : ~ (<<y, x>> \in Less)
  BY NatLessThanWellFounded, WFMin
<1>2. \A y \in S : x <= y
  <2>1. SUFFICES ASSUME NEW y \in S, ~ (x <= y)
                 PROVE  FALSE
    OBVIOUS
  <2>2. <<y, x>> \in Less
    BY <2>1 DEF OpToRel
  <2>3. QED
    BY <1>1, <2>2
<1>3. QED
  BY <1>2

LEMMA Naturals ==
    /\ Size \in Nat /\ Size > 4 /\ NumInodes \in Nat /\ NumInodes > 1
    /\ FSBLOCK_SIZE \in Nat /\ FSBLOCK_SIZE > 1 /\ NDIRECT \in Nat /\ NDIRECT > 0
    /\ NUM_INODE \in Nat /\ Values \subseteq Nat \ {0} /\ Counts \subseteq Nat \ {0}
    /\ MaxCrashes \in Nat /\ MaxWrites \in Nat
BY FileSystemConstants

LEMMA LayoutFacts ==
    /\ SUPER \in Blocks /\ INODES \in Blocks /\ BITMAP \in Blocks /\ DataBlocks \subseteq Blocks
    /\ SUPER \notin DataBlocks /\ INODES \notin DataBlocks /\ BITMAP \notin DataBlocks
    /\ SUPER # INODES /\ SUPER # BITMAP /\ INODES # BITMAP
    /\ 0 \notin DataBlocks /\ DataBlocks \subseteq BlockNumbers /\ Blocks \subseteq Nat
    /\ Layout \subseteq BlockNumbers /\ BlockNumbers \subseteq Nat
    /\ \A b \in BlockNumbers : b \in Layout \/ b \in DataBlocks
    /\ \A b \in Blocks : b \in {SUPER, INODES, BITMAP} \/ b \in DataBlocks
    /\ Layout \cap DataBlocks = {}
BY Naturals DEF SUPER, INODES, BITMAP, DATA_START, Blocks, DataBlocks, BlockNumbers, Layout

LEMMA NoInodeFacts ==
    /\ 0 \in BlockNumbers /\ NDIRECT \in 0 .. NDIRECT /\ 0 \in 0 .. NDIRECT
    /\ NoInode.addrs = [a \in 0 .. NDIRECT |-> 0]
    /\ \A a \in 0 .. NDIRECT : NoInode.addrs[a] = 0
    /\ MAXFILE \in Nat /\ MaxBytes \in Nat /\ MaxBytes >= 4
    /\ NoInode \in InodeType
    /\ [NoInode EXCEPT !.type = "kFile"] \in InodeType
    /\ [NoInode EXCEPT !.type = "kFile"].addrs = NoInode.addrs
<1>1. 0 \in BlockNumbers /\ NDIRECT \in 0 .. NDIRECT /\ 0 \in 0 .. NDIRECT
  BY Naturals DEF BlockNumbers
<1>2. MAXFILE \in Nat /\ MAXFILE >= 2
  BY Naturals DEF MAXFILE
<1>3. MaxBytes \in Nat /\ MaxBytes >= 4
  <2>1. \A m, k \in Nat : m >= 2 /\ k >= 2 => m * k \in Nat /\ m * k >= 4
    OBVIOUS
  <2>2. QED
    BY <1>2, <2>1, Naturals DEF MaxBytes
<1>4. QED
  BY <1>1, <1>2, <1>3 DEF NoInode, InodeType

-----------------------------------------------------------------------------
(* References and the stores *)

\* Nothing new is referred to.
Fewer(L, d, v, t, d2, v2, t2) ==
    \A b, n, a : Refers(L, d2, v2, t2, b, n, a) => Refers(L, d, v, t, b, n, a)

\* A table of block numbers is a data block in use.
LEMMA TableIsReferred ==
    ASSUME NEW L, L \subseteq Inums,
           NEW d, NEW v, NEW t, NEW n \in L, NEW f \in AddrsOf(d, v, t, n), f[NDIRECT] # 0
    PROVE  Refers(L, d, v, t, f[NDIRECT], n, NDIRECT)
BY NoInodeFacts DEF Refers

\* Every copy of an inode has addresses that one had before, and no table has new entries.
LEMMA FewerIf ==
    ASSUME NEW L, L \subseteq Inums, NEW d, NEW v, NEW t, NEW d2, NEW v2, NEW t2,
           \A n \in L : \A g \in AddrsOf(d2, v2, t2, n) :
               g \in AddrsOf(d, v, t, n) \/ g = NoInode.addrs,
           \A n \in L : \A f \in AddrsOf(d, v, t, n) : f[NDIRECT] # 0 =>
               \A w \in Words : /\ d2[f[NDIRECT]][w] \in {d[f[NDIRECT]][w], v[f[NDIRECT]][w]}
                                /\ v2[f[NDIRECT]][w] \in {d[f[NDIRECT]][w], v[f[NDIRECT]][w]}
    PROVE  Fewer(L, d, v, t, d2, v2, t2)
<1>1. SUFFICES ASSUME NEW b, NEW n, NEW a, Refers(L, d2, v2, t2, b, n, a)
               PROVE  Refers(L, d, v, t, b, n, a)
  BY DEF Fewer
<1>2. PICK f \in AddrsOf(d2, v2, t2, n) :
        \/ a \in 0 .. NDIRECT /\ b = f[a]
        \/ /\ f[NDIRECT] # 0
           /\ \E w \in Words : /\ a = NDIRECT + 1 + w
                               /\ b = d2[f[NDIRECT]][w] \/ b = v2[f[NDIRECT]][w]
  BY <1>1 DEF Refers
<1>3. b # 0 /\ n \in L
  BY <1>1 DEF Refers
<1>4. f \in AddrsOf(d, v, t, n)
  BY <1>2, <1>3, NoInodeFacts
<1>5. QED
  BY <1>2, <1>3, <1>4 DEF Refers

\* The contents that a block may have.
BlockOK(b, x) ==
    /\ b \in Blocks
    /\ b = SUPER => x \in BOOLEAN
    /\ b = INODES => x \in [Inums -> InodeType]
    /\ b = BITMAP => x \subseteq BlockNumbers
    /\ b \in DataBlocks => x \in [Words -> Nat]

\* A store, or the same with other contents of the block b.
MaybePut(d, b, x, d2) == d2 = d \/ d2 = [d EXCEPT ![b] = x]

LEMMA PutStore ==
    ASSUME NEW d, NEW b, NEW x, NEW d2, StoreOK(d), BlockOK(b, x), MaybePut(d, b, x, d2)
    PROVE  /\ StoreOK(d2)
           /\ \A c \in Blocks : c # b => d2[c] = d[c]
           /\ d2[b] = d[b] \/ d2[b] = x
           /\ d2 = [d EXCEPT ![b] = x] => d2[b] = x
<1>1. DOMAIN d = Blocks /\ b \in Blocks
  BY DEF StoreOK, BlockOK
<1>2. CASE d2 = d
  <2>1. d = [d EXCEPT ![b] = x] => d[b] = x
    BY <1>1
  <2>2. QED
    BY <1>2, <2>1
<1>3. CASE d2 = [d EXCEPT ![b] = x]
  <2>1. DOMAIN d2 = Blocks /\ d2[b] = x /\ \A c \in Blocks : c # b => d2[c] = d[c]
    BY <1>1, <1>3
  <2>2. StoreOK(d2)
    BY <2>1, LayoutFacts DEF StoreOK, BlockOK
  <2>3. QED
    BY <2>1, <2>2
<1>4. QED
  BY <1>2, <1>3 DEF MaybePut

\* The block b gets the contents x on the device, in the cache or in both: it is the bitmap, or
\* the inodes and no inode gets new addresses, or a data block that is no table.
Harmless(L, d, v, t, b, x) ==
    /\ BlockOK(b, x)
    /\ b = INODES => \A n \in L : x[n].addrs \in AddrsOf(d, v, t, n) \/ x[n].addrs = NoInode.addrs
    /\ b \in DataBlocks => \A n : ~Refers(L, d, v, t, b, n, NDIRECT)

LEMMA PutFewer ==
    ASSUME NEW L, L \subseteq Inums,
           NEW d, NEW v, NEW t, NEW d2, NEW v2, NEW b, NEW x, Stores(d, v, t), Once(L, d, v, t),
           Harmless(L, d, v, t, b, x), MaybePut(d, b, x, d2), MaybePut(v, b, x, v2)
    PROVE  Fewer(L, d, v, t, d2, v2, t)
<1>1. /\ \A c \in Blocks : c # b => d2[c] = d[c] /\ v2[c] = v[c]
      /\ d2[b] = d[b] \/ d2[b] = x
      /\ v2[b] = v[b] \/ v2[b] = x
  BY PutStore DEF Stores, Harmless
<1>2. ASSUME NEW n \in L, NEW g \in AddrsOf(d2, v2, t, n)
      PROVE  g \in AddrsOf(d, v, t, n) \/ g = NoInode.addrs
  <2>1. CASE g = d2[INODES][n].addrs
    <3>1. d2[INODES] = d[INODES] \/ (b = INODES /\ d2[INODES] = x)
      BY <1>1, LayoutFacts
    <3>2. QED
      BY <2>1, <3>1 DEF Harmless, AddrsOf
  <2>2. CASE g = v2[INODES][n].addrs
    <3>1. v2[INODES] = v[INODES] \/ (b = INODES /\ v2[INODES] = x)
      BY <1>1, LayoutFacts
    <3>2. QED
      BY <2>2, <3>1 DEF Harmless, AddrsOf
  <2>3. CASE g \notin {d2[INODES][n].addrs, v2[INODES][n].addrs}
    BY <1>2, <2>3 DEF AddrsOf
  <2>4. QED
    BY <2>1, <2>2, <2>3
<1>3. ASSUME NEW n \in L, NEW f \in AddrsOf(d, v, t, n), f[NDIRECT] # 0
      PROVE  d2[f[NDIRECT]] = d[f[NDIRECT]] /\ v2[f[NDIRECT]] = v[f[NDIRECT]]
  <2>1. Refers(L, d, v, t, f[NDIRECT], n, NDIRECT)
    BY <1>3, TableIsReferred
  <2>2. f[NDIRECT] \in DataBlocks
    BY <2>1 DEF Once, Used
  <2>3. f[NDIRECT] # b
    BY <2>1, <2>2 DEF Harmless
  <2>4. QED
    BY <1>1, <2>2, <2>3, LayoutFacts
<1>4. QED
  BY <1>2, <1>3, FewerIf

\* A buffer is recycled, or all are.
LEMMA RevertFewer ==
    ASSUME NEW L, L \subseteq Inums,
           NEW d, NEW v, NEW t, NEW v2, Stores(d, v, t), Once(L, d, v, t),
           \A c \in Blocks : v2[c] = v[c] \/ v2[c] = d[c]
    PROVE  Fewer(L, d, v, t, d, v2, t)
<1>1. ASSUME NEW n \in L, NEW g \in AddrsOf(d, v2, t, n)
      PROVE  g \in AddrsOf(d, v, t, n)
  <2>1. v2[INODES] = v[INODES] \/ v2[INODES] = d[INODES]
    BY LayoutFacts
  <2>2. QED
    BY <1>1, <2>1 DEF AddrsOf
<1>2. ASSUME NEW n \in L, NEW f \in AddrsOf(d, v, t, n), f[NDIRECT] # 0
      PROVE  v2[f[NDIRECT]] = v[f[NDIRECT]] \/ v2[f[NDIRECT]] = d[f[NDIRECT]]
  <2>1. Refers(L, d, v, t, f[NDIRECT], n, NDIRECT)
    BY <1>2, TableIsReferred
  <2>2. f[NDIRECT] \in Blocks
    BY <2>1, LayoutFacts DEF Once, Used
  <2>3. QED
    BY <2>2
<1>3. QED
  BY <1>1, <1>2, FewerIf

\* The inode table changes: a slot in use has addresses that a copy of its inode had.
LEMMA SlotsFewer ==
    ASSUME NEW L, L \subseteq Inums, NEW d, NEW v, NEW t, NEW t2,
           \A s \in Slots : t2[s].refcnt > 0 =>
               \/ t2[s].disk.addrs \in AddrsOf(d, v, t, t2[s].number)
               \/ t2[s].disk.addrs = NoInode.addrs
    PROVE  Fewer(L, d, v, t, d, v, t2)
<1>1. ASSUME NEW n \in L, NEW g \in AddrsOf(d, v, t2, n)
      PROVE  g \in AddrsOf(d, v, t, n) \/ g = NoInode.addrs
  <2>1. CASE g \in {d[INODES][n].addrs, v[INODES][n].addrs}
    BY <2>1 DEF AddrsOf
  <2>2. CASE \E s \in Slots : t2[s].refcnt > 0 /\ t2[s].number = n /\ g = t2[s].disk.addrs
    BY <2>2
  <2>3. QED
    BY <1>1, <2>1, <2>2 DEF AddrsOf
<1>2. QED
  BY <1>1, FewerIf

LEMMA FewerTwice ==
    ASSUME NEW L, L \subseteq Inums,
           NEW d, NEW v, NEW t, NEW d2, NEW v2, NEW t2, NEW d3, NEW v3, NEW t3,
           Fewer(L, d, v, t, d2, v2, t2), Fewer(L, d2, v2, t2, d3, v3, t3)
    PROVE  Fewer(L, d, v, t, d3, v3, t3)
BY DEF Fewer

\* Blocks stay allocated once if nothing new is referred to and no block in use is freed.
LEMMA OnceKept ==
    ASSUME NEW L, L \subseteq Inums,
           NEW d, NEW v, NEW t, NEW d2, NEW v2, NEW t2, Once(L, d, v, t), Fewer(L, d, v, t, d2, v2, t2),
           \A b, n, a : Refers(L, d, v, t, b, n, a) /\ Used(d, v, b) => Used(d2, v2, b)
    PROVE  Once(L, d2, v2, t2)
BY DEF Once, Fewer

\* ...or if the only new reference is to a block in use that nobody referred to.
LEMMA OnceGrown ==
    ASSUME NEW L, L \subseteq Inums,
           NEW d, NEW v, NEW t, NEW d2, NEW v2, NEW t2, Once(L, d, v, t),
           NEW B, NEW N, NEW A, Unreferenced(L, d, v, t, B), Used(d2, v2, B),
           \A b, n, a : Refers(L, d2, v2, t2, b, n, a) =>
               Refers(L, d, v, t, b, n, a) \/ (b = B /\ n = N /\ a = A),
           \A b : Used(d, v, b) => Used(d2, v2, b)
    PROVE  Once(L, d2, v2, t2)
BY DEF Once, Unreferenced

-----------------------------------------------------------------------------
(* One device write *)

LEMMA TypeParts ==
    /\ CoreType <=> /\ Stores(disk, view, inode_table) /\ ref \in RefType /\ pc \in Steps
                    /\ i \in 0 .. DATA_START /\ op \in OpType
                    /\ writes \in 0 .. MaxWrites /\ crashes \in 0 .. MaxCrashes
                    /\ reported \in ReportType
    /\ CoreType' <=> /\ Stores(disk', view', inode_table') /\ ref' \in RefType /\ pc' \in Steps
                     /\ i' \in 0 .. DATA_START /\ op' \in OpType
                     /\ writes' \in 0 .. MaxWrites /\ crashes' \in 0 .. MaxCrashes
                     /\ reported' \in ReportType
BY DEF CoreType

LEMMA TypeIs ==
    /\ TypeOK <=> /\ CoreType /\ released \subseteq Inums
                  /\ cleanup \in [number : Inums \cup {0}, blocks : SUBSET DataBlocks]
    /\ TypeOK' <=> /\ CoreType' /\ released' \subseteq Inums
                   /\ cleanup' \in [number : Inums \cup {0}, blocks : SUBSET DataBlocks]
BY DEF TypeOK, CoreType, Stores, TableType, RefType, Steps, OpType, ReportType

LEMMA PutIs ==
    ASSUME NEW b, NEW x, NEW o, put(b, x, o)
    PROVE  /\ MaybePut(disk, b, x, disk') /\ MaybePut(view, b, x, view')
           /\ o = "written" => disk' = [disk EXCEPT ![b] = x] /\ view' = [view EXCEPT ![b] = x]
           /\ o # "written" => disk' = disk
BY DEF put, MaybePut

\* A write that changes no references leaves every block allocated once, if the bitmap it writes
\* marks the blocks in use.
LEMMA PutHarmless ==
    ASSUME NEW L, L \subseteq Inums,
           CoreType, Once(L, disk, view, inode_table), NEW b, NEW x, NEW o, put(b, x, o),
           Harmless(L, disk, view, inode_table, b, x),
           b = BITMAP => \A c, n, a : Refers(L, disk, view, inode_table, c, n, a) => c \in x
    PROVE  /\ StoreOK(disk') /\ StoreOK(view')
           /\ \A c \in Blocks : c # b => disk'[c] = disk[c] /\ view'[c] = view[c]
           /\ disk'[b] = disk[b] \/ disk'[b] = x
           /\ view'[b] = view[b] \/ view'[b] = x
           /\ o = "written" => disk'[b] = x /\ view'[b] = x
           /\ Fewer(L, disk, view, inode_table, disk', view', inode_table)
           /\ Once(L, disk', view', inode_table)
<1>1. PICK d2, v2 : d2 = disk' /\ v2 = view'
  OBVIOUS
<1>2. /\ MaybePut(disk, b, x, d2) /\ MaybePut(view, b, x, v2)
      /\ o = "written" => d2 = [disk EXCEPT ![b] = x] /\ v2 = [view EXCEPT ![b] = x]
  BY <1>1, PutIs
<1>3. StoreOK(disk) /\ StoreOK(view) /\ BlockOK(b, x) /\ Stores(disk, view, inode_table)
  BY TypeParts DEF Stores, Harmless
<1>4. /\ StoreOK(d2)
      /\ \A c \in Blocks : c # b => d2[c] = disk[c]
      /\ d2[b] = disk[b] \/ d2[b] = x
      /\ d2 = [disk EXCEPT ![b] = x] => d2[b] = x
  BY <1>2, <1>3, PutStore
<1>5. /\ StoreOK(v2)
      /\ \A c \in Blocks : c # b => v2[c] = view[c]
      /\ v2[b] = view[b] \/ v2[b] = x
      /\ v2 = [view EXCEPT ![b] = x] => v2[b] = x
  BY <1>2, <1>3, PutStore
<1>6. Fewer(L, disk, view, inode_table, d2, v2, inode_table)
  BY <1>2, <1>3, PutFewer
<1>7. ASSUME NEW c, NEW n, NEW a, Refers(L, disk, view, inode_table, c, n, a), Used(disk, view, c)
      PROVE  Used(d2, v2, c)
  <2>1. CASE b = BITMAP
    BY <1>4, <1>5, <1>7, <2>1 DEF Used
  <2>2. CASE b # BITMAP
    BY <1>4, <1>5, <1>7, <2>2, LayoutFacts DEF Used
  <2>3. QED
    BY <2>1, <2>2
<1>8. Once(L, d2, v2, inode_table)
  BY <1>6, <1>7, OnceKept
<1>9. QED
  BY <1>1, <1>2, <1>4, <1>5, <1>6, <1>8

-----------------------------------------------------------------------------
(* format() *)

\* While nobody has an InodeRef no slot is in use.
LEMMA NobodyHolds ==
    ASSUME NEW L, SlotInv(L), \A r \in Refs : ref[r] = NoSlot
    PROVE  \A s \in Slots : inode_table[s].refcnt = 0
<1>1. SUFFICES ASSUME NEW s \in Slots
               PROVE  inode_table[s].refcnt = 0
  OBVIOUS
<1>2. s # NoSlot
  BY Naturals DEF Slots, NoSlot
<1>3. {r \in Refs : ref[r] = s} = {}
  BY <1>2
<1>4. QED
  BY <1>3, FS_EmptySet DEF SlotInv

LEMMA NoReferences ==
    ASSUME NEW L, L \subseteq Inums,
           SlotInv(L), \A r \in Refs : ref[r] = NoSlot, NoInodes(disk), NoInodes(view)
    PROVE  \A b, n, a : ~Refers(L, disk, view, inode_table, b, n, a)
<1>1. SUFFICES ASSUME NEW b, NEW n, NEW a, Refers(L, disk, view, inode_table, b, n, a)
               PROVE  FALSE
  OBVIOUS
<1>2. \A f \in AddrsOf(disk, view, inode_table, n) : f = NoInode.addrs
  <2>1. n \in Inums
    BY <1>1 DEF Refers
  <2>2. disk[INODES][n] = NoInode /\ view[INODES][n] = NoInode
    BY <2>1 DEF NoInodes
  <2>3. \A s \in Slots : ~(inode_table[s].refcnt > 0)
    BY NobodyHolds
  <2>4. QED
    BY <2>2, <2>3 DEF AddrsOf
<1>3. QED
  BY <1>1, <1>2, NoInodeFacts DEF Refers

\* What all steps of format() have in common.
LEMMA FormatStep ==
    ASSUME NEW L, L \subseteq Inums,
           CoreInv(L), NEW at \in FormatSteps, NEW b, NEW x, NEW next \in FormatSteps,
           format_step(at, b, x, next), Harmless(L, disk, view, inode_table, b, x),
           b = BITMAP => \A c, n, a : Refers(L, disk, view, inode_table, c, n, a) => c \in x
    PROVE  /\ Stores(disk', view', inode_table') /\ Once(L, disk', view', inode_table')
           /\ SlotInv(L)' /\ OpInv(L)' /\ pc' \in FormatSteps
           /\ \A c \in Blocks : c # b => disk'[c] = disk[c] /\ view'[c] = view[c]
           /\ \/ pc' = next /\ disk'[b] = x /\ view'[b] = x
              \/ pc' = "failed" /\ disk' = disk
<1>1. PICK o \in Outcomes("mount") : put(b, x, o) /\ pc' = IF o = "written" THEN next ELSE "failed"
  BY DEF format_step
<1>2. pc = at /\ UNCHANGED <<inode_table, ref>>
  BY DEF format_step, inodeVars
<1>3. CoreType /\ SlotInv(L) /\ Once(L, disk, view, inode_table)
  BY DEF CoreInv
<1>4. /\ StoreOK(disk') /\ StoreOK(view')
      /\ \A c \in Blocks : c # b => disk'[c] = disk[c] /\ view'[c] = view[c]
      /\ o = "written" => disk'[b] = x /\ view'[b] = x
      /\ Once(L, disk', view', inode_table)
  BY <1>1, <1>3, PutHarmless
<1>5. o # "written" => disk' = disk
  BY <1>1, PutIs
<1>6. pc' \in FormatSteps
  BY <1>1 DEF FormatSteps
<1>7. SlotInv(L)'
  BY <1>2, <1>3, <1>6 DEF SlotInv
<1>8. OpInv(L)'
  BY <1>6 DEF OpInv, FormatSteps, WriteSteps
<1>9. QED
  BY <1>1, <1>2, <1>3, <1>4, <1>5, <1>6, <1>7, <1>8, TypeParts DEF Stores

\* A step of format() leaves the rest of the state as it was.
FormatFrame == i' \in 0 .. DATA_START /\ op' \in OpType /\ reported' \in ReportType

LEMMA FormatStepInv ==
    ASSUME NEW L, L \subseteq Inums,
           CoreInv(L), NEW at \in FormatSteps, NEW b, NEW x, NEW next \in FormatSteps,
           format_step(at, b, x, next), FormatFrame,
           Stores(disk', view', inode_table') /\ Once(L, disk', view', inode_table'),
           SlotInv(L)' /\ OpInv(L)' /\ pc' \in FormatSteps,
           FormatInv' /\ SuperInv'
    PROVE  CoreInv(L)'
<1>1. CoreType /\ ref' = ref /\ writes' = writes /\ crashes' = crashes
  BY DEF CoreInv, format_step, inodeVars
<1>2. CoreType'
  BY <1>1, TypeParts DEF FormatFrame, Steps
<1>3. QED
  BY <1>2 DEF CoreInv

LEMMA FormatZeroInv ==
    ASSUME NEW L, L \subseteq Inums, CoreInv(L), format_zero
    PROVE  CoreInv(L)'
<1>1. CoreType /\ SlotInv(L) /\ FormatInv /\ SuperInv
  BY DEF CoreInv
<1>2. pc = "format_zero" /\ i \in {INODES, BITMAP} /\ UNCHANGED <<op, reported>>
  BY <1>1 DEF format_zero, format_step, FormatInv
<1>3. \A r \in Refs : ref[r] = NoSlot
  BY <1>1, <1>2 DEF SlotInv, FormatSteps
<1>4. i = BITMAP => \A c, n, a : ~Refers(L, disk, view, inode_table, c, n, a)
  BY <1>1, <1>2, <1>3, NoReferences DEF FormatInv
<1>5. /\ i = INODES => Blank[i] = [n \in Inums |-> NoInode]
      /\ i = BITMAP => Blank[i] = {}
  BY <1>2, LayoutFacts DEF Blank
<1>6. Harmless(L, disk, view, inode_table, i, Blank[i])
  <2>1. BlockOK(i, Blank[i])
    BY <1>2, <1>5, LayoutFacts, NoInodeFacts DEF BlockOK
  <2>2. QED
    BY <1>2, <1>5, <2>1, LayoutFacts DEF Harmless
<1>7. PICK next : next = IF i = BITMAP THEN "format_mark" ELSE "format_zero"
  OBVIOUS
<1>8. "format_zero" \in FormatSteps /\ next \in FormatSteps
      /\ format_step("format_zero", i, Blank[i], next)
  BY <1>7 DEF format_zero, FormatSteps
<1>9. /\ Stores(disk', view', inode_table') /\ Once(L, disk', view', inode_table')
      /\ SlotInv(L)' /\ OpInv(L)' /\ pc' \in FormatSteps
      /\ \A c \in Blocks : c # i => disk'[c] = disk[c] /\ view'[c] = view[c]
      /\ \/ pc' = next /\ disk'[i] = Blank[i] /\ view'[i] = Blank[i]
         \/ pc' = "failed" /\ disk' = disk
  BY <1>4, <1>6, <1>8, FormatStep
<1>10. i' = IF i = BITMAP THEN 0 ELSE i + 1
  BY DEF format_zero
<1>11. FormatFrame
  BY <1>1, <1>2, <1>10, TypeParts DEF FormatFrame, INODES, BITMAP, DATA_START
<1>12. FormatInv'
  <2>1. CASE pc' = "failed"
    BY <2>1 DEF FormatInv
  <2>2. CASE i = INODES /\ pc' = "format_zero" /\ disk'[i] = Blank[i] /\ view'[i] = Blank[i]
    BY <2>2, <1>5, <1>10 DEF FormatInv, NoInodes, INODES, BITMAP
  <2>3. CASE i = BITMAP /\ pc' = "format_mark" /\ disk'[i] = Blank[i] /\ view'[i] = Blank[i]
    <3>1. NoInodes(disk') /\ NoInodes(view')
      BY <2>3, <1>1, <1>2, <1>9, LayoutFacts DEF NoInodes, FormatInv
    <3>2. i' = 0 /\ view'[BITMAP] = 0 .. i' - 1 /\ i' \in Layout
      BY <2>3, <1>5, <1>10 DEF Layout, DATA_START
    <3>3. QED
      BY <2>3, <3>1, <3>2 DEF FormatInv
  <2>4. QED
    BY <2>1, <2>2, <2>3, <1>2, <1>7, <1>9, LayoutFacts
<1>13. SuperInv'
  <2>1. disk'[SUPER] = disk[SUPER]
    BY <1>2, <1>9, LayoutFacts
  <2>2. "mount" \notin FailingReads => ~disk[SUPER]
    BY <1>1, <1>2 DEF SuperInv
  <2>3. pc' \in {"format_zero", "format_mark", "failed"}
    BY <1>7, <1>9
  <2>4. QED
    BY <2>1, <2>2, <2>3 DEF SuperInv, WriteSteps, CleanSteps
<1>14. QED
  BY <1>8, <1>9, <1>11, <1>12, <1>13, FormatStepInv

LEMMA FormatMarkInv ==
    ASSUME NEW L, L \subseteq Inums, CoreInv(L), format_mark
    PROVE  CoreInv(L)'
<1>1. CoreType /\ SlotInv(L) /\ FormatInv /\ SuperInv
  BY DEF CoreInv
<1>2. pc = "format_mark" /\ i \in Layout /\ view[BITMAP] = 0 .. i - 1 /\ UNCHANGED <<op, reported>>
  BY <1>1 DEF format_mark, format_step, FormatInv
<1>3. NoInodes(disk) /\ NoInodes(view)
  BY <1>1, <1>2 DEF FormatInv
<1>4. \A c, n, a : ~Refers(L, disk, view, inode_table, c, n, a)
  BY <1>1, <1>2, <1>3, NoReferences DEF SlotInv, FormatSteps
<1>5. PICK x : x = view[BITMAP] \cup {i}
  OBVIOUS
<1>6. i' = i + 1 /\ i \in 0 .. 3
  BY <1>2 DEF format_mark, Layout, DATA_START
<1>7. x = 0 .. i' - 1 /\ x \subseteq Layout
  BY <1>2, <1>5, <1>6 DEF Layout, DATA_START
<1>8. Harmless(L, disk, view, inode_table, BITMAP, x)
  BY <1>7, LayoutFacts DEF Harmless, BlockOK
<1>9. PICK next : next = IF i = DATA_START - 1 THEN "format_super" ELSE "format_mark"
  OBVIOUS
<1>10. "format_mark" \in FormatSteps /\ next \in FormatSteps
      /\ format_step("format_mark", BITMAP, x, next)
  BY <1>5, <1>9 DEF format_mark, FormatSteps
<1>11. /\ Stores(disk', view', inode_table') /\ Once(L, disk', view', inode_table')
       /\ SlotInv(L)' /\ OpInv(L)' /\ pc' \in FormatSteps
       /\ \A c \in Blocks : c # BITMAP => disk'[c] = disk[c] /\ view'[c] = view[c]
       /\ \/ pc' = next /\ disk'[BITMAP] = x /\ view'[BITMAP] = x
          \/ pc' = "failed" /\ disk' = disk
  BY <1>4, <1>8, <1>10, FormatStep
<1>12. FormatFrame
  BY <1>1, <1>2, <1>6, TypeParts DEF FormatFrame, DATA_START
<1>13. NoInodes(disk') /\ NoInodes(view')
  BY <1>3, <1>11, LayoutFacts DEF NoInodes
<1>14. CASE pc' = "failed"
  <2>1. FormatInv'
    BY <1>14 DEF FormatInv
  <2>2. SuperInv'
    BY <1>1, <1>2, <1>11, <1>14, LayoutFacts DEF SuperInv, WriteSteps, CleanSteps
  <2>3. QED
    BY <1>10, <1>11, <1>12, <2>1, <2>2, FormatStepInv
<1>15. CASE pc' = "format_mark" /\ i # 3 /\ disk'[BITMAP] = x /\ view'[BITMAP] = x
  <2>1. FormatInv'
    BY <1>6, <1>7, <1>13, <1>15 DEF FormatInv, Layout, DATA_START
  <2>2. SuperInv'
    BY <1>1, <1>2, <1>11, <1>15, LayoutFacts DEF SuperInv, WriteSteps, CleanSteps
  <2>3. QED
    BY <1>10, <1>11, <1>12, <2>1, <2>2, FormatStepInv
<1>16. CASE pc' = "format_super" /\ i = 3 /\ disk'[BITMAP] = x /\ view'[BITMAP] = x
  <2>1. x = Layout
    BY <1>6, <1>7, <1>16 DEF Layout, DATA_START
  <2>2. FormatInv'
    BY <1>13, <1>16, <2>1 DEF FormatInv
  <2>3. SuperInv'
    BY <1>16, <2>1 DEF SuperInv, WriteSteps, CleanSteps
  <2>4. QED
    BY <1>10, <1>11, <1>12, <2>2, <2>3, FormatStepInv
<1>17. QED
  BY <1>9, <1>11, <1>14, <1>15, <1>16 DEF DATA_START

LEMMA FormatSuperInv ==
    ASSUME NEW L, L \subseteq Inums, CoreInv(L), format_super
    PROVE  CoreInv(L)'
<1>1. CoreType /\ SlotInv(L) /\ FormatInv /\ SuperInv
  BY DEF CoreInv
<1>2. pc = "format_super" /\ UNCHANGED <<i, op, reported>>
  BY DEF format_super, format_step
<1>3. view[BITMAP] = Layout /\ disk[BITMAP] = Layout /\ NoInodes(disk) /\ NoInodes(view)
  BY <1>1, <1>2 DEF FormatInv
<1>0. PICK x : x = TRUE
  OBVIOUS
<1>4. Harmless(L, disk, view, inode_table, SUPER, x)
  BY <1>0, LayoutFacts DEF Harmless, BlockOK
<1>5. "format_super" \in FormatSteps /\ "root_alloc" \in FormatSteps
      /\ format_step("format_super", SUPER, x, "root_alloc")
  BY <1>0 DEF format_super, FormatSteps
<1>6. /\ Stores(disk', view', inode_table') /\ Once(L, disk', view', inode_table')
      /\ SlotInv(L)' /\ OpInv(L)' /\ pc' \in FormatSteps
      /\ \A c \in Blocks : c # SUPER => disk'[c] = disk[c] /\ view'[c] = view[c]
      /\ pc' = "root_alloc" \/ pc' = "failed"
  BY <1>4, <1>5, FormatStep, LayoutFacts
<1>7. FormatFrame
  BY <1>1, <1>2, TypeParts DEF FormatFrame
<1>8. view'[BITMAP] = Layout /\ disk'[BITMAP] = Layout /\ NoInodes(disk') /\ NoInodes(view')
  BY <1>3, <1>6, LayoutFacts DEF NoInodes
<1>9. FormatInv' /\ SuperInv'
  BY <1>6, <1>8 DEF FormatInv, SuperInv, WriteSteps, CleanSteps
<1>10. QED
  BY <1>5, <1>6, <1>7, <1>9, FormatStepInv

\* The first free block is a data block when the layout is marked.
LEMMA FirstFreeIsData ==
    ASSUME FreeBlocks # {}
    PROVE  /\ FirstFree \in BlockNumbers /\ FirstFree \notin view[BITMAP]
           /\ Layout \subseteq view[BITMAP] => FirstFree \in DataBlocks
<1>1. FreeBlocks \subseteq Nat
  BY LayoutFacts DEF FreeBlocks, BlockNumbers
<1>2. FirstFree \in FreeBlocks
  BY <1>1, FirstIsIn DEF FirstFree
<1>3. QED
  BY <1>2, LayoutFacts DEF FreeBlocks, BlockNumbers

LEMMA RootAllocInv ==
    ASSUME NEW L, L \subseteq Inums, CoreInv(L), root_alloc
    PROVE  CoreInv(L)'
<1>1. CoreType /\ SlotInv(L) /\ FormatInv /\ SuperInv
  BY DEF CoreInv
<1>2. pc = "root_alloc" /\ UNCHANGED <<i, reported>> /\ op' = [op EXCEPT !.block = FirstFree]
  BY DEF root_alloc, format_step
<1>3. view[BITMAP] = Layout /\ disk[BITMAP] = Layout /\ NoInodes(disk) /\ NoInodes(view)
  BY <1>1, <1>2 DEF FormatInv
<1>4. FirstFree \in DataBlocks
  <2>1. DATA_START \in FreeBlocks
    BY <1>3, Naturals DEF FreeBlocks, Layout, DATA_START
  <2>2. QED
    BY <1>3, <2>1, FirstFreeIsData
<1>5. PICK x : x = view[BITMAP] \cup {FirstFree}
  OBVIOUS
<1>6. Harmless(L, disk, view, inode_table, BITMAP, x)
  BY <1>3, <1>4, <1>5, LayoutFacts DEF Harmless, BlockOK
<1>7. \A c, n, a : ~Refers(L, disk, view, inode_table, c, n, a)
  BY <1>1, <1>2, <1>3, NoReferences DEF SlotInv, FormatSteps
<1>8. "root_alloc" \in FormatSteps /\ "root_zero" \in FormatSteps
      /\ format_step("root_alloc", BITMAP, x, "root_zero")
  BY <1>5 DEF root_alloc, FormatSteps
<1>9. /\ Stores(disk', view', inode_table') /\ Once(L, disk', view', inode_table')
      /\ SlotInv(L)' /\ OpInv(L)' /\ pc' \in FormatSteps
      /\ \A c \in Blocks : c # BITMAP => disk'[c] = disk[c] /\ view'[c] = view[c]
      /\ \/ pc' = "root_zero" /\ disk'[BITMAP] = x /\ view'[BITMAP] = x
         \/ pc' = "failed" /\ disk' = disk
  BY <1>6, <1>7, <1>8, FormatStep
<1>10. FormatFrame /\ op'.block = FirstFree
  <2>1. op' \in OpType /\ op'.block = FirstFree
    BY <1>1, <1>2, <1>4, TypeParts, LayoutFacts DEF OpType
  <2>2. QED
    BY <1>1, <1>2, <2>1, TypeParts DEF FormatFrame
<1>11. NoInodes(disk') /\ NoInodes(view')
  BY <1>3, <1>9, LayoutFacts DEF NoInodes
<1>12. CASE pc' = "failed"
  <2>1. FormatInv' /\ SuperInv'
    BY <1>3, <1>9, <1>12 DEF FormatInv, SuperInv, WriteSteps, CleanSteps
  <2>2. QED
    BY <1>8, <1>9, <1>10, <2>1, FormatStepInv
<1>13. CASE pc' = "root_zero" /\ disk'[BITMAP] = x /\ view'[BITMAP] = x
  <2>1. Used(disk', view', op'.block) /\ Layout \subseteq x
    BY <1>3, <1>4, <1>5, <1>10, <1>13 DEF Used
  <2>2. FormatInv' /\ SuperInv'
    BY <1>11, <1>13, <2>1 DEF FormatInv, SuperInv, WriteSteps, CleanSteps
  <2>3. QED
    BY <1>8, <1>9, <1>10, <2>2, FormatStepInv
<1>14. QED
  BY <1>9, <1>12, <1>13

\* The entries of the root directory: root_zero, root_dot and root_dotdot.
LEMMA RootEntryInv ==
    ASSUME NEW L, L \subseteq Inums, CoreInv(L), NEW at, NEW next, NEW x \in [Words -> Nat],
           at \in {"root_zero", "root_dot", "root_dotdot"}, next \in {"root_dot", "root_dotdot", "root_inode"},
           format_step(at, op.block, x, next), UNCHANGED <<i, op, reported>>
    PROVE  CoreInv(L)'
<1>1. CoreType /\ SlotInv(L) /\ FormatInv /\ SuperInv
  BY DEF CoreInv
<1>2. pc = at
  BY DEF format_step
<1>3. Used(disk, view, op.block) /\ NoInodes(disk) /\ NoInodes(view)
  BY <1>1, <1>2 DEF FormatInv
<1>4. Layout \subseteq disk[BITMAP] /\ Layout \subseteq view[BITMAP]
  BY <1>1, <1>2 DEF SuperInv
<1>5. at \in FormatSteps /\ next \in FormatSteps
  BY DEF FormatSteps
<1>6. \A c, n, a : ~Refers(L, disk, view, inode_table, c, n, a)
  BY <1>1, <1>2, <1>3, <1>5, NoReferences DEF SlotInv
<1>7. PICK b : b = op.block
  OBVIOUS
<1>8. b \in DataBlocks /\ format_step(at, b, x, next)
  BY <1>3, <1>7 DEF Used
<1>9. Harmless(L, disk, view, inode_table, b, x)
  BY <1>6, <1>8, LayoutFacts DEF Harmless, BlockOK
<1>10. /\ Stores(disk', view', inode_table') /\ Once(L, disk', view', inode_table')
       /\ SlotInv(L)' /\ OpInv(L)' /\ pc' \in FormatSteps
       /\ \A c \in Blocks : c # b => disk'[c] = disk[c] /\ view'[c] = view[c]
       /\ pc' = next \/ pc' = "failed"
  BY <1>5, <1>6, <1>8, <1>9, FormatStep
<1>11. FormatFrame
  BY <1>1, TypeParts DEF FormatFrame
<1>12. /\ disk'[BITMAP] = disk[BITMAP] /\ view'[BITMAP] = view[BITMAP]
       /\ NoInodes(disk') /\ NoInodes(view')
  BY <1>3, <1>8, <1>10, LayoutFacts DEF NoInodes
<1>13. Used(disk', view', op'.block)
  BY <1>3, <1>12 DEF Used
<1>14. FormatInv' /\ SuperInv'
  BY <1>4, <1>10, <1>12, <1>13 DEF FormatInv, SuperInv, WriteSteps, CleanSteps
<1>15. QED
  BY <1>5, <1>8, <1>10, <1>11, <1>14, FormatStepInv

LEMMA RootZeroInv ==
    ASSUME NEW L, L \subseteq Inums, CoreInv(L), root_zero \/ root_dot \/ root_dotdot
    PROVE  CoreInv(L)'
<1>1. CoreType /\ FormatInv
  BY DEF CoreInv
<1>2. CASE root_zero
  <2>1. Zero \in [Words -> Nat]
    BY DEF Zero
  <2>2. format_step("root_zero", op.block, Zero, "root_dot") /\ UNCHANGED <<i, op, reported>>
    BY <1>2 DEF root_zero
  <2>3. QED
    BY <2>1, <2>2, RootEntryInv
<1>3. ASSUME pc \in {"root_dot", "root_dotdot"}
      PROVE  view[op.block] \in [Words -> Nat]
  BY <1>1, <1>3, TypeParts DEF FormatInv, Used, Stores, StoreOK
<1>4. CASE root_dot
  <2>1. pc = "root_dot"
    BY <1>4 DEF root_dot, format_step
  <2>2. PICK x : x = [view[op.block] EXCEPT ![0] = ROOT_INODE]
    OBVIOUS
  <2>3. x \in [Words -> Nat]
    BY <1>3, <2>1, <2>2 DEF ROOT_INODE
  <2>4. format_step("root_dot", op.block, x, "root_dotdot") /\ UNCHANGED <<i, op, reported>>
    BY <1>4, <2>2 DEF root_dot
  <2>5. QED
    BY <2>3, <2>4, RootEntryInv
<1>5. CASE root_dotdot
  <2>1. pc = "root_dotdot"
    BY <1>5 DEF root_dotdot, format_step
  <2>2. PICK x : x = [view[op.block] EXCEPT ![1] = ROOT_INODE]
    OBVIOUS
  <2>3. x \in [Words -> Nat]
    BY <1>3, <2>1, <2>2 DEF ROOT_INODE
  <2>4. format_step("root_dotdot", op.block, x, "root_inode") /\ UNCHANGED <<i, op, reported>>
    BY <1>5, <2>2 DEF root_dotdot
  <2>5. QED
    BY <2>3, <2>4, RootEntryInv
<1>6. QED
  BY <1>2, <1>4, <1>5

LEMMA PutFrame ==
    ASSUME CoreType, NEW b, NEW x, NEW o, put(b, x, o), BlockOK(b, x)
    PROVE  /\ StoreOK(disk') /\ StoreOK(view')
           /\ \A c \in Blocks : c # b => disk'[c] = disk[c] /\ view'[c] = view[c]
           /\ disk'[b] = disk[b] \/ disk'[b] = x
           /\ view'[b] = view[b] \/ view'[b] = x
           /\ o = "written" => disk'[b] = x /\ view'[b] = x
           /\ o # "written" => disk' = disk
<1>1. PICK d2, v2 : d2 = disk' /\ v2 = view'
  OBVIOUS
<1>2. /\ MaybePut(disk, b, x, d2) /\ MaybePut(view, b, x, v2)
      /\ o = "written" => d2 = [disk EXCEPT ![b] = x] /\ v2 = [view EXCEPT ![b] = x]
      /\ o # "written" => d2 = disk
  BY <1>1, PutIs
<1>3. StoreOK(disk) /\ StoreOK(view)
  BY TypeParts DEF Stores
<1>4. /\ StoreOK(d2)
      /\ \A c \in Blocks : c # b => d2[c] = disk[c]
      /\ d2[b] = disk[b] \/ d2[b] = x
      /\ d2 = [disk EXCEPT ![b] = x] => d2[b] = x
  BY <1>2, <1>3, PutStore
<1>5. /\ StoreOK(v2)
      /\ \A c \in Blocks : c # b => v2[c] = view[c]
      /\ v2[b] = view[b] \/ v2[b] = x
      /\ v2 = [view EXCEPT ![b] = x] => v2[b] = x
  BY <1>2, <1>3, PutStore
<1>6. QED
  BY <1>1, <1>2, <1>4, <1>5

LEMMA NoOpType == NoOp \in OpType
BY NoInodeFacts DEF NoOp, OpType, NoSlot

\* The inode of the root directory gets its block, the first reference.
LEMMA RootInodeInv ==
    ASSUME NEW L, L \subseteq Inums, CoreInv(L), root_inode
    PROVE  CoreInv(L)'
<1>1. CoreType /\ SlotInv(L) /\ FormatInv /\ SuperInv /\ Once(L, disk, view, inode_table)
  BY DEF CoreInv
<1>2. pc = "root_inode" /\ i' = i /\ op' = NoOp /\ UNCHANGED <<inode_table, ref, writes, crashes>>
  BY DEF root_inode, format_step, inodeVars
<1>3. Used(disk, view, op.block) /\ NoInodes(disk) /\ NoInodes(view)
  BY <1>1, <1>2 DEF FormatInv
<1>4. Layout \subseteq disk[BITMAP] /\ Layout \subseteq view[BITMAP]
  BY <1>1, <1>2 DEF SuperInv
<1>5. \A r \in Refs : ref[r] = NoSlot
  BY <1>1, <1>2 DEF SlotInv, FormatSteps
<1>6. \A c, n, a : ~Refers(L, disk, view, inode_table, c, n, a)
  BY <1>1, <1>3, <1>5, NoReferences
<1>7. PICK g : g = [NoInode.addrs EXCEPT ![0] = op.block]
  OBVIOUS
<1>8. PICK root : root = [type |-> "kDirectory", size |-> 2, addrs |-> g]
  OBVIOUS
<1>9. op.block \in DataBlocks /\ op.block \in BlockNumbers
  BY <1>3, LayoutFacts DEF Used
<1>10. /\ g \in [0 .. NDIRECT -> BlockNumbers] /\ g[0] = op.block
       /\ \A a \in 0 .. NDIRECT : a # 0 => g[a] = 0
  BY <1>7, <1>9, NoInodeFacts
<1>11. root \in InodeType /\ root.addrs = g
  BY <1>8, <1>10, NoInodeFacts DEF InodeType
<1>12. PICK x : x = [view[INODES] EXCEPT ![ROOT_INODE] = root]
  OBVIOUS
<1>13. /\ x \in [Inums -> InodeType] /\ x[ROOT_INODE] = root
       /\ \A n \in Inums : n # ROOT_INODE => x[n] = NoInode
  <2>1. view[INODES] \in [Inums -> InodeType] /\ ROOT_INODE \in Inums
    BY <1>1, TypeParts, Naturals DEF Stores, StoreOK, ROOT_INODE, Inums
  <2>2. QED
    BY <1>3, <1>11, <1>12, <2>1 DEF NoInodes
<1>14. PICK o \in Outcomes("mount") :
         put(INODES, x, o) /\ pc' = IF o = "written" THEN "reload" ELSE "failed"
  BY <1>7, <1>8, <1>12 DEF root_inode, format_step
<1>15. BlockOK(INODES, x)
  BY <1>13, LayoutFacts DEF BlockOK
<1>16. PICK d2, v2 : d2 = disk' /\ v2 = view'
  OBVIOUS
<1>17. /\ StoreOK(d2) /\ StoreOK(v2)
       /\ \A c \in Blocks : c # INODES => d2[c] = disk[c] /\ v2[c] = view[c]
       /\ d2[INODES] = disk[INODES] \/ d2[INODES] = x
       /\ v2[INODES] = view[INODES] \/ v2[INODES] = x
  BY <1>1, <1>14, <1>15, <1>16, PutFrame
<1>18. d2[BITMAP] = disk[BITMAP] /\ v2[BITMAP] = view[BITMAP] /\ d2[SUPER] = disk[SUPER]
  BY <1>17, LayoutFacts
<1>19. ASSUME NEW n \in Inums, NEW f \in AddrsOf(d2, v2, inode_table, n)
       PROVE  f = NoInode.addrs \/ (n = ROOT_INODE /\ f = g)
  <2>1. d2[INODES][n] = NoInode \/ (n = ROOT_INODE /\ d2[INODES][n] = root)
    BY <1>3, <1>13, <1>17 DEF NoInodes
  <2>2. v2[INODES][n] = NoInode \/ (n = ROOT_INODE /\ v2[INODES][n] = root)
    BY <1>3, <1>13, <1>17 DEF NoInodes
  <2>3. \A s \in Slots : ~(inode_table[s].refcnt > 0)
    BY <1>1, <1>5, NobodyHolds
  <2>4. QED
    BY <1>11, <1>19, <2>1, <2>2, <2>3 DEF AddrsOf
<1>20. ASSUME NEW b, NEW n, NEW a, Refers(L, d2, v2, inode_table, b, n, a)
       PROVE  b = op.block /\ n = ROOT_INODE /\ a = 0
  <2>1. b # 0 /\ n \in L
    BY <1>20 DEF Refers
  <2>2. PICK f \in AddrsOf(d2, v2, inode_table, n) :
          (a \in 0 .. NDIRECT /\ b = f[a]) \/ f[NDIRECT] # 0
    BY <1>20 DEF Refers
  <2>3. f = NoInode.addrs \/ (n = ROOT_INODE /\ f = g)
    BY <1>19, <2>1, <2>2
  <2>4. f[NDIRECT] = 0
    BY <1>10, <2>3, NoInodeFacts, Naturals
  <2>5. QED
    BY <1>10, <2>1, <2>2, <2>3, <2>4, NoInodeFacts
<1>21. Once(L, d2, v2, inode_table)
  <2>1. Used(d2, v2, op.block)
    BY <1>3, <1>18 DEF Used
  <2>2. QED
    BY <1>20, <2>1 DEF Once
<1>22. pc' \in {"reload", "failed"}
  BY <1>14
<1>23. reported' \in ReportType
  <2>1. PICK w2 : w2 = [w \in 0 .. MaxBytes - 1 |-> IF w < 2 THEN ROOT_INODE ELSE 0]
    OBVIOUS
  <2>2. w2 \in [0 .. MaxBytes - 1 -> Nat]
    BY <2>1 DEF ROOT_INODE
  <2>3. PICK file : file = [size |-> 2, words |-> w2]
    OBVIOUS
  <2>4. file \in [size : 0 .. MaxBytes, words : [0 .. MaxBytes - 1 -> Nat]]
    BY <2>2, <2>3, NoInodeFacts
  <2>5. reported' = reported \/ reported' = [reported EXCEPT ![ROOT_INODE] = file]
    BY <2>1, <2>3 DEF root_inode
  <2>6. QED
    BY <1>1, <2>4, <2>5, TypeParts DEF ReportType
<1>24. CoreType'
  BY <1>1, <1>2, <1>16, <1>17, <1>22, <1>23, TypeParts, NoOpType DEF Stores, Steps, FormatSteps
<1>25. SlotInv(L)' /\ OpInv(L)'
  BY <1>1, <1>2, <1>5, <1>22 DEF SlotInv, OpInv, WriteSteps
<1>26. FormatInv' /\ SuperInv'
  BY <1>4, <1>16, <1>18, <1>22 DEF FormatInv, SuperInv, WriteSteps, CleanSteps
<1>27. QED
  BY <1>2, <1>16, <1>21, <1>24, <1>25, <1>26 DEF CoreInv

-----------------------------------------------------------------------------
(* mount(), power failures and recycled buffers *)

LEMMA RunInv ==
    ASSUME pc' \in WriteSteps \cup CleanSteps \cup {"idle"},
           Layout \subseteq disk'[BITMAP], Layout \subseteq view'[BITMAP]
    PROVE  FormatInv' /\ SuperInv'
BY DEF FormatInv, SuperInv, WriteSteps, CleanSteps

LEMMA MountInv ==
    ASSUME NEW L, L \subseteq Inums, CoreInv(L), mount \/ reload
    PROVE  CoreInv(L)'
<1>1. CoreType /\ SlotInv(L) /\ FormatInv /\ SuperInv /\ Once(L, disk, view, inode_table)
  BY DEF CoreInv
<1>2. UNCHANGED <<disk, view, inode_table, ref, op, writes, crashes, reported>>
      /\ pc \in {"mount", "reload"}
  BY DEF mount, reload, storeVars, inodeVars
<1>3. pc' \in {"idle", "format_zero", "failed"} /\ i' \in {i, INODES}
  BY DEF mount, reload
<1>4. CoreType'
  BY <1>1, <1>2, <1>3, TypeParts DEF Steps, FormatSteps, INODES, DATA_START
<1>5. SlotInv(L)' /\ OpInv(L)'
  BY <1>1, <1>2, <1>3 DEF SlotInv, OpInv, WriteSteps, FormatSteps
<1>6. CASE pc' = "idle"
  <2>1. Layout \subseteq disk[BITMAP] /\ Layout \subseteq view[BITMAP]
    BY <1>1, <1>6 DEF SuperInv, mount, reload
  <2>2. QED
    BY <1>1, <1>2, <1>4, <1>5, <1>6, <2>1, RunInv DEF CoreInv
<1>7. CASE pc' = "format_zero"
  <2>1. pc = "mount" /\ i' = INODES /\ (~view[SUPER] \/ "mount" \in FailingReads)
    BY <1>7 DEF mount, reload
  <2>2. FormatInv'
    BY <1>7, <2>1, LayoutFacts DEF FormatInv
  <2>3. SuperInv'
    BY <1>1, <1>2, <1>7, <2>1 DEF SuperInv, WriteSteps, CleanSteps
  <2>4. QED
    BY <1>1, <1>2, <1>4, <1>5, <2>2, <2>3 DEF CoreInv
<1>8. CASE pc' = "failed"
  <2>1. FormatInv'
    BY <1>8 DEF FormatInv
  <2>2. SuperInv'
    BY <1>1, <1>2, <1>8 DEF SuperInv, WriteSteps, CleanSteps
  <2>3. QED
    BY <1>1, <1>2, <1>4, <1>5, <2>1, <2>2 DEF CoreInv
<1>9. QED
  BY <1>3, <1>6, <1>7, <1>8

\* After a power failure the device decides alone.
LEMMA CrashInv ==
    ASSUME NEW L, L \subseteq Inums, FormatsOnce, CoreType, SuperInv,
           Once(L, disk, view, inode_table), crash
    PROVE  CoreInv(L)'
<1>1. CoreType /\ SuperInv /\ Once(L, disk, view, inode_table)
  OBVIOUS
<1>2. /\ view' = disk /\ pc' = "mount" /\ op' = NoOp /\ UNCHANGED <<disk, i, writes, reported>>
      /\ crashes < MaxCrashes /\ crashes' = crashes + 1
  BY DEF crash
<1>3. PICK t2 : t2 = [s \in Slots |-> EmptySlot]
  OBVIOUS
<1>4. inode_table' = t2 /\ t2 \in TableType /\ \A s \in Slots : t2[s].refcnt = 0
  BY <1>3, NoInodeFacts DEF crash, EmptySlot, TableType
<1>5. ref' \in RefType /\ \A r \in Refs : ref'[r] = NoSlot
  BY DEF crash, RefType
<1>6. CoreType'
  <2>1. crashes' \in 0 .. MaxCrashes
    BY <1>1, <1>2, TypeParts, Naturals
  <2>2. QED
    BY <1>1, <1>2, <1>4, <1>5, <2>1, TypeParts, NoOpType DEF Stores, Steps
<1>7. SlotInv(L)'
  <2>1. ASSUME NEW s \in Slots
        PROVE  inode_table'[s].refcnt = Cardinality({r \in Refs : ref'[r] = s})
    <3>1. s # NoSlot
      BY Naturals DEF Slots, NoSlot
    <3>2. {r \in Refs : ref'[r] = s} = {}
      BY <1>5, <3>1
    <3>3. QED
      BY <1>4, <3>2, FS_EmptySet
  <2>2. QED
    BY <1>4, <1>5, <2>1 DEF SlotInv
<1>8. OpInv(L)'
  BY <1>2 DEF OpInv, WriteSteps
<1>9. FormatInv'
  BY <1>2 DEF FormatInv
<1>10. SuperInv'
  <2>1. ASSUME disk[SUPER]
        PROVE  Layout \subseteq disk[BITMAP]
    <3>1. CASE "mount" \notin FailingReads
      BY <1>1, <2>1, <3>1 DEF SuperInv
    <3>2. CASE "format" \notin Crashes
      BY <1>1, <3>2 DEF SuperInv, crash
    <3>3. QED
      BY <3>1, <3>2 DEF FormatsOnce
  <2>2. QED
    BY <1>2, <2>1 DEF SuperInv, WriteSteps, CleanSteps
<1>11. Once(L, disk, disk, t2)
  <2>1. Stores(disk, view, inode_table)
    BY <1>1, TypeParts
  <2>2. Fewer(L, disk, view, inode_table, disk, disk, inode_table)
    BY <1>1, <2>1, RevertFewer
  <2>3. Fewer(L, disk, disk, inode_table, disk, disk, t2)
    BY <1>4, SlotsFewer
  <2>4. Fewer(L, disk, view, inode_table, disk, disk, t2)
    BY <2>2, <2>3, FewerTwice
  <2>5. \A b : Used(disk, view, b) => Used(disk, disk, b)
    BY DEF Used
  <2>6. QED
    BY <1>1, <2>4, <2>5, OnceKept
<1>12. QED
  BY <1>2, <1>4, <1>6, <1>7, <1>8, <1>9, <1>10, <1>11 DEF CoreInv

\* The parts of OpInv(L) that are about the stores.
LEMMA OpInvKept ==
    ASSUME NEW L, L \subseteq Inums,
           OpInv(L), Fewer(L, disk, view, inode_table, disk', view', inode_table'),
           UNCHANGED <<inode_table, pc, op>>,
           Used(disk, view, op.block) => Used(disk', view', op.block)
    PROVE  OpInv(L)'
<1>1. logical' = logical /\ inode' = inode
  BY DEF logical, containing, pos, inode
<1>2. pc \in {"zero", "table"} => Unreferenced(L, disk', view', inode_table', op.block)
  BY DEF OpInv, Fewer, Unreferenced
<1>3. pc = "data" => \A n : ~Refers(L, disk', view', inode_table', op.block, n, NDIRECT)
  BY DEF OpInv, Fewer
<1>4. QED
  BY <1>1, <1>2, <1>3 DEF OpInv

\* Only the inodes H are held.
LEMMA Recycled ==
    ASSUME NEW L, L \subseteq Inums, NEW H, CoreType, SlotInv(H), OpInv(L), SuperInv,
           Once(L, disk, view, inode_table), NEW b \in Blocks, recycle(b)
    PROVE  /\ CoreType' /\ SlotInv(H)' /\ OpInv(L)' /\ FormatInv' /\ SuperInv'
           /\ Once(L, disk', view', inode_table')
           /\ Fewer(L, disk, view, inode_table, disk', view', inode_table')
<1>1. CoreType /\ SlotInv(H) /\ OpInv(L) /\ SuperInv /\ Once(L, disk, view, inode_table)
      /\ Stores(disk, view, inode_table)
  BY TypeParts
<1>2. /\ pc \in WriteSteps \cup CleanSteps \cup {"idle"} /\ view' = [view EXCEPT ![b] = disk[b]]
      /\ UNCHANGED <<disk, inode_table, ref, pc, i, op, writes, crashes, reported>>
  BY DEF recycle, inodeVars
<1>3. PICK v2 : v2 = view'
  OBVIOUS
<1>4. \A c \in Blocks : v2[c] = view[c] \/ v2[c] = disk[c]
  BY <1>1, <1>2, <1>3 DEF Stores, StoreOK
<1>5. StoreOK(v2)
  <2>1. BlockOK(b, disk[b]) /\ MaybePut(view, b, disk[b], v2)
    BY <1>1, <1>2, <1>3 DEF Stores, StoreOK, BlockOK, MaybePut
  <2>2. QED
    BY <1>1, <2>1, PutStore DEF Stores
<1>6. Fewer(L, disk, view, inode_table, disk, v2, inode_table)
  BY <1>1, <1>4, RevertFewer
<1>7. v2[BITMAP] = view[BITMAP] \/ v2[BITMAP] = disk[BITMAP]
  BY <1>4, LayoutFacts
<1>8. \A c : Used(disk, view, c) => Used(disk, v2, c)
  BY <1>7 DEF Used
<1>9. Once(L, disk, v2, inode_table)
  BY <1>1, <1>6, <1>8, OnceKept
<1>10. CoreType'
  BY <1>1, <1>2, <1>3, <1>5, TypeParts DEF Stores
<1>11. SlotInv(H)'
  BY <1>1, <1>2 DEF SlotInv
<1>12. OpInv(L)'
  BY <1>1, <1>2, <1>3, <1>6, <1>8, OpInvKept
<1>13. FormatInv' /\ SuperInv'
  <2>1. Layout \subseteq disk[BITMAP] /\ Layout \subseteq v2[BITMAP]
    BY <1>1, <1>2, <1>7 DEF SuperInv
  <2>2. QED
    BY <1>2, <1>3, <2>1, RunInv
<1>14. QED
  BY <1>2, <1>3, <1>6, <1>9, <1>10, <1>11, <1>12, <1>13

LEMMA RecycleInv ==
    ASSUME NEW L, L \subseteq Inums, CoreInv(L), NEW b \in Blocks, recycle(b)
    PROVE  CoreInv(L)'
BY Recycled DEF CoreInv

-----------------------------------------------------------------------------
(* The inode table *)

Count(rf, s) == Cardinality({r \in Refs : rf[r] = s})

\* An InodeRef that was empty gets the slot c.
LEMMA CountUp ==
    ASSUME NEW rf \in RefType, NEW r \in Refs, rf[r] = NoSlot, NEW c \in Slots, NEW s \in Slots
    PROVE  /\ Count(rf, s) \in Nat
           /\ Count([rf EXCEPT ![r] = c], s) = Count(rf, s) + IF s = c THEN 1 ELSE 0
<1>1. PICK S : S = {q \in Refs : rf[q] = s}
  OBVIOUS
<1>2. IsFiniteSet(Refs)
  BY FileSystemConstants
<1>3. s # NoSlot
  BY Naturals DEF Slots, NoSlot
<1>4. IsFiniteSet(S) /\ r \notin S
  BY <1>1, <1>2, <1>3, FS_Subset
<1>5. {q \in Refs : [rf EXCEPT ![r] = c][q] = s} = IF s = c THEN S \cup {r} ELSE S
  BY <1>1, <1>3 DEF RefType
<1>6. Cardinality(S) \in Nat /\ Cardinality(S \cup {r}) = Cardinality(S) + 1
  BY <1>4, FS_AddElement, FS_CardinalityType
<1>7. Count(rf, s) = Cardinality(S)
  BY <1>1 DEF Count
<1>8. Count([rf EXCEPT ![r] = c], s) = Cardinality(IF s = c THEN S \cup {r} ELSE S)
  BY <1>5 DEF Count
<1>9. QED
  BY <1>6, <1>7, <1>8

\* An InodeRef gives its slot back.
LEMMA CountDown ==
    ASSUME NEW rf \in RefType, NEW r \in Refs, NEW s \in Slots
    PROVE  /\ Count(rf, s) \in Nat
           /\ Count([rf EXCEPT ![r] = NoSlot], s) = Count(rf, s) - IF s = rf[r] THEN 1 ELSE 0
           /\ s = rf[r] => Count(rf, s) > 0
<1>1. PICK S : S = {q \in Refs : rf[q] = s}
  OBVIOUS
<1>2. IsFiniteSet(Refs)
  BY FileSystemConstants
<1>3. s # NoSlot
  BY Naturals DEF Slots, NoSlot
<1>4. IsFiniteSet(S) /\ (r \in S <=> s = rf[r])
  BY <1>1, <1>2, FS_Subset
<1>5. {q \in Refs : [rf EXCEPT ![r] = NoSlot][q] = s} = S \ {r}
  BY <1>1, <1>3 DEF RefType
<1>6. /\ Cardinality(S) \in Nat /\ Cardinality(S \ {r}) \in Nat
      /\ Cardinality(S \ {r}) = Cardinality(S) - IF r \in S THEN 1 ELSE 0
  BY <1>4, FS_RemoveElement, FS_CardinalityType, FS_Subset
<1>7. s = rf[r] => Cardinality(S) > 0
  BY <1>4, <1>6
<1>8. QED
  BY <1>1, <1>4, <1>5, <1>6, <1>7 DEF Count

LEMMA SlotFacts ==
    ASSUME NEW L, CoreType, SlotInv(L)
    PROVE  /\ inode_table \in TableType /\ ref \in RefType
           /\ \A s \in Slots : inode_table[s].refcnt \in Nat /\ inode_table[s].refcnt = Count(ref, s)
           /\ \A s, u \in Slots : /\ inode_table[s].refcnt > 0 /\ inode_table[u].refcnt > 0
                                  /\ inode_table[s].number = inode_table[u].number
                                  => s = u
           /\ \A s \in Slots : inode_table[s].refcnt > 0 => inode_table[s].number \in L
<1>1. inode_table \in TableType /\ ref \in RefType
  BY TypeParts DEF Stores
<1>2. \A s \in Slots : inode_table[s].refcnt \in Nat
  BY <1>1 DEF TableType
<1>3. QED
  BY <1>1, <1>2 DEF SlotInv, Count

\* Slots in use keep their inodes, but for a copy of the inode n.
Keeps(t, t2, n, node) ==
    \A s \in Slots : t2[s].refcnt > 0 =>
        \/ t[s].refcnt > 0 /\ t2[s].number = t[s].number /\ t2[s].disk = t[s].disk
        \/ t2[s].number = n /\ t2[s].disk = node

LEMMA Obtained ==
    ASSUME NEW L, L \subseteq Inums,
           CoreType, SlotInv(L), NEW r \in Refs, ref[r] = NoSlot, NEW n \in L,
           NEW inodes \in [Inums -> InodeType], NEW may_fail, obtain(r, n, inodes, may_fail),
           pc' = "idle"
    PROVE  /\ inode_table' \in TableType /\ ref' \in RefType /\ SlotInv(L)'
           /\ Keeps(inode_table, inode_table', n, inodes[n])
<1>1. /\ inode_table \in TableType /\ ref \in RefType
      /\ \A s \in Slots : inode_table[s].refcnt \in Nat /\ inode_table[s].refcnt = Count(ref, s)
      /\ \A s, u \in Slots : /\ inode_table[s].refcnt > 0 /\ inode_table[u].refcnt > 0
                             /\ inode_table[s].number = inode_table[u].number
                             => s = u
      /\ \A s \in Slots : inode_table[s].refcnt > 0 => inode_table[s].number \in L
  BY SlotFacts
<1>2. PICK t2, rf2 : t2 = inode_table' /\ rf2 = ref'
  OBVIOUS
<1>3. CASE UNCHANGED inodeVars
  <2>1. t2 = inode_table /\ rf2 = ref
    BY <1>2, <1>3 DEF inodeVars
  <2>2. SlotInv(L)'
    BY <1>3 DEF SlotInv, FormatSteps, inodeVars
  <2>3. Keeps(inode_table, t2, n, inodes[n])
    BY <2>1 DEF Keeps
  <2>4. QED
    BY <1>1, <1>2, <2>1, <2>2, <2>3
<1>4. ASSUME NEW c \in Slots, rf2 = [ref EXCEPT ![r] = c], t2 \in TableType,
             \A s \in Slots : s # c => t2[s] = inode_table[s],
             t2[c].refcnt = inode_table[c].refcnt + 1, t2[c].number = n,
             \A s \in Slots : s # c /\ inode_table[s].refcnt > 0 => inode_table[s].number # n,
             \/ inode_table[c].refcnt > 0 /\ inode_table[c].number = n /\ t2[c].disk = inode_table[c].disk
             \/ t2[c].disk = inodes[n]
      PROVE  /\ t2 \in TableType /\ rf2 \in RefType /\ SlotInv(L)'
             /\ Keeps(inode_table, t2, n, inodes[n])
  <2>1. rf2 \in RefType
    BY <1>1, <1>4 DEF RefType
  <2>2. ASSUME NEW s \in Slots
        PROVE  t2[s].refcnt = Count(rf2, s)
    <3>1. Count(ref, s) \in Nat /\ Count(rf2, s) = Count(ref, s) + IF s = c THEN 1 ELSE 0
      BY <1>1, <1>4, CountUp
    <3>2. t2[s].refcnt = inode_table[s].refcnt + IF s = c THEN 1 ELSE 0
      BY <1>1, <1>4
    <3>3. QED
      BY <1>1, <3>1, <3>2
  <2>3. SlotInv(L)'
    <3>1. \A s \in Slots : inode_table'[s].refcnt = Cardinality({q \in Refs : ref'[q] = s})
      BY <1>2, <2>2 DEF Count
    <3>2. \A s, u \in Slots : /\ t2[s].refcnt > 0 /\ t2[u].refcnt > 0
                              /\ t2[s].number = t2[u].number
                              => s = u
      BY <1>1, <1>4
    <3>3. \A s \in Slots : t2[s].refcnt > 0 => t2[s].number \in L
      BY <1>1, <1>4
    <3>4. QED
      BY <1>2, <3>1, <3>2, <3>3 DEF SlotInv, FormatSteps
  <2>4. Keeps(inode_table, t2, n, inodes[n])
    BY <1>4 DEF Keeps
  <2>5. QED
    BY <1>4, <2>1, <2>3, <2>4
<1>5. ASSUME NEW c \in Held(n), t2 = [inode_table EXCEPT ![c].refcnt = @ + 1],
             rf2 = [ref EXCEPT ![r] = c]
      PROVE  /\ t2 \in TableType /\ rf2 \in RefType /\ SlotInv(L)'
             /\ Keeps(inode_table, t2, n, inodes[n])
  <2>1. c \in Slots /\ inode_table[c].refcnt > 0 /\ inode_table[c].number = n
    BY <1>5 DEF Held
  <2>2. /\ t2 \in TableType /\ \A s \in Slots : s # c => t2[s] = inode_table[s]
        /\ t2[c].refcnt = inode_table[c].refcnt + 1 /\ t2[c].number = n
        /\ t2[c].disk = inode_table[c].disk
    BY <1>1, <1>5, <2>1 DEF TableType
  <2>3. \A s \in Slots : s # c /\ inode_table[s].refcnt > 0 => inode_table[s].number # n
    BY <1>1, <2>1
  <2>4. QED
    BY <1>4, <1>5, <2>1, <2>2, <2>3
<1>6. ASSUME Held(n) = {}, EmptySlots # {},
             NEW c, c = FirstEmpty, rf2 = [ref EXCEPT ![r] = c],
             t2 = [inode_table EXCEPT ![c] = [number |-> n, refcnt |-> 1, disk |-> inodes[n]]]
      PROVE  /\ t2 \in TableType /\ rf2 \in RefType /\ SlotInv(L)'
             /\ Keeps(inode_table, t2, n, inodes[n])
  <2>1. EmptySlots \subseteq Nat
    BY Naturals DEF EmptySlots, Slots
  <2>2. c \in EmptySlots
    BY <1>6, <2>1, FirstIsIn DEF FirstEmpty
  <2>3. c \in Slots /\ inode_table[c].refcnt = 0
    BY <2>2 DEF EmptySlots
  <2>4. /\ t2 \in TableType /\ \A s \in Slots : s # c => t2[s] = inode_table[s]
        /\ t2[c].refcnt = inode_table[c].refcnt + 1 /\ t2[c].number = n /\ t2[c].disk = inodes[n]
    BY <1>1, <1>6, <2>3 DEF TableType
  <2>5. \A s \in Slots : s # c /\ inode_table[s].refcnt > 0 => inode_table[s].number # n
    BY <1>6 DEF Held
  <2>6. QED
    BY <1>4, <1>6, <2>3, <2>4, <2>5
<1>7. QED
  <2>1. PICK e : e = FirstEmpty
    OBVIOUS
  <2>2. \/ \E s \in Held(n) : /\ t2 = [inode_table EXCEPT ![s].refcnt = @ + 1]
                              /\ rf2 = [ref EXCEPT ![r] = s]
        \/ /\ Held(n) = {} /\ EmptySlots # {}
           /\ t2 = [inode_table EXCEPT ![e] = [number |-> n, refcnt |-> 1, disk |-> inodes[n]]]
           /\ rf2 = [ref EXCEPT ![r] = e]
        \/ UNCHANGED inodeVars
    BY <1>2, <2>1 DEF obtain
  <2>3. QED
    BY <1>2, <1>3, <1>5, <1>6, <2>1, <2>2

\* An inode is copied into a slot.
LEMMA KeepsFewer ==
    ASSUME NEW L, L \subseteq Inums,
           NEW d, NEW v, NEW t, NEW t2, NEW n, NEW node, Keeps(t, t2, n, node),
           node.addrs \in AddrsOf(d, v, t, n) \/ node.addrs = NoInode.addrs
    PROVE  Fewer(L, d, v, t, d, v, t2)
<1>1. ASSUME NEW s \in Slots, t2[s].refcnt > 0
      PROVE  \/ t2[s].disk.addrs \in AddrsOf(d, v, t, t2[s].number)
             \/ t2[s].disk.addrs = NoInode.addrs
  <2>1. CASE t[s].refcnt > 0 /\ t2[s].number = t[s].number /\ t2[s].disk = t[s].disk
    BY <2>1 DEF AddrsOf
  <2>2. CASE t2[s].number = n /\ t2[s].disk = node
    BY <2>2
  <2>3. QED
    BY <1>1, <2>1, <2>2 DEF Keeps
<1>2. QED
  BY <1>1, SlotsFewer

\* An inode without addresses joins the others.
LEMMA OnceWider ==
    ASSUME NEW L, NEW d, NEW v, NEW t, NEW n, Once(L, d, v, t),
           \A f \in AddrsOf(d, v, t, n) : f = NoInode.addrs
    PROVE  Once(L \cup {n}, d, v, t)
<1>1. ASSUME NEW b, NEW m, NEW a, Refers(L \cup {n}, d, v, t, b, m, a)
      PROVE  Refers(L, d, v, t, b, m, a)
  <2>1. m \in L \cup {n} /\ b # 0
    BY <1>1 DEF Refers
  <2>2. PICK f \in AddrsOf(d, v, t, m) :
          \/ a \in 0 .. NDIRECT /\ b = f[a]
          \/ /\ f[NDIRECT] # 0
             /\ \E w \in Words : /\ a = NDIRECT + 1 + w
                                 /\ b = d[f[NDIRECT]][w] \/ b = v[f[NDIRECT]][w]
    BY <1>1 DEF Refers
  <2>3. m # n
    BY <2>1, <2>2, NoInodeFacts
  <2>4. QED
    BY <2>1, <2>2, <2>3 DEF Refers
<1>2. QED
  BY <1>1 DEF Once

LEMMA NoFileType == NoFile \in [size : 0 .. MaxBytes, words : [0 .. MaxBytes - 1 -> Nat]]
BY NoInodeFacts DEF NoFile

LEMMA GetInodeInv ==
    ASSUME NEW L, L \subseteq Inums,
           CoreInv(L), NEW r \in Refs, NEW n \in L, get_inode(r, n)
    PROVE  CoreInv(L)'
<1>1. CoreType /\ SlotInv(L) /\ SuperInv /\ Once(L, disk, view, inode_table)
      /\ Stores(disk, view, inode_table)
  BY TypeParts DEF CoreInv
<1>2. /\ pc = "idle" /\ ref[r] = NoSlot /\ obtain(r, n, view[INODES], "run" \in FailingReads)
      /\ UNCHANGED <<disk, view, pc, i, op, writes, crashes, reported>>
  BY DEF get_inode, storeVars
<1>3. view[INODES] \in [Inums -> InodeType]
  BY <1>1 DEF Stores, StoreOK
<1>4. PICK t2, node : t2 = inode_table' /\ node = view[INODES][n]
  OBVIOUS
<1>5. t2 \in TableType /\ ref' \in RefType /\ SlotInv(L)' /\ Keeps(inode_table, t2, n, node)
  BY <1>1, <1>2, <1>3, <1>4, Obtained
<1>6. node.addrs \in AddrsOf(disk, view, inode_table, n)
  BY <1>4 DEF AddrsOf
<1>7. Fewer(L, disk, view, inode_table, disk, view, t2)
  BY <1>5, <1>6, KeepsFewer
<1>8. Once(L, disk, view, t2)
  BY <1>1, <1>7, OnceKept
<1>9. CoreType'
  BY <1>1, <1>2, <1>4, <1>5, TypeParts DEF Stores
<1>10. OpInv(L)'
  BY <1>2 DEF OpInv, WriteSteps
<1>11. FormatInv' /\ SuperInv'
  <2>1. Layout \subseteq disk[BITMAP] /\ Layout \subseteq view[BITMAP]
    BY <1>1, <1>2 DEF SuperInv
  <2>2. QED
    BY <1>2, <2>1, RunInv
<1>12. QED
  BY <1>2, <1>4, <1>5, <1>8, <1>9, <1>10, <1>11 DEF CoreInv

LEMMA AllocateInodeInv ==
    ASSUME NEW L, L \subseteq Inums, NEW M, CoreInv(L), NEW r \in Refs, allocate_inode(r),
           L = Live, M = Live'
    PROVE  CoreInv(M)'
<1>1. CoreType /\ SlotInv(L) /\ SuperInv /\ Once(L, disk, view, inode_table)
      /\ Stores(disk, view, inode_table)
  BY TypeParts DEF CoreInv
<1>2. /\ pc = "idle" /\ ref[r] = NoSlot /\ UnusedInums # {}
      /\ UNCHANGED <<pc, i, op, writes, crashes>>
  BY DEF allocate_inode
<1>3. PICK n : n = FirstUnused
  OBVIOUS
<1>4. n \in Inums
  <2>1. UnusedInums \subseteq Nat
    BY Naturals DEF UnusedInums, Inums
  <2>2. n \in UnusedInums
    BY <1>2, <1>3, <2>1, FirstIsIn DEF FirstUnused
  <2>3. QED
    BY <2>2 DEF UnusedInums
<1>5. PICK node : node = [NoInode EXCEPT !.type = "kFile"]
  OBVIOUS
<1>6. node \in InodeType /\ node.addrs = NoInode.addrs
  BY <1>5, NoInodeFacts
<1>7. PICK x : x = [view[INODES] EXCEPT ![n] = node]
  OBVIOUS
<1>8. PICK o \in Outcomes("run") :
        /\ put(INODES, x, o)
        /\ IF o = "written" THEN obtain(r, n, x, "run" \in FailingReads) ELSE UNCHANGED inodeVars
        /\ released' = IF o = "written" THEN released \ {n} ELSE released
        /\ reported' = IF o = "written" THEN [reported EXCEPT ![n] = NoFile] ELSE reported
  BY <1>3, <1>5, <1>7 DEF allocate_inode
<1>9. /\ x \in [Inums -> InodeType] /\ x[n] = node
      /\ \A m \in Inums : m # n => x[m] = view[INODES][m]
  BY <1>1, <1>4, <1>6, <1>7 DEF Stores, StoreOK
<1>10. Harmless(L, disk, view, inode_table, INODES, x)
  <2>1. BlockOK(INODES, x)
    BY <1>9, LayoutFacts DEF BlockOK
  <2>2. \A m \in L : x[m].addrs \in AddrsOf(disk, view, inode_table, m) \/ x[m].addrs = NoInode.addrs
    BY <1>6, <1>9 DEF AddrsOf
  <2>3. QED
    BY <2>1, <2>2, LayoutFacts DEF Harmless
<1>11. PICK d2, v2, t2 : d2 = disk' /\ v2 = view' /\ t2 = inode_table'
  OBVIOUS
<1>12. /\ StoreOK(d2) /\ StoreOK(v2)
       /\ \A c \in Blocks : c # INODES => d2[c] = disk[c] /\ v2[c] = view[c]
       /\ o = "written" => d2[INODES] = x /\ v2[INODES] = x
       /\ Once(L, d2, v2, inode_table)
  BY <1>1, <1>8, <1>10, <1>11, PutHarmless, LayoutFacts
<1>13. /\ M \subseteq Inums /\ L \subseteq M
       /\ o = "written" => M = L \cup {n}
       /\ o # "written" => M = L
  BY <1>4, <1>8 DEF Live
<1>14. SlotInv(M)
  BY <1>1, <1>13 DEF SlotInv
<1>15. t2 \in TableType /\ ref' \in RefType /\ SlotInv(M)' /\ Keeps(inode_table, t2, n, node)
  <2>1. CASE o = "written"
    <3>1. n \in M /\ obtain(r, n, x, "run" \in FailingReads)
      BY <1>8, <1>13, <2>1
    <3>2. QED
      BY <1>1, <1>2, <1>9, <1>11, <1>13, <1>14, <3>1, Obtained
  <2>2. CASE o # "written"
    <3>1. UNCHANGED <<inode_table, ref, pc>>
      BY <1>2, <1>8, <2>2 DEF inodeVars
    <3>2. SlotInv(M)'
      BY <1>14, <3>1 DEF SlotInv
    <3>3. QED
      BY <1>1, <1>11, <3>1, <3>2, TypeParts DEF Keeps, Stores
  <2>3. QED
    BY <2>1, <2>2
<1>16. Fewer(L, d2, v2, inode_table, d2, v2, t2)
  BY <1>6, <1>15, KeepsFewer
<1>17. Once(L, d2, v2, t2)
  BY <1>12, <1>16, OnceKept
<1>18. Once(M, d2, v2, t2)
  <2>1. CASE o # "written" \/ n \in L
    <3>1. M = L
      BY <1>13, <2>1
    <3>2. QED
      BY <1>17, <3>1
  <2>2. CASE o = "written" /\ n \notin L
    <3>1. d2[INODES][n] = node /\ v2[INODES][n] = node
      BY <1>9, <1>12, <2>2
    <3>2. \A s \in Slots : t2[s].refcnt > 0 /\ t2[s].number = n => t2[s].disk = node
      BY <1>1, <1>15, <2>2 DEF Keeps, SlotInv
    <3>3. \A f \in AddrsOf(d2, v2, t2, n) : f = NoInode.addrs
      BY <1>6, <3>1, <3>2 DEF AddrsOf
    <3>4. QED
      BY <1>13, <1>17, <2>2, <3>3, OnceWider
  <2>3. QED
    BY <2>1, <2>2
<1>19. reported' \in ReportType
  BY <1>1, <1>4, <1>8, TypeParts, NoFileType DEF ReportType
<1>20. CoreType'
  BY <1>1, <1>2, <1>11, <1>12, <1>15, <1>19, TypeParts DEF Stores
<1>21. OpInv(M)'
  BY <1>2 DEF OpInv, WriteSteps
<1>22. FormatInv' /\ SuperInv'
  <2>1. Layout \subseteq d2[BITMAP] /\ Layout \subseteq v2[BITMAP]
    BY <1>1, <1>2, <1>12, LayoutFacts DEF SuperInv
  <2>2. QED
    BY <1>2, <1>11, <2>1, RunInv
<1>23. QED
  BY <1>11, <1>15, <1>18, <1>20, <1>21, <1>22 DEF CoreInv

LEMMA PutInodeInv ==
    ASSUME NEW L, L \subseteq Inums, CoreInv(L), NEW r \in Refs, put_inode(r)
    PROVE  CoreInv(L)'
<1>1. CoreType /\ SlotInv(L) /\ SuperInv /\ Once(L, disk, view, inode_table)
      /\ Stores(disk, view, inode_table)
  BY TypeParts DEF CoreInv
<1>2. /\ inode_table \in TableType /\ ref \in RefType
      /\ \A s \in Slots : inode_table[s].refcnt \in Nat /\ inode_table[s].refcnt = Count(ref, s)
      /\ \A s, u \in Slots : /\ inode_table[s].refcnt > 0 /\ inode_table[u].refcnt > 0
                             /\ inode_table[s].number = inode_table[u].number
                             => s = u
      /\ \A s \in Slots : inode_table[s].refcnt > 0 => inode_table[s].number \in L
  BY <1>1, SlotFacts
<1>3. /\ pc = "idle" /\ ref[r] # NoSlot /\ ref' = [ref EXCEPT ![r] = NoSlot]
      /\ UNCHANGED <<disk, view, pc, i, op, writes, crashes, reported>>
  BY DEF put_inode, storeVars
<1>4. PICK c : c = ref[r]
  OBVIOUS
<1>5. c \in Slots
  BY <1>2, <1>3, <1>4 DEF RefType
<1>6. inode_table[c].refcnt > 0
  <2>1. PICK rf \in RefType : rf = ref
    BY <1>2
  <2>2. rf[r] = c => Count(rf, c) > 0
    BY <1>5, CountDown
  <2>3. QED
    BY <1>2, <1>4, <1>5, <2>1, <2>2
<1>7. PICK t2, rf2 : t2 = inode_table' /\ rf2 = ref'
  OBVIOUS
<1>8. /\ t2 \in TableType /\ \A s \in Slots : s # c => t2[s] = inode_table[s]
      /\ t2[c].refcnt = inode_table[c].refcnt - 1 /\ t2[c].number = inode_table[c].number
      /\ t2[c].disk = inode_table[c].disk
  BY <1>2, <1>4, <1>5, <1>6, <1>7 DEF TableType, put_inode
<1>9. rf2 \in RefType
  BY <1>2, <1>3, <1>7 DEF RefType
<1>10. ASSUME NEW s \in Slots
       PROVE  t2[s].refcnt = Count(rf2, s)
  <2>1. Count(ref, s) \in Nat /\ Count(rf2, s) = Count(ref, s) - IF s = c THEN 1 ELSE 0
    BY <1>2, <1>3, <1>4, <1>7, CountDown
  <2>2. t2[s].refcnt = inode_table[s].refcnt - IF s = c THEN 1 ELSE 0
    BY <1>2, <1>8
  <2>3. QED
    BY <1>2, <2>1, <2>2
<1>11. SlotInv(L)'
  <2>1. \A s \in Slots : inode_table'[s].refcnt = Cardinality({q \in Refs : ref'[q] = s})
    BY <1>7, <1>10 DEF Count
  <2>2. \A s \in Slots : t2[s].refcnt > 0 => inode_table[s].refcnt > 0 /\ t2[s].number = inode_table[s].number
    BY <1>2, <1>6, <1>8
  <2>3. QED
    BY <1>2, <1>3, <1>7, <2>1, <2>2 DEF SlotInv, FormatSteps
<1>12. Keeps(inode_table, t2, 0, NoInode)
  BY <1>2, <1>6, <1>8 DEF Keeps
<1>13. Fewer(L, disk, view, inode_table, disk, view, t2)
  BY <1>12, KeepsFewer
<1>14. Once(L, disk, view, t2)
  BY <1>1, <1>13, OnceKept
<1>15. CoreType'
  BY <1>1, <1>3, <1>7, <1>8, <1>9, TypeParts DEF Stores
<1>16. OpInv(L)'
  BY <1>3 DEF OpInv, WriteSteps
<1>17. FormatInv' /\ SuperInv'
  <2>1. Layout \subseteq disk[BITMAP] /\ Layout \subseteq view[BITMAP]
    BY <1>1, <1>3 DEF SuperInv
  <2>2. QED
    BY <1>3, <2>1, RunInv
<1>18. QED
  BY <1>3, <1>7, <1>11, <1>14, <1>15, <1>16, <1>17 DEF CoreInv

-----------------------------------------------------------------------------
(* References *)

\* What Refers says of the state is what References collects.
LEMMA ReferencesAre ==
    ASSUME NEW L, NEW x
    PROVE  x \in References(L) <=>
               \E b, n, a : x = <<b, n, a>> /\ Refers(L, disk, view, inode_table, b, n, a)
<1>1. ASSUME NEW n \in L
      PROVE  /\ \A node \in Copies(n) : node.addrs \in AddrsOf(disk, view, inode_table, n)
             /\ \A f \in AddrsOf(disk, view, inode_table, n) : \E node \in Copies(n) : f = node.addrs
  BY DEF Copies, AddrsOf, Held
<1>2. ASSUME x \in References(L)
      PROVE  \E b, n, a : x = <<b, n, a>> /\ Refers(L, disk, view, inode_table, b, n, a)
  <2>1. PICK n \in L :
          \/ \E a \in 0 .. NDIRECT, node \in Copies(n) : x = <<node.addrs[a], n, a>>
          \/ \E w \in Words, table \in UNION {Tables(node.addrs[NDIRECT]) : node \in Copies(n)} :
                x = <<table[w], n, NDIRECT + 1 + w>>
    BY <1>2 DEF References
  <2>2. x[1] # 0
    BY <1>2 DEF References
  <2>3. CASE \E a \in 0 .. NDIRECT, node \in Copies(n) : x = <<node.addrs[a], n, a>>
    <3>1. PICK a \in 0 .. NDIRECT, node \in Copies(n) : x = <<node.addrs[a], n, a>>
      BY <2>3
    <3>2. Refers(L, disk, view, inode_table, node.addrs[a], n, a)
      BY <1>1, <2>2, <3>1 DEF Refers
    <3>3. QED
      BY <3>1, <3>2
  <2>4. CASE \E w \in Words, table \in UNION {Tables(node.addrs[NDIRECT]) : node \in Copies(n)} :
                x = <<table[w], n, NDIRECT + 1 + w>>
    <3>1. PICK w \in Words, table \in UNION {Tables(node.addrs[NDIRECT]) : node \in Copies(n)} :
                x = <<table[w], n, NDIRECT + 1 + w>>
      BY <2>4
    <3>2. PICK node \in Copies(n) : table \in Tables(node.addrs[NDIRECT])
      BY <3>1
    <3>3. node.addrs[NDIRECT] # 0 /\ table \in {disk[node.addrs[NDIRECT]], view[node.addrs[NDIRECT]]}
      BY <3>2 DEF Tables
    <3>4. table[w] # 0
      BY <2>2, <3>1
    <3>5. Refers(L, disk, view, inode_table, table[w], n, NDIRECT + 1 + w)
      BY <1>1, <3>2, <3>3, <3>4 DEF Refers
    <3>6. QED
      BY <3>1, <3>5
  <2>5. QED
    BY <2>1, <2>3, <2>4
<1>3. ASSUME NEW b, NEW n, NEW a, x = <<b, n, a>>, Refers(L, disk, view, inode_table, b, n, a)
      PROVE  x \in References(L)
  <2>1. b # 0 /\ n \in L /\ x[1] # 0
    BY <1>3 DEF Refers
  <2>2. PICK f \in AddrsOf(disk, view, inode_table, n) :
        \/ a \in 0 .. NDIRECT /\ b = f[a]
        \/ /\ f[NDIRECT] # 0
           /\ \E w \in Words : /\ a = NDIRECT + 1 + w
                               /\ b = disk[f[NDIRECT]][w] \/ b = view[f[NDIRECT]][w]
    BY <1>3 DEF Refers
  <2>3. PICK node \in Copies(n) : f = node.addrs
    BY <1>1, <2>1, <2>2
  <2>4. CASE a \in 0 .. NDIRECT /\ b = f[a]
    BY <1>3, <2>1, <2>3, <2>4 DEF References
  <2>5. CASE /\ f[NDIRECT] # 0
             /\ \E w \in Words : /\ a = NDIRECT + 1 + w
                                 /\ b = disk[f[NDIRECT]][w] \/ b = view[f[NDIRECT]][w]
    <3>1. PICK w \in Words : a = NDIRECT + 1 + w /\ (b = disk[f[NDIRECT]][w] \/ b = view[f[NDIRECT]][w])
      BY <2>5
    <3>2. PICK table \in {disk[f[NDIRECT]], view[f[NDIRECT]]} : b = table[w]
      BY <3>1
    <3>3. table \in Tables(node.addrs[NDIRECT])
      BY <2>3, <2>5, <3>2 DEF Tables
    <3>4. table \in UNION {Tables(m.addrs[NDIRECT]) : m \in Copies(n)}
      BY <2>3, <3>3
    <3>5. QED
      BY <1>3, <2>1, <3>1, <3>2, <3>4 DEF References
  <2>6. QED
    BY <2>2, <2>4, <2>5
<1>4. QED
  BY <1>2, <1>3

-----------------------------------------------------------------------------
(* release_file() *)

\* Fewer inodes have their blocks for themselves.
LEMMA OnceNarrower ==
    ASSUME NEW L, NEW M, M \subseteq L, NEW d, NEW v, NEW t, Once(L, d, v, t)
    PROVE  Once(M, d, v, t)
<1>1. \A b, n, a : Refers(M, d, v, t, b, n, a) => Refers(L, d, v, t, b, n, a)
  BY DEF Refers
<1>2. QED
  BY <1>1 DEF Once

\* A block of one inode is none of the others'.
LEMMA OthersBlock ==
    ASSUME NEW L, NEW M, NEW N, M \subseteq L \ {N}, NEW d, NEW v, NEW t, Once(L, d, v, t),
           NEW b, NEW a, Refers(L, d, v, t, b, N, a)
    PROVE  Unreferenced(M, d, v, t, b) /\ b \in DataBlocks
<1>1. SUFFICES ASSUME NEW n, NEW c, Refers(M, d, v, t, b, n, c)
               PROVE  FALSE
  BY DEF Unreferenced, Once, Used
<1>2. Refers(L, d, v, t, b, n, c) /\ n \in M
  BY <1>1 DEF Refers
<1>3. n = N
  BY <1>2 DEF Once
<1>4. QED
  BY <1>2, <1>3

\* The blocks that release() collects are the file's, if the inode and the table are.
LEMMA ReleaseInv ==
    ASSUME FsInv, pc = "idle", NEW n \in Live, NEW node, NEW table, release(n, node, table),
           node.addrs \in AddrsOf(disk, view, inode_table, n),
           \/ table = Zero
           \/ node.addrs[NDIRECT] # 0 /\ table = view[node.addrs[NDIRECT]]
    PROVE  FsInv'
<1>1. TypeOK /\ CoreInv(Live) /\ Live \subseteq Inums
  BY DEF FsInv, CleanSteps, Live
<1>2. PICK L, M, f : L = Live /\ M = Live' /\ f = node.addrs
  OBVIOUS
<1>3. CoreType /\ SlotInv(L) /\ SuperInv /\ Once(L, disk, view, inode_table) /\ n \in L
  BY <1>1, <1>2 DEF CoreInv
<1>4. PICK blocks : blocks = ({f[a] : a \in 0 .. NDIRECT} \cup {table[w] : w \in Words}) \ {0}
  OBVIOUS
<1>5. /\ pc' \in CleanSteps /\ cleanup' = [number |-> n, blocks |-> blocks]
      /\ released' = released \cup {n}
      /\ UNCHANGED <<disk, view, inode_table, ref, i, op, writes, crashes, reported>>
  BY <1>2, <1>4 DEF release, CleanSteps, storeVars, inodeVars
<1>6. M = L \ {n}
  BY <1>2, <1>5 DEF Live
<1>7. ASSUME NEW b \in blocks
      PROVE  \E a : Refers(L, disk, view, inode_table, b, n, a)
  <2>1. CASE \E a \in 0 .. NDIRECT : b = f[a]
    BY <1>2, <1>3, <1>4, <2>1 DEF Refers
  <2>2. CASE \E w \in Words : b = table[w]
    <3>1. PICK w \in Words : b = table[w]
      BY <2>2
    <3>2. b # 0
      BY <1>4
    <3>3. table # Zero
      BY <3>1, <3>2 DEF Zero
    <3>4. f[NDIRECT] # 0 /\ b = view[f[NDIRECT]][w]
      BY <1>2, <3>1, <3>3
    <3>5. Refers(L, disk, view, inode_table, b, n, NDIRECT + 1 + w)
      BY <1>2, <1>3, <3>2, <3>4 DEF Refers
    <3>6. QED
      BY <3>5
  <2>3. QED
    BY <1>4, <2>1, <2>2
<1>8. \A b \in blocks : Unreferenced(M, disk, view, inode_table, b) /\ b \in DataBlocks
  BY <1>3, <1>6, <1>7, OthersBlock
<1>9. Once(M, disk, view, inode_table)
  BY <1>3, <1>6, OnceNarrower
<1>10. CoreType'
  BY <1>3, <1>5, TypeParts DEF Steps
<1>11. TypeOK'
  <2>1. n \in Inums /\ blocks \subseteq DataBlocks
    BY <1>1, <1>8
  <2>2. cleanup' \in [number : Inums \cup {0}, blocks : SUBSET DataBlocks]
    BY <1>5, <2>1
  <2>3. released' \subseteq Inums
    BY <1>1, <1>5, <2>1, TypeIs
  <2>4. QED
    BY <1>10, <2>2, <2>3, TypeIs
<1>12. M \cup {n} = L
  BY <1>3, <1>6
<1>13. SlotInv(L)'
  BY <1>3, <1>5 DEF SlotInv, CleanSteps, FormatSteps
<1>14. SuperInv'
  BY <1>3, <1>5, RunInv DEF SuperInv
<1>15. cleanup'.number = n /\ cleanup'.blocks = blocks
  BY <1>5
<1>16. SlotInv(Live \cup {cleanup.number})'
  BY <1>2, <1>12, <1>13, <1>15 DEF SlotInv
<1>17. CleanInv'
  BY <1>2, <1>5, <1>8, <1>9, <1>10, <1>14, <1>15, <1>16 DEF CleanInv
<1>18. QED
  BY <1>5, <1>11, <1>17 DEF FsInv

LEMMA ReleaseFileInv ==
    ASSUME FsInv, NEW n \in Inums, release_file(n)
    PROVE  FsInv'
<1>1. PICK node : node = view[INODES][n]
  OBVIOUS
<1>2. PICK table : table = IF node.addrs[NDIRECT] = 0 THEN Zero ELSE view[node.addrs[NDIRECT]]
  OBVIOUS
<1>3. pc = "idle" /\ n \in Live /\ release(n, node, table)
  BY <1>1, <1>2 DEF release_file, Live
<1>4. node.addrs \in AddrsOf(disk, view, inode_table, n)
  BY <1>1 DEF AddrsOf
<1>5. QED
  BY <1>2, <1>3, <1>4, ReleaseInv

LEMMA ReleaseHeldInv ==
    ASSUME FsInv, NEW r \in Refs, release_held(r)
    PROVE  FsInv'
<1>1. PICK s, n, node : s = ref[r] /\ n = inode_table[s].number /\ node = inode_table[s].disk
  OBVIOUS
<1>2. pc = "idle" /\ s # NoSlot /\ inode_table[s].refcnt = 1 /\ release(n, node, Zero)
  BY <1>1 DEF release_held
<1>3. CoreInv(Live)
  BY <1>2 DEF FsInv, CleanSteps
<1>4. s \in Slots
  BY <1>1, <1>2, <1>3, TypeParts DEF CoreInv, RefType
<1>5. n \in Live
  BY <1>1, <1>2, <1>3, <1>4 DEF CoreInv, SlotInv
<1>6. node.addrs \in AddrsOf(disk, view, inode_table, n)
  BY <1>1, <1>2, <1>4 DEF AddrsOf
<1>7. QED
  BY <1>2, <1>5, <1>6, ReleaseInv

\* The block that is freed is none of another file's.
LEMMA FreeNextInv ==
    ASSUME FsInv, free_next
    PROVE  FsInv'
<1>1. pc = "free" /\ pc \in CleanSteps
  BY DEF free_next, CleanSteps
<1>2. TypeOK /\ CleanInv
  BY <1>1 DEF FsInv
<1>3. PICK L : L = Live
  OBVIOUS
<1>4. /\ CoreType /\ SlotInv(Live \cup {cleanup.number}) /\ SuperInv
      /\ Once(L, disk, view, inode_table) /\ cleanup.number \in released
      /\ \A b \in cleanup.blocks : Unreferenced(L, disk, view, inode_table, b)
      /\ L \subseteq Inums /\ Stores(disk, view, inode_table)
  BY <1>2, <1>3, TypeParts DEF CleanInv, Live
<1>5. PICK b \in cleanup.blocks :
        /\ free_block(b) /\ cleanup' = [cleanup EXCEPT !.blocks = @ \ {b}]
        /\ pc' = IF cleanup.blocks = {b} THEN "clear" ELSE "free"
  BY DEF free_next
<1>6. UNCHANGED <<inode_table, ref, i, op, writes, crashes, released, reported>>
  BY DEF free_next, inodeVars
<1>7. PICK x : x = view[BITMAP] \ {b}
  OBVIOUS
<1>8. PICK o \in Outcomes("run") : put(BITMAP, x, o)
  BY <1>5, <1>7 DEF free_block
<1>9. b \in DataBlocks
  BY <1>2, <1>5, TypeIs
<1>10. Harmless(L, disk, view, inode_table, BITMAP, x)
  BY <1>4, <1>7, LayoutFacts DEF Harmless, BlockOK, Stores, StoreOK
<1>11. ASSUME NEW c, NEW n, NEW a, Refers(L, disk, view, inode_table, c, n, a)
       PROVE  c \in x
  <2>1. c # b
    BY <1>4, <1>5, <1>11 DEF Unreferenced
  <2>2. QED
    BY <1>4, <1>7, <1>11, <2>1 DEF Once, Used
<1>12. PICK d2, v2 : d2 = disk' /\ v2 = view'
  OBVIOUS
<1>13. /\ StoreOK(d2) /\ StoreOK(v2) /\ Once(L, d2, v2, inode_table)
       /\ Fewer(L, disk, view, inode_table, d2, v2, inode_table)
       /\ d2[BITMAP] = disk[BITMAP] \/ d2[BITMAP] = x
       /\ v2[BITMAP] = view[BITMAP] \/ v2[BITMAP] = x
  BY <1>4, <1>8, <1>10, <1>11, <1>12, PutHarmless
<1>14. pc' \in CleanSteps /\ Live' = L
  BY <1>3, <1>5, <1>6 DEF CleanSteps, Live
<1>15. CoreType'
  BY <1>4, <1>6, <1>12, <1>13, <1>14, TypeParts DEF Stores, Steps
<1>16. /\ cleanup \in [number : Inums \cup {0}, blocks : SUBSET DataBlocks]
       /\ released \subseteq Inums
  BY <1>2, TypeIs
<1>17. /\ cleanup' \in [number : Inums \cup {0}, blocks : SUBSET DataBlocks]
       /\ cleanup'.number = cleanup.number /\ cleanup'.blocks \subseteq cleanup.blocks
  BY <1>5, <1>16
<1>18. TypeOK'
  BY <1>6, <1>15, <1>16, <1>17, TypeIs
<1>19. SlotInv(Live \cup {cleanup.number})'
  BY <1>3, <1>4, <1>6, <1>14, <1>17 DEF SlotInv, CleanSteps, FormatSteps
<1>20. SuperInv'
  <2>1. Layout \subseteq d2[BITMAP] /\ Layout \subseteq v2[BITMAP]
    BY <1>1, <1>4, <1>7, <1>9, <1>13, LayoutFacts DEF SuperInv
  <2>2. QED
    BY <1>12, <1>14, <2>1, RunInv
<1>21. \A c \in cleanup'.blocks : Unreferenced(L, d2, v2, inode_table, c)
  BY <1>4, <1>13, <1>17 DEF Fewer, Unreferenced
<1>22. CleanInv'
  BY <1>4, <1>6, <1>12, <1>13, <1>14, <1>15, <1>17, <1>19, <1>20, <1>21 DEF CleanInv
<1>23. QED
  BY <1>14, <1>18, <1>22 DEF FsInv

\* Nobody holds the file any more, and when its empty inode is on the device it has no block.
LEMMA ClearInodeInv ==
    ASSUME FsInv, clear_inode
    PROVE  FsInv'
<1>1. pc = "clear" /\ pc \in CleanSteps
  BY DEF clear_inode, CleanSteps
<1>2. TypeOK /\ CleanInv
  BY <1>1 DEF FsInv
<1>3. PICK L, M, n : L = Live /\ M = Live' /\ n = cleanup.number
  OBVIOUS
<1>4. /\ CoreType /\ SlotInv(L \cup {n}) /\ SuperInv
      /\ Once(L, disk, view, inode_table) /\ n \in released /\ n \in Inums
      /\ L \subseteq Inums /\ Stores(disk, view, inode_table) /\ n \notin L
  BY <1>2, <1>3, TypeParts, TypeIs DEF CleanInv, Live
<1>5. PICK x : x = [view[INODES] EXCEPT ![n] = NoInode]
  OBVIOUS
<1>6. PICK o \in Outcomes("run") :
        /\ put(INODES, x, o)
        /\ released' = IF o = "written" THEN released \ {n} ELSE released
        /\ reported' = IF o = "written" THEN [reported EXCEPT ![n] = NoFile] ELSE reported
  BY <1>3, <1>5 DEF clear_inode
<1>7. PICK d2, v2, t2, rf2 : d2 = disk' /\ v2 = view' /\ t2 = inode_table' /\ rf2 = ref'
  OBVIOUS
<1>8. /\ pc' = "idle" /\ cleanup' = NoCleanup /\ UNCHANGED <<i, op, writes, crashes>>
      /\ t2 = [s \in Slots |-> IF s \in Held(n) THEN [inode_table[s] EXCEPT !.refcnt = 0]
                               ELSE inode_table[s]]
      /\ rf2 = [r \in Refs |-> IF ref[r] \in Held(n) THEN NoSlot ELSE ref[r]]
  BY <1>3, <1>7 DEF clear_inode
<1>9. /\ x \in [Inums -> InodeType] /\ x[n] = NoInode
      /\ \A m \in Inums : m # n => x[m] = view[INODES][m]
  BY <1>4, <1>5, NoInodeFacts DEF Stores, StoreOK
<1>10. Harmless(L, disk, view, inode_table, INODES, x)
  <2>1. BlockOK(INODES, x)
    BY <1>9, LayoutFacts DEF BlockOK
  <2>2. \A m \in L : x[m].addrs \in AddrsOf(disk, view, inode_table, m)
    BY <1>4, <1>9 DEF AddrsOf
  <2>3. QED
    BY <2>1, <2>2, LayoutFacts DEF Harmless
<1>11. /\ StoreOK(d2) /\ StoreOK(v2)
       /\ \A c \in Blocks : c # INODES => d2[c] = disk[c] /\ v2[c] = view[c]
       /\ o = "written" => d2[INODES] = x /\ v2[INODES] = x
       /\ Once(L, d2, v2, inode_table)
  BY <1>4, <1>6, <1>7, <1>10, PutHarmless, LayoutFacts
<1>12. /\ M \subseteq Inums /\ L \subseteq M
       /\ o = "written" => M = L \cup {n}
       /\ o # "written" => M = L
  BY <1>3, <1>4, <1>6 DEF Live
<1>13. inode_table \in TableType /\ ref \in RefType
  BY <1>4, TypeParts DEF Stores
<1>14. /\ t2 \in TableType
       /\ \A s \in Slots : s \in Held(n) => t2[s].refcnt = 0
       /\ \A s \in Slots : s \notin Held(n) => t2[s] = inode_table[s]
  BY <1>8, <1>13 DEF TableType
<1>15. /\ rf2 \in RefType
       /\ \A r \in Refs : ref[r] \in Held(n) => rf2[r] = NoSlot
       /\ \A r \in Refs : ref[r] \notin Held(n) => rf2[r] = ref[r]
  BY <1>8, <1>13 DEF RefType
<1>16. \A s \in Slots : t2[s].refcnt > 0 =>
           s \notin Held(n) /\ t2[s] = inode_table[s] /\ inode_table[s].refcnt > 0
           /\ inode_table[s].number # n
  BY <1>14 DEF Held
<1>17. SlotInv(M)'
  <2>1. ASSUME NEW s \in Slots
        PROVE  t2[s].refcnt = Cardinality({r \in Refs : rf2[r] = s})
    <3>1. s # NoSlot
      BY Naturals DEF Slots, NoSlot
    <3>2. CASE s \in Held(n)
      <4>1. {r \in Refs : rf2[r] = s} = {}
        BY <1>15, <3>1, <3>2
      <4>2. QED
        BY <1>14, <3>2, <4>1, FS_EmptySet
    <3>3. CASE s \notin Held(n)
      <4>1. {r \in Refs : rf2[r] = s} = {r \in Refs : ref[r] = s}
        BY <1>15, <3>1, <3>3
      <4>2. QED
        BY <1>4, <1>14, <3>3, <4>1 DEF SlotInv
    <3>4. QED
      BY <3>2, <3>3
  <2>2. \A s, u \in Slots : t2[s].refcnt > 0 /\ t2[u].refcnt > 0 /\ t2[s].number = t2[u].number
                            => s = u
    BY <1>4, <1>16 DEF SlotInv
  <2>3. \A s \in Slots : t2[s].refcnt > 0 => t2[s].number \in M
    BY <1>4, <1>12, <1>16 DEF SlotInv
  <2>4. \A s \in Slots : inode_table'[s].refcnt = Cardinality({r \in Refs : ref'[r] = s})
    BY <1>7, <2>1
  <2>5. pc' \notin FormatSteps \cup {"mount"}
    BY <1>8 DEF FormatSteps
  <2>6. QED
    BY <1>7, <2>2, <2>3, <2>4, <2>5 DEF SlotInv
<1>18. Once(L, d2, v2, t2)
  <2>1. Keeps(inode_table, t2, 0, NoInode)
    BY <1>16 DEF Keeps
  <2>2. Fewer(L, d2, v2, inode_table, d2, v2, t2)
    BY <1>4, <2>1, KeepsFewer
  <2>3. QED
    BY <1>4, <1>11, <2>2, OnceKept
<1>19. Once(M, d2, v2, t2)
  <2>1. CASE o # "written"
    BY <1>12, <1>18, <2>1
  <2>2. CASE o = "written"
    <3>1. d2[INODES][n] = NoInode /\ v2[INODES][n] = NoInode
      BY <1>9, <1>11, <2>2
    <3>2. \A f \in AddrsOf(d2, v2, t2, n) : f = NoInode.addrs
      BY <1>16, <3>1 DEF AddrsOf
    <3>3. QED
      BY <1>12, <1>18, <2>2, <3>2, OnceWider
  <2>3. QED
    BY <2>1, <2>2
<1>20. reported' \in ReportType
  BY <1>4, <1>6, TypeParts, NoFileType DEF ReportType
<1>21. CoreType'
  BY <1>4, <1>7, <1>8, <1>11, <1>14, <1>15, <1>20, TypeParts DEF Stores, Steps
<1>22. FormatInv' /\ SuperInv' /\ OpInv(M)'
  <2>1. Layout \subseteq d2[BITMAP] /\ Layout \subseteq v2[BITMAP]
    BY <1>1, <1>4, <1>11, LayoutFacts DEF SuperInv
  <2>2. FormatInv' /\ SuperInv'
    BY <1>7, <1>8, <2>1, RunInv
  <2>3. QED
    BY <1>8, <2>2 DEF OpInv, WriteSteps
<1>23. CoreInv(M)'
  BY <1>7, <1>17, <1>19, <1>21, <1>22 DEF CoreInv
<1>24. TypeOK'
  <2>1. cleanup' \in [number : Inums \cup {0}, blocks : SUBSET DataBlocks]
    BY <1>8 DEF NoCleanup
  <2>2. released' \subseteq Inums
    BY <1>2, <1>6, TypeIs
  <2>3. QED
    BY <1>21, <2>1, <2>2, TypeIs
<1>25. CoreInv(Live)'
  BY <1>3, <1>23 DEF CoreInv, SlotInv, OpInv
<1>26. QED
  BY <1>8, <1>24, <1>25 DEF FsInv, CleanSteps

-----------------------------------------------------------------------------
(* write_data() *)

LEMMA WriteDataInv ==
    ASSUME NEW L, L \subseteq Inums,
           CoreInv(L), NEW r \in Refs, NEW offset \in 0 .. MaxBytes, NEW count \in Counts,
           NEW value \in Values, write_data(r, offset, count, value)
    PROVE  CoreInv(L)'
<1>1. CoreType /\ SlotInv(L) /\ SuperInv /\ Once(L, disk, view, inode_table)
  BY DEF CoreInv
<1>2. /\ pc = "idle" /\ ref[r] # NoSlot /\ writes < MaxWrites /\ count <= MaxBytes - offset
      /\ op' = [NoOp EXCEPT !.slot = ref[r], !.offset = offset, !.count = count, !.value = value]
      /\ pc' = (IF count = 0 THEN "update" ELSE "map") /\ writes' = writes + 1
      /\ UNCHANGED <<disk, view, inode_table, ref, i, crashes, reported>>
  BY DEF write_data, storeVars, inodeVars
<1>3. count \in Nat /\ count > 0 /\ offset \in Nat /\ MaxBytes \in Nat
  BY Naturals, NoInodeFacts
<1>4. pc' = "map"
  BY <1>2, <1>3
<1>5. ref[r] \in Slots /\ ref \in RefType
  BY <1>1, <1>2, TypeParts DEF RefType
<1>6. inode_table[ref[r]].refcnt > 0
  BY <1>1, <1>5, CountDown, SlotFacts
<1>7. /\ op' \in OpType /\ op'.slot = ref[r] /\ op'.offset = offset /\ op'.count = count
      /\ op'.done = 0
  BY <1>2, <1>5, NoOpType DEF NoOp, OpType
<1>8. CoreType'
  <2>1. writes' \in 0 .. MaxWrites
    BY <1>1, <1>2, TypeParts, Naturals
  <2>2. QED
    BY <1>1, <1>2, <1>4, <1>7, <2>1, TypeParts DEF Stores, Steps, WriteSteps
<1>9. SlotInv(L)'
  BY <1>1, <1>2, <1>4 DEF SlotInv, FormatSteps
<1>10. OpInv(L)'
  BY <1>2, <1>3, <1>4, <1>5, <1>6, <1>7 DEF OpInv, WriteSteps
<1>11. FormatInv' /\ SuperInv'
  BY <1>1, <1>2, <1>4, RunInv DEF SuperInv, WriteSteps, CleanSteps
<1>12. QED
  BY <1>1, <1>2, <1>8, <1>9, <1>10, <1>11 DEF CoreInv

LEMMA Quotient ==
    ASSUME NEW n \in Nat, NEW k \in Nat, NEW m \in Nat, k > 0, n < m * k
    PROVE  n \div k \in 0 .. m - 1 /\ n % k \in 0 .. k - 1
<1>1. PICK q, z : q = n \div k /\ z = n % k
  OBVIOUS
<1>2. q \in Nat /\ z \in 0 .. k - 1 /\ n = k * q + z
  BY <1>1
<1>3. ASSUME q >= m
      PROVE  FALSE
  <2>1. PICK e \in Nat : q = m + e
    BY <1>2, <1>3
  <2>2. k * q = m * k + k * e /\ k * e \in Nat /\ m * k \in Nat
    BY <2>1
  <2>3. QED
    BY <1>2, <2>2
<1>4. QED
  BY <1>1, <1>2, <1>3

\* The inode that write_data() has, and where it is in the file.
LEMMA OpFacts ==
    ASSUME NEW L, L \subseteq Inums, CoreInv(L), pc \in WriteSteps
    PROVE  /\ op.slot \in Slots /\ inode_table[op.slot].refcnt > 0 /\ inode \in InodeType
           /\ inode_table[op.slot].number \in L
           /\ inode.addrs \in AddrsOf(disk, view, inode_table, inode_table[op.slot].number)
           /\ inode.addrs \in [0 .. NDIRECT -> BlockNumbers]
           /\ pos \in 0 .. MaxBytes
           /\ pc # "update" => logical \in 0 .. MAXFILE - 1 /\ in_block \in Words
           /\ Layout \subseteq disk[BITMAP] /\ Layout \subseteq view[BITMAP]
<1>1. CoreType /\ SlotInv(L) /\ OpInv(L) /\ SuperInv
  BY DEF CoreInv
<1>2. /\ op.slot \in Slots /\ inode_table[op.slot].refcnt > 0
      /\ op.offset + op.count <= MaxBytes /\ op.done <= op.count
      /\ pc # "update" => op.done < op.count
  BY <1>1 DEF OpInv
<1>3. inode_table \in TableType /\ inode_table[op.slot].number \in L
  BY <1>1, <1>2, SlotFacts
<1>4. inode \in InodeType
  BY <1>2, <1>3 DEF inode, TableType
<1>5. inode.addrs \in [0 .. NDIRECT -> BlockNumbers]
  BY <1>4 DEF InodeType
<1>6. inode.addrs \in AddrsOf(disk, view, inode_table, inode_table[op.slot].number)
  BY <1>2 DEF AddrsOf, inode
<1>7. op.offset \in Nat /\ op.count \in Nat /\ op.done \in Nat
  BY <1>1, TypeParts, NoInodeFacts, Naturals DEF OpType
<1>8. pos \in Nat /\ pos <= MaxBytes /\ (pc # "update" => pos < MaxBytes)
  BY <1>2, <1>7, NoInodeFacts DEF pos
<1>9. ASSUME pc # "update"
      PROVE  logical \in 0 .. MAXFILE - 1 /\ in_block \in Words
  <2>1. pos < MAXFILE * FSBLOCK_SIZE
    BY <1>8, <1>9 DEF MaxBytes
  <2>2. QED
    BY <1>8, <2>1, Naturals, NoInodeFacts, Quotient DEF logical, containing, in_block, Words
<1>10. QED
  BY <1>1, <1>2, <1>3, <1>4, <1>5, <1>6, <1>8, <1>9, NoInodeFacts DEF SuperInv

\* The block of a logical block of an inode is one in use, and no table.
LEMMA FoundBlock ==
    ASSUME NEW L, L \subseteq Inums,
           CoreInv(L), pc \in WriteSteps, pc # "update", NEW b, b = find_block(view, inode, logical), b # 0
    PROVE  b \in DataBlocks /\ \A n : ~Refers(L, disk, view, inode_table, b, n, NDIRECT)
<1>1. PICK n : n = inode_table[op.slot].number
  OBVIOUS
<1>2. PICK f : f = inode.addrs
  OBVIOUS
<1>3. /\ n \in L /\ f \in AddrsOf(disk, view, inode_table, n)
      /\ logical \in 0 .. MAXFILE - 1
  BY <1>1, <1>2, OpFacts
<1>4. NDIRECT \in Nat /\ FSBLOCK_SIZE \in Nat
  BY Naturals
<1>5. PICK a : a # NDIRECT /\ Refers(L, disk, view, inode_table, b, n, a)
  <2>1. CASE logical < NDIRECT
    <3>1. logical \in 0 .. NDIRECT /\ logical # NDIRECT /\ b = f[logical]
      BY <1>2, <1>3, <1>4, <2>1 DEF find_block
    <3>2. Refers(L, disk, view, inode_table, b, n, logical)
      BY <1>3, <3>1 DEF Refers
    <3>3. QED
      BY <3>1, <3>2
  <2>2. CASE ~(logical < NDIRECT)
    <3>1. PICK w : w = logical - NDIRECT
      OBVIOUS
    <3>2. w \in Words
      BY <1>3, <1>4, <2>2, <3>1 DEF MAXFILE, Words
    <3>3. f[NDIRECT] # 0 /\ b = view[f[NDIRECT]][w]
      BY <1>2, <2>2, <3>1 DEF find_block
    <3>4. NDIRECT + 1 + w # NDIRECT
      BY <1>4, <3>2 DEF Words
    <3>5. Refers(L, disk, view, inode_table, b, n, NDIRECT + 1 + w)
      BY <1>3, <3>2, <3>3 DEF Refers
    <3>6. QED
      BY <3>4, <3>5
  <2>3. QED
    BY <2>1, <2>2
<1>6. QED
  BY <1>5 DEF CoreInv, Once, Used

LEMMA MapBlockInv ==
    ASSUME NEW L, L \subseteq Inums, CoreInv(L), map_block
    PROVE  CoreInv(L)'
<1>1. CoreType /\ SlotInv(L) /\ OpInv(L) /\ Once(L, disk, view, inode_table)
  BY DEF CoreInv
<1>2. /\ pc = "map" /\ UNCHANGED <<disk, view, inode_table, ref, i, writes, crashes, reported>>
      /\ pc \in WriteSteps /\ pc # "update"
  BY DEF map_block, storeVars, inodeVars, WriteSteps
<1>3. /\ op.slot \in Slots /\ inode_table[op.slot].refcnt > 0
      /\ logical \in 0 .. MAXFILE - 1
      /\ Layout \subseteq disk[BITMAP] /\ Layout \subseteq view[BITMAP]
  BY <1>2, OpFacts
<1>4. op \in OpType
  BY <1>1, TypeParts
<1>5. SUFFICES ASSUME CoreType', OpInv(L)', pc' \in WriteSteps
               PROVE  CoreInv(L)'
  <2>1. ASSUME NEW kind \in {"direct", "indirect", "entry"}, missing(kind),
               kind = "direct" <=> logical < NDIRECT,
               kind = "entry" => inode.addrs[NDIRECT] # 0
        PROVE  CoreType' /\ OpInv(L)' /\ pc' \in WriteSteps
    <3>1. pc' = "alloc" /\ op' = [op EXCEPT !.for = kind]
      BY <2>1 DEF missing
    <3>2. /\ op' \in OpType /\ op'.slot = op.slot /\ op'.offset = op.offset /\ op'.count = op.count
          /\ op'.done = op.done /\ op'.for = kind
      BY <1>4, <3>1 DEF OpType
    <3>3. CoreType' /\ pc' \in WriteSteps
      BY <1>1, <1>2, <3>1, <3>2, TypeParts DEF Stores, Steps, WriteSteps
    <3>4. logical' = logical /\ inode' = inode
      BY <1>2, <3>2 DEF logical, containing, pos, inode
    <3>5. OpInv(L)'
      BY <1>1, <1>2, <2>1, <3>1, <3>2, <3>4 DEF OpInv, WriteSteps
    <3>6. QED
      BY <3>3, <3>5
  <2>2. ASSUME pc' = "data", op' = [op EXCEPT !.block = find_block(view, inode, logical)],
               find_block(view, inode, logical) # 0
        PROVE  CoreType' /\ OpInv(L)' /\ pc' \in WriteSteps
    <3>1. PICK b : b = find_block(view, inode, logical)
      OBVIOUS
    <3>2. b \in DataBlocks /\ \A n : ~Refers(L, disk, view, inode_table, b, n, NDIRECT)
      BY <1>2, <2>2, <3>1, FoundBlock
    <3>3. /\ op' \in OpType /\ op'.slot = op.slot /\ op'.offset = op.offset /\ op'.count = op.count
          /\ op'.done = op.done /\ op'.block = b
      BY <1>4, <2>2, <3>1, <3>2, LayoutFacts DEF OpType
    <3>4. CoreType' /\ pc' \in WriteSteps
      BY <1>1, <1>2, <2>2, <3>3, TypeParts DEF Stores, Steps, WriteSteps
    <3>5. OpInv(L)'
      BY <1>1, <1>2, <2>2, <3>2, <3>3 DEF OpInv, WriteSteps
    <3>6. QED
      BY <3>4, <3>5
  <2>3. ASSUME pc' = "update", UNCHANGED op
        PROVE  CoreType' /\ OpInv(L)' /\ pc' \in WriteSteps
    <3>1. CoreType' /\ pc' \in WriteSteps
      BY <1>1, <1>2, <2>3, TypeParts DEF Stores, Steps, WriteSteps
    <3>2. OpInv(L)'
      BY <1>1, <1>2, <2>3 DEF OpInv, WriteSteps
    <3>3. QED
      BY <3>1, <3>2
  <2>4. NDIRECT \in Nat /\ logical \in Int
    BY <1>3, Naturals
  <2>5. QED
    BY <2>1, <2>2, <2>3, <2>4, <1>5 DEF map_block
<1>6. SlotInv(L)'
  BY <1>1, <1>2, <1>5 DEF SlotInv, FormatSteps, WriteSteps
<1>7. QED
  BY <1>1, <1>2, <1>3, <1>5, <1>6, RunInv DEF CoreInv

LEMMA AllocateBlockInv ==
    ASSUME NEW L, L \subseteq Inums, CoreInv(L), allocate_block
    PROVE  CoreInv(L)'
<1>1. CoreType /\ SlotInv(L) /\ OpInv(L) /\ Once(L, disk, view, inode_table) /\ Stores(disk, view, inode_table)
  BY TypeParts DEF CoreInv
<1>2. /\ pc = "alloc" /\ UNCHANGED <<inode_table, ref, i, writes, crashes, reported>>
      /\ pc \in WriteSteps
  BY DEF allocate_block, inodeVars, WriteSteps
<1>3. Layout \subseteq disk[BITMAP] /\ Layout \subseteq view[BITMAP]
  BY <1>2, OpFacts
<1>4. op \in OpType
  BY <1>1, TypeParts
<1>5. CASE pc' = "update" /\ UNCHANGED <<storeVars, op>>
  <2>1. UNCHANGED <<disk, view, op>> /\ pc' = "update"
    BY <1>5 DEF storeVars
  <2>2. CoreType'
    BY <1>1, <1>2, <2>1, TypeParts DEF Stores, Steps, WriteSteps
  <2>3. SlotInv(L)' /\ OpInv(L)'
    BY <1>1, <1>2, <2>1 DEF SlotInv, OpInv, WriteSteps, FormatSteps
  <2>4. FormatInv' /\ SuperInv'
    BY <1>3, <2>1, RunInv DEF WriteSteps
  <2>5. QED
    BY <1>1, <1>2, <2>1, <2>2, <2>3, <2>4 DEF CoreInv
<1>6. ASSUME FreeBlocks # {}, NEW o \in Outcomes("run"),
             put(BITMAP, view[BITMAP] \cup {FirstFree}, o),
             pc' = IF o = "written" THEN "zero" ELSE "update",
             op' = [op EXCEPT !.block = FirstFree]
      PROVE  CoreInv(L)'
  <2>1. PICK b, x : b = FirstFree /\ x = view[BITMAP] \cup {b}
    OBVIOUS
  <2>2. b \in DataBlocks /\ b \notin view[BITMAP] /\ b \in BlockNumbers
    BY <1>3, <1>6, <2>1, FirstFreeIsData
  <2>3. Harmless(L, disk, view, inode_table, BITMAP, x)
    BY <1>1, <2>1, <2>2, LayoutFacts DEF Harmless, BlockOK, Stores, StoreOK
  <2>4. \A c, n, a : Refers(L, disk, view, inode_table, c, n, a) => c \in x
    BY <1>1, <2>1 DEF Once, Used
  <2>5. PICK d2, v2 : d2 = disk' /\ v2 = view'
    OBVIOUS
  <2>6. /\ StoreOK(d2) /\ StoreOK(v2) /\ Once(L, d2, v2, inode_table)
        /\ Fewer(L, disk, view, inode_table, d2, v2, inode_table)
        /\ d2[BITMAP] = disk[BITMAP] \/ d2[BITMAP] = x
        /\ v2[BITMAP] = view[BITMAP] \/ v2[BITMAP] = x
        /\ o = "written" => d2[BITMAP] = x /\ v2[BITMAP] = x
    <3>1. put(BITMAP, x, o)
      BY <1>6, <2>1
    <3>2. QED
      BY <1>1, <2>3, <2>4, <2>5, <3>1, PutHarmless
  <2>7. /\ op' \in OpType /\ op'.slot = op.slot /\ op'.offset = op.offset /\ op'.count = op.count
        /\ op'.done = op.done /\ op'.for = op.for /\ op'.block = b
    BY <1>4, <1>6, <2>1, <2>2 DEF OpType
  <2>8. pc' \in {"zero", "update"}
    BY <1>6
  <2>9. CoreType'
    BY <1>1, <1>2, <2>5, <2>6, <2>7, <2>8, TypeParts DEF Stores, Steps, WriteSteps
  <2>10. SlotInv(L)'
    BY <1>1, <1>2, <2>8 DEF SlotInv, FormatSteps, WriteSteps
  <2>11. Unreferenced(L, d2, v2, inode_table, b)
    BY <1>1, <2>2, <2>6 DEF Unreferenced, Fewer, Once, Used
  <2>12. pc' = "zero" => Used(d2, v2, b)
    BY <1>6, <2>1, <2>2, <2>6 DEF Used
  <2>13. logical' = logical /\ inode' = inode
    BY <1>2, <2>7 DEF logical, containing, pos, inode
  <2>14. OpInv(L)'
    BY <1>1, <1>2, <2>5, <2>7, <2>8, <2>11, <2>12, <2>13 DEF OpInv, WriteSteps
  <2>15. FormatInv' /\ SuperInv'
    <3>1. Layout \subseteq d2[BITMAP] /\ Layout \subseteq v2[BITMAP]
      BY <1>3, <2>1, <2>6
    <3>2. QED
      BY <2>5, <2>8, <3>1, RunInv DEF WriteSteps
  <2>16. QED
    BY <1>2, <2>5, <2>6, <2>9, <2>10, <2>14, <2>15 DEF CoreInv
<1>7. QED
  BY <1>5, <1>6 DEF allocate_block

\* The inode in the slot S gets the block B at the place A, a cleared block for a table.
Grows(L, d, v, t, t2, S, A, B) ==
    /\ t \in TableType /\ S \in Slots /\ A \in 0 .. NDIRECT
    /\ t[S].refcnt > 0 /\ t2[S].number = t[S].number
    /\ t2[S].disk.addrs = [t[S].disk.addrs EXCEPT ![A] = B]
    /\ \A s \in Slots : s # S => t2[s] = t[s]
    /\ \A w \in Words : d[B][w] = 0 /\ v[B][w] = 0

LEMMA AddrGrown ==
    ASSUME NEW L, L \subseteq Inums,
           NEW d, NEW v, NEW t, NEW t2, NEW S, NEW A, NEW B, Grows(L, d, v, t, t2, S, A, B)
    PROVE  \A b, n, a : Refers(L, d, v, t2, b, n, a) =>
               Refers(L, d, v, t, b, n, a) \/ (b = B /\ n = t[S].number /\ a = A)
<1>0. /\ t \in TableType /\ S \in Slots /\ A \in 0 .. NDIRECT
      /\ t[S].refcnt > 0 /\ t2[S].number = t[S].number
      /\ t2[S].disk.addrs = [t[S].disk.addrs EXCEPT ![A] = B]
      /\ \A s \in Slots : s # S => t2[s] = t[s]
      /\ \A w \in Words : d[B][w] = 0 /\ v[B][w] = 0
  BY DEF Grows
<1>1. PICK f, g, N : f = t[S].disk.addrs /\ g = t2[S].disk.addrs /\ N = t[S].number
  OBVIOUS
<1>2. f \in [0 .. NDIRECT -> BlockNumbers]
  BY <1>0, <1>1 DEF TableType, InodeType
<1>3. g[A] = B /\ \A a \in 0 .. NDIRECT : a # A => g[a] = f[a]
  BY <1>0, <1>1, <1>2
<1>4. f \in AddrsOf(d, v, t, N)
  BY <1>0, <1>1 DEF AddrsOf
<1>5. SUFFICES ASSUME NEW b, NEW n, NEW a, Refers(L, d, v, t2, b, n, a)
               PROVE  Refers(L, d, v, t, b, n, a) \/ (b = B /\ n = N /\ a = A)
  BY <1>1
<1>6. b # 0 /\ n \in L
  BY <1>5 DEF Refers
<1>7. PICK h \in AddrsOf(d, v, t2, n) :
        \/ a \in 0 .. NDIRECT /\ b = h[a]
        \/ /\ h[NDIRECT] # 0
           /\ \E w \in Words : /\ a = NDIRECT + 1 + w
                               /\ b = d[h[NDIRECT]][w] \/ b = v[h[NDIRECT]][w]
  BY <1>5 DEF Refers
<1>8. h \in AddrsOf(d, v, t, n) \/ (n = N /\ h = g)
  <2>1. CASE h \in {d[INODES][n].addrs, v[INODES][n].addrs}
    BY <2>1 DEF AddrsOf
  <2>2. CASE \E s \in Slots : t2[s].refcnt > 0 /\ t2[s].number = n /\ h = t2[s].disk.addrs
    <3>1. PICK s \in Slots : t2[s].refcnt > 0 /\ t2[s].number = n /\ h = t2[s].disk.addrs
      BY <2>2
    <3>2. CASE s = S
      BY <1>0, <1>1, <3>1, <3>2
    <3>3. CASE s # S
      <4>1. t[s].refcnt > 0 /\ t[s].number = n /\ h = t[s].disk.addrs
        BY <1>0, <3>1, <3>3
      <4>2. QED
        BY <4>1 DEF AddrsOf
    <3>4. QED
      BY <3>2, <3>3
  <2>3. QED
    BY <1>7, <2>1, <2>2 DEF AddrsOf
<1>9. CASE h \in AddrsOf(d, v, t, n)
  BY <1>6, <1>7, <1>9 DEF Refers
<1>10. CASE n = N /\ h = g
  <2>1. CASE a \in 0 .. NDIRECT /\ b = g[a]
    BY <1>3, <1>4, <1>6, <1>10, <2>1 DEF Refers
  <2>2. CASE /\ g[NDIRECT] # 0
             /\ \E w \in Words : /\ a = NDIRECT + 1 + w
                                 /\ b = d[g[NDIRECT]][w] \/ b = v[g[NDIRECT]][w]
    <3>1. CASE A = NDIRECT
      BY <1>0, <1>3, <1>6, <2>2, <3>1
    <3>2. CASE A # NDIRECT
      <4>1. g[NDIRECT] = f[NDIRECT]
        BY <1>3, <3>2, NoInodeFacts
      <4>2. QED
        BY <1>4, <1>6, <1>10, <2>2, <4>1 DEF Refers
    <3>3. QED
      BY <3>1, <3>2
  <2>3. QED
    BY <1>7, <1>10, <2>1, <2>2
<1>11. QED
  BY <1>8, <1>9, <1>10

LEMMA ZeroBlockInv ==
    ASSUME NEW L, L \subseteq Inums, CoreInv(L), zero_block
    PROVE  CoreInv(L)'
<1>1. CoreType /\ SlotInv(L) /\ OpInv(L) /\ Once(L, disk, view, inode_table) /\ Stores(disk, view, inode_table)
  BY TypeParts DEF CoreInv
<1>2. /\ pc = "zero" /\ UNCHANGED <<ref, i, op, writes, crashes, reported>>
      /\ pc \in WriteSteps /\ pc # "update"
  BY DEF zero_block, WriteSteps
<1>3. PICK S, B, N : S = op.slot /\ B = op.block /\ N = inode_table[op.slot].number
  OBVIOUS
<1>4. /\ S \in Slots /\ inode_table[S].refcnt > 0
      /\ inode.addrs \in [0 .. NDIRECT -> BlockNumbers]
      /\ logical \in 0 .. MAXFILE - 1
      /\ Layout \subseteq disk[BITMAP] /\ Layout \subseteq view[BITMAP]
  BY <1>2, <1>3, OpFacts
<1>5. /\ Used(disk, view, B) /\ Unreferenced(L, disk, view, inode_table, B)
      /\ op.for = "direct" <=> logical < NDIRECT
      /\ op.for = "entry" => inode.addrs[NDIRECT] # 0
  BY <1>1, <1>2, <1>3 DEF OpInv
<1>6. B \in DataBlocks
  BY <1>5 DEF Used
<1>7. PICK place, addrs : /\ place = (IF op.for = "direct" THEN logical ELSE NDIRECT)
                          /\ addrs = [inode.addrs EXCEPT ![place] = B]
  OBVIOUS
<1>7a. PICK o \in Outcomes("run") :
        /\ put(B, Zero, o)
        /\ pc' = IF o # "written" THEN "update"
                 ELSE CASE op.for = "direct"   -> "data"
                        [] op.for = "indirect" -> "map"
                        [] op.for = "entry"    -> "table"
        /\ inode_table' = IF o = "written" /\ op.for # "entry"
                          THEN [inode_table EXCEPT ![S].disk = [inode EXCEPT !.addrs = addrs]]
                          ELSE inode_table
  BY <1>3, <1>7 DEF zero_block
<1>8. Harmless(L, disk, view, inode_table, B, Zero)
  BY <1>5, <1>6, LayoutFacts DEF Harmless, BlockOK, Unreferenced, Zero
<1>9. PICK d2, v2, t2 : d2 = disk' /\ v2 = view' /\ t2 = inode_table'
  OBVIOUS
<1>10. /\ StoreOK(d2) /\ StoreOK(v2) /\ Once(L, d2, v2, inode_table)
       /\ \A c \in Blocks : c # B => d2[c] = disk[c] /\ v2[c] = view[c]
       /\ Fewer(L, disk, view, inode_table, d2, v2, inode_table)
       /\ o = "written" => d2[B] = Zero /\ v2[B] = Zero
  <2>1. B # BITMAP
    BY <1>6, LayoutFacts
  <2>2. QED
    BY <1>1, <1>7a, <1>8, <1>9, <2>1, PutHarmless
<1>11. d2[BITMAP] = disk[BITMAP] /\ v2[BITMAP] = view[BITMAP]
  BY <1>6, <1>10, LayoutFacts
<1>12. Used(d2, v2, B) /\ Unreferenced(L, d2, v2, inode_table, B)
  BY <1>5, <1>10, <1>11 DEF Used, Unreferenced, Fewer
<1>15. inode_table \in TableType /\ op.for \in {"direct", "indirect", "entry"}
  BY <1>1, TypeParts DEF Stores, OpType
<1>13. pc' \in {"update", "data", "map", "table"}
  BY <1>15, <1>7a
<1>14. FormatInv' /\ SuperInv'
  BY <1>4, <1>9, <1>11, <1>13, RunInv DEF WriteSteps
<1>16. CASE t2 = inode_table /\ pc' \in {"update", "table"} /\ (pc' = "table" => op.for = "entry")
  <2>1. CoreType'
    BY <1>1, <1>2, <1>9, <1>10, <1>13, <1>15, <1>16, TypeParts DEF Stores, Steps, WriteSteps
  <2>2. SlotInv(L)'
    BY <1>1, <1>2, <1>9, <1>13, <1>16 DEF SlotInv, FormatSteps, WriteSteps
  <2>3. logical' = logical /\ inode' = inode
    BY <1>2, <1>9, <1>16 DEF logical, containing, pos, inode
  <2>4. OpInv(L)'
    BY <1>1, <1>2, <1>3, <1>9, <1>12, <1>16, <2>3 DEF OpInv, WriteSteps
  <2>5. QED
    BY <1>9, <1>10, <1>14, <1>16, <2>1, <2>2, <2>4 DEF CoreInv
<1>17. ASSUME place \in 0 .. NDIRECT, o = "written",
              t2 = [inode_table EXCEPT ![S].disk = [inode EXCEPT !.addrs = addrs]],
              \/ pc' = "data" /\ place # NDIRECT
              \/ pc' = "map"
       PROVE  CoreInv(L)'
  <2>1. PICK node : node = [inode EXCEPT !.addrs = addrs]
    OBVIOUS
  <2>2. /\ t2 \in TableType
        /\ \A s \in Slots : t2[s].refcnt = inode_table[s].refcnt /\ t2[s].number = inode_table[s].number
        /\ \A s \in Slots : s # S => t2[s] = inode_table[s]
        /\ t2[S].disk.addrs = [inode_table[S].disk.addrs EXCEPT ![place] = B]
    <3>1. inode \in InodeType /\ inode = inode_table[S].disk
      BY <1>2, <1>3, OpFacts DEF inode
    <3>2. addrs \in [0 .. NDIRECT -> BlockNumbers] /\ addrs = [inode_table[S].disk.addrs EXCEPT ![place] = B]
      BY <1>4, <1>6, <1>7, <1>17, <3>1, LayoutFacts
    <3>3. node \in InodeType /\ node.addrs = addrs
      BY <2>1, <3>1, <3>2 DEF InodeType
    <3>4. t2 = [inode_table EXCEPT ![S].disk = node]
      BY <1>17, <2>1
    <3>5. QED
      BY <1>4, <1>15, <3>2, <3>3, <3>4 DEF TableType
  <2>3. \A w \in Words : d2[B][w] = 0 /\ v2[B][w] = 0
    BY <1>10, <1>17 DEF Zero
  <2>4. \A b, n, a : Refers(L, d2, v2, t2, b, n, a) =>
            Refers(L, d2, v2, inode_table, b, n, a) \/ (b = B /\ n = N /\ a = place)
    <3>1. PICK t : t = inode_table
      OBVIOUS
    <3>2. Grows(L, d2, v2, t, t2, S, place, B)
      BY <1>4, <1>15, <1>17, <2>2, <2>3, <3>1 DEF Grows
    <3>3. \A b, n, a : Refers(L, d2, v2, t2, b, n, a) =>
              Refers(L, d2, v2, t, b, n, a) \/ (b = B /\ n = t[S].number /\ a = place)
      BY <3>2, AddrGrown
    <3>4. N = t[S].number
      BY <1>3, <3>1
    <3>5. QED
      BY <3>1, <3>3, <3>4
  <2>5. Once(L, d2, v2, t2)
    BY <1>10, <1>12, <2>4, OnceGrown
  <2>6. CoreType'
    BY <1>1, <1>2, <1>9, <1>10, <1>13, <2>2, TypeParts DEF Stores, Steps, WriteSteps
  <2>7. SlotInv(L)'
    BY <1>1, <1>2, <1>9, <1>13, <2>2 DEF SlotInv, FormatSteps, WriteSteps
  <2>8. pc' = "data" => \A n : ~Refers(L, d2, v2, t2, B, n, NDIRECT)
    <3>1. pc' = "data" => place # NDIRECT
      BY <1>17
    <3>2. QED
      BY <1>12, <2>4, <3>1 DEF Unreferenced
  <2>9. OpInv(L)'
    BY <1>1, <1>2, <1>3, <1>4, <1>6, <1>9, <1>17, <2>2, <2>8 DEF OpInv, WriteSteps
  <2>10. QED
    BY <1>9, <1>14, <2>5, <2>6, <2>7, <2>9 DEF CoreInv
<1>18. CASE o = "written" /\ op.for = "direct"
  <2>1. logical \in 0 .. NDIRECT /\ logical # NDIRECT
    BY <1>4, <1>5, <1>18, Naturals, NoInodeFacts
  <2>2. QED
    BY <1>7, <1>7a, <1>9, <1>17, <1>18, <2>1
<1>19. CASE o = "written" /\ op.for = "indirect"
  <2>1. place = NDIRECT
    BY <1>7, <1>19
  <2>2. QED
    BY <1>7a, <1>9, <1>17, <1>19, <2>1, NoInodeFacts
<1>20. CASE o # "written" \/ op.for = "entry"
  <2>1. CASE o # "written"
    BY <1>7a, <1>9, <1>16, <2>1
  <2>2. CASE o = "written" /\ op.for = "entry"
    BY <1>7a, <1>9, <1>16, <2>2
  <2>3. QED
    BY <1>20, <2>1, <2>2
<1>21. QED
  BY <1>15, <1>18, <1>19, <1>20

\* The table T of the inode N gets the block B at the entry W, on the device, in the cache or both.
Enters(L, d, v, t, d2, v2, N, T, W, B) ==
    /\ Once(L, d, v, t) /\ Refers(L, d, v, t, T, N, NDIRECT) /\ T # INODES
    /\ d2[INODES] = d[INODES] /\ v2[INODES] = v[INODES]
    /\ \A c \in DataBlocks : c # T => d2[c] = d[c] /\ v2[c] = v[c]
    /\ \A w \in Words : w # W => /\ d2[T][w] \in {d[T][w], v[T][w]}
                                 /\ v2[T][w] \in {d[T][w], v[T][w]}
    /\ d2[T][W] \in {d[T][W], v[T][W], B} /\ v2[T][W] \in {d[T][W], v[T][W], B}

LEMMA TableGrown ==
    ASSUME NEW L, L \subseteq Inums,
           NEW d, NEW v, NEW t, NEW d2, NEW v2, NEW N, NEW T, NEW W, NEW B,
           Enters(L, d, v, t, d2, v2, N, T, W, B)
    PROVE  \A b, n, a : Refers(L, d2, v2, t, b, n, a) =>
               Refers(L, d, v, t, b, n, a) \/ (b = B /\ n = N /\ a = NDIRECT + 1 + W)
<1>1. SUFFICES ASSUME NEW b, NEW n, NEW a, Refers(L, d2, v2, t, b, n, a)
               PROVE  Refers(L, d, v, t, b, n, a) \/ (b = B /\ n = N /\ a = NDIRECT + 1 + W)
  OBVIOUS
<1>2. b # 0 /\ n \in L
  BY <1>1 DEF Refers
<1>3. PICK f \in AddrsOf(d2, v2, t, n) :
        \/ a \in 0 .. NDIRECT /\ b = f[a]
        \/ /\ f[NDIRECT] # 0
           /\ \E w \in Words : /\ a = NDIRECT + 1 + w
                               /\ b = d2[f[NDIRECT]][w] \/ b = v2[f[NDIRECT]][w]
  BY <1>1 DEF Refers
<1>4. f \in AddrsOf(d, v, t, n)
  BY <1>3 DEF Enters, AddrsOf
<1>5. CASE a \in 0 .. NDIRECT /\ b = f[a]
  BY <1>2, <1>4, <1>5 DEF Refers
<1>6. CASE /\ f[NDIRECT] # 0
           /\ \E w \in Words : /\ a = NDIRECT + 1 + w
                               /\ b = d2[f[NDIRECT]][w] \/ b = v2[f[NDIRECT]][w]
  <2>1. PICK w \in Words : /\ a = NDIRECT + 1 + w
                           /\ b = d2[f[NDIRECT]][w] \/ b = v2[f[NDIRECT]][w]
    BY <1>6
  <2>2. Refers(L, d, v, t, f[NDIRECT], n, NDIRECT)
    BY <1>2, <1>4, <1>6, TableIsReferred
  <2>3. f[NDIRECT] \in DataBlocks
    BY <2>2 DEF Enters, Once, Used
  <2>4. b \in {d[f[NDIRECT]][w], v[f[NDIRECT]][w]} => Refers(L, d, v, t, b, n, a)
    BY <1>2, <1>4, <1>6, <2>1 DEF Refers
  <2>5. CASE f[NDIRECT] # T
    BY <2>1, <2>3, <2>4, <2>5 DEF Enters
  <2>6. CASE f[NDIRECT] = T
    <3>1. n = N
      BY <2>2, <2>6 DEF Enters, Once
    <3>2. CASE w = W
      BY <2>1, <2>4, <2>6, <3>1, <3>2 DEF Enters
    <3>3. CASE w # W
      BY <2>1, <2>4, <2>6, <3>3 DEF Enters
    <3>4. QED
      BY <3>2, <3>3
  <2>7. QED
    BY <2>5, <2>6
<1>7. QED
  BY <1>3, <1>5, <1>6

LEMMA WriteTableInv ==
    ASSUME NEW L, L \subseteq Inums, CoreInv(L), write_table
    PROVE  CoreInv(L)'
<1>1. CoreType /\ SlotInv(L) /\ OpInv(L) /\ Once(L, disk, view, inode_table) /\ Stores(disk, view, inode_table)
  BY TypeParts DEF CoreInv
<1>2. /\ pc = "table" /\ UNCHANGED <<inode_table, ref, i, op, writes, crashes, reported>>
      /\ pc \in WriteSteps /\ pc # "update"
  BY DEF write_table, WriteSteps, inodeVars
<1>3. PICK B, N, T, W : /\ B = op.block /\ N = inode_table[op.slot].number
                        /\ T = inode.addrs[NDIRECT] /\ W = logical - NDIRECT
  OBVIOUS
<1>4. /\ N \in L /\ N \in Inums /\ inode.addrs \in AddrsOf(disk, view, inode_table, N)
      /\ logical \in 0 .. MAXFILE - 1
      /\ Layout \subseteq disk[BITMAP] /\ Layout \subseteq view[BITMAP]
  BY <1>2, <1>3, OpFacts
<1>5. /\ Used(disk, view, B) /\ Unreferenced(L, disk, view, inode_table, B)
      /\ ~(logical < NDIRECT) /\ T # 0
  BY <1>1, <1>2, <1>3 DEF OpInv
<1>6. Refers(L, disk, view, inode_table, T, N, NDIRECT)
  BY <1>3, <1>4, <1>5, TableIsReferred
<1>7. T \in DataBlocks
  BY <1>1, <1>6 DEF Once, Used
<1>8. W \in Words /\ NDIRECT + 1 + W # NDIRECT
  BY <1>3, <1>4, <1>5, Naturals DEF MAXFILE, Words
<1>9. PICK x : x = [view[T] EXCEPT ![W] = B]
  OBVIOUS
<1>10. B \in Nat /\ view[T] \in [Words -> Nat]
  BY <1>1, <1>5, <1>7, LayoutFacts DEF Used, Stores, StoreOK
<1>11. /\ x \in [Words -> Nat] /\ x[W] = B
       /\ \A w \in Words : w # W => x[w] = view[T][w]
  BY <1>8, <1>9, <1>10
<1>12. PICK o : put(T, x, o) /\ pc' = IF o = "written" THEN "data" ELSE "update"
  BY <1>3, <1>9 DEF write_table
<1>13. PICK d2, v2 : d2 = disk' /\ v2 = view'
  OBVIOUS
<1>14. BlockOK(T, x)
  BY <1>7, <1>11, LayoutFacts DEF BlockOK
<1>15. /\ StoreOK(d2) /\ StoreOK(v2)
       /\ \A c \in Blocks : c # T => d2[c] = disk[c] /\ v2[c] = view[c]
       /\ d2[T] = disk[T] \/ d2[T] = x
       /\ v2[T] = view[T] \/ v2[T] = x
  BY <1>1, <1>12, <1>13, <1>14, PutFrame
<1>16. /\ d2[BITMAP] = disk[BITMAP] /\ v2[BITMAP] = view[BITMAP]
       /\ d2[INODES] = disk[INODES] /\ v2[INODES] = view[INODES] /\ T # INODES
  BY <1>7, <1>15, LayoutFacts
<1>17. \A b, n, a : Refers(L, d2, v2, inode_table, b, n, a) =>
           Refers(L, disk, view, inode_table, b, n, a) \/ (b = B /\ n = N /\ a = NDIRECT + 1 + W)
  <2>1. Enters(L, disk, view, inode_table, d2, v2, N, T, W, B)
    <3>1. \A c \in DataBlocks : c # T => d2[c] = disk[c] /\ v2[c] = view[c]
      BY <1>15, LayoutFacts
    <3>2. \A w \in Words : w # W => /\ d2[T][w] \in {disk[T][w], view[T][w]}
                                    /\ v2[T][w] \in {disk[T][w], view[T][w]}
      BY <1>11, <1>15
    <3>3. d2[T][W] \in {disk[T][W], view[T][W], B} /\ v2[T][W] \in {disk[T][W], view[T][W], B}
      BY <1>11, <1>15
    <3>4. QED
      BY <1>1, <1>6, <1>16, <3>1, <3>2, <3>3 DEF Enters
  <2>2. QED
    BY <2>1, TableGrown
<1>18. Used(d2, v2, B) /\ \A b : Used(disk, view, b) => Used(d2, v2, b)
  BY <1>5, <1>16 DEF Used
<1>19. Once(L, d2, v2, inode_table)
  BY <1>1, <1>5, <1>17, <1>18, OnceGrown
<1>20. pc' \in {"data", "update"}
  BY <1>12
<1>21. CoreType'
  BY <1>1, <1>2, <1>13, <1>15, <1>20, TypeParts DEF Stores, Steps, WriteSteps
<1>22. SlotInv(L)'
  BY <1>1, <1>2, <1>20 DEF SlotInv, FormatSteps, WriteSteps
<1>23. \A n : ~Refers(L, d2, v2, inode_table, B, n, NDIRECT)
  BY <1>5, <1>8, <1>17 DEF Unreferenced
<1>24. OpInv(L)'
  <2>1. B \in DataBlocks
    BY <1>5 DEF Used
  <2>2. QED
    BY <1>1, <1>2, <1>3, <1>13, <1>20, <1>23, <2>1 DEF OpInv, WriteSteps
<1>25. FormatInv' /\ SuperInv'
  BY <1>4, <1>13, <1>16, <1>20, RunInv DEF WriteSteps
<1>26. QED
  BY <1>2, <1>13, <1>19, <1>21, <1>22, <1>24, <1>25 DEF CoreInv

LEMMA WriteBlockInv ==
    ASSUME NEW L, L \subseteq Inums, CoreInv(L), write_block
    PROVE  CoreInv(L)'
<1>1. CoreType /\ SlotInv(L) /\ OpInv(L) /\ Once(L, disk, view, inode_table) /\ Stores(disk, view, inode_table)
      /\ op \in OpType /\ reported \in ReportType
  BY TypeParts DEF CoreInv
<1>2. /\ pc = "data" /\ UNCHANGED <<inode_table, ref, i, writes, crashes>>
      /\ pc \in WriteSteps /\ pc # "update"
  BY DEF write_block, WriteSteps, inodeVars
<1>3. PICK B, N : B = op.block /\ N = inode_table[op.slot].number
  OBVIOUS
<1>4. /\ op.slot \in Slots /\ inode_table[op.slot].refcnt > 0 /\ N \in Inums
      /\ in_block \in Words
      /\ Layout \subseteq disk[BITMAP] /\ Layout \subseteq view[BITMAP]
  BY <1>2, <1>3, OpFacts
<1>5. /\ B \in DataBlocks /\ \A n : ~Refers(L, disk, view, inode_table, B, n, NDIRECT)
      /\ op.offset + op.count <= MaxBytes /\ op.done < op.count
  BY <1>1, <1>2, <1>3 DEF OpInv
<1>6. op.offset \in Nat /\ op.count \in Nat /\ op.done \in Nat /\ op.value \in Nat /\ MaxBytes \in Nat
  BY <1>1, NoInodeFacts, Naturals DEF OpType
<1>7. left \in Nat /\ chunk \in Nat /\ chunk <= left /\ left = op.count - op.done /\ pos = op.offset + op.done
  <2>1. left \in Nat /\ left = op.count - op.done /\ pos = op.offset + op.done
    BY <1>5, <1>6 DEF left, pos
  <2>2. in_block \in Nat /\ in_block < FSBLOCK_SIZE /\ FSBLOCK_SIZE \in Nat
    BY <1>4, Naturals DEF Words
  <2>3. QED
    BY <2>1, <2>2 DEF chunk
<1>8. PICK x : x = [w \in Words |-> IF w \in in_block .. in_block + chunk - 1
                                    THEN op.value + op.done + (w - in_block)
                                    ELSE view[B][w]]
  OBVIOUS
<1>9. x \in [Words -> Nat]
  <2>1. view[B] \in [Words -> Nat]
    BY <1>1, <1>5 DEF Stores, StoreOK
  <2>2. in_block \in Nat
    BY <1>4, Naturals DEF Words
  <2>3. ASSUME NEW w \in Words
        PROVE  (IF w \in in_block .. in_block + chunk - 1
                THEN op.value + op.done + (w - in_block) ELSE view[B][w]) \in Nat
    <3>1. op.value \in Nat /\ op.done \in Nat /\ view[B][w] \in Nat /\ w \in Int
      BY <1>6, <2>1, Naturals DEF Words
    <3>2. w \in in_block .. in_block + chunk - 1 => w - in_block \in Nat
      BY <1>7, <2>2, <3>1
    <3>3. QED
      BY <3>1, <3>2
  <2>4. QED
    BY <1>8, <2>3
<1>10. PICK words : words = [w \in 0 .. MaxBytes - 1 |-> IF w \in pos .. pos + chunk - 1
                                                         THEN op.value + (w - op.offset)
                                                         ELSE reported[N].words[w]]
  OBVIOUS
<1>11. words \in [0 .. MaxBytes - 1 -> Nat]
  <2>1. reported[N].words \in [0 .. MaxBytes - 1 -> Nat]
    BY <1>1, <1>4 DEF ReportType
  <2>2. ASSUME NEW w \in 0 .. MaxBytes - 1
        PROVE  (IF w \in pos .. pos + chunk - 1
                THEN op.value + (w - op.offset) ELSE reported[N].words[w]) \in Nat
    <3>1. w \in pos .. pos + chunk - 1 => op.value + (w - op.offset) \in Nat
      <4>1. w \in Nat
        BY <1>6
      <4>2. pos <= w => w - op.offset \in Nat
        BY <1>6, <1>7, <4>1
      <4>3. QED
        BY <1>6, <1>7, <4>1, <4>2
    <3>2. reported[N].words[w] \in Nat
      BY <2>1
    <3>3. QED
      BY <3>1, <3>2
  <2>3. QED
    BY <1>10, <2>2
<1>12. PICK o :
         /\ put(B, x, o)
         /\ IF o = "written"
            THEN /\ op' = [op EXCEPT !.done = @ + chunk]
                 /\ pc' = IF chunk < left THEN "map" ELSE "update"
                 /\ reported' = [reported EXCEPT ![N].words = words]
            ELSE pc' = "update" /\ UNCHANGED <<op, reported>>
  BY <1>3, <1>8, <1>10 DEF write_block
<1>13. Harmless(L, disk, view, inode_table, B, x) /\ B # BITMAP
  BY <1>5, <1>9, LayoutFacts DEF Harmless, BlockOK
<1>14. PICK d2, v2 : d2 = disk' /\ v2 = view'
  OBVIOUS
<1>15. /\ StoreOK(d2) /\ StoreOK(v2) /\ Once(L, d2, v2, inode_table)
       /\ \A c \in Blocks : c # B => d2[c] = disk[c] /\ v2[c] = view[c]
  BY <1>1, <1>12, <1>13, <1>14, PutHarmless
<1>16. d2[BITMAP] = disk[BITMAP] /\ v2[BITMAP] = view[BITMAP]
  BY <1>13, <1>15, LayoutFacts
<1>17. /\ op' \in OpType /\ op'.slot = op.slot /\ op'.offset = op.offset /\ op'.count = op.count
       /\ op'.done <= op'.count
       /\ pc' \in {"map", "update"} /\ (pc' = "map" => op'.done < op'.count)
  <2>1. CASE op' = op /\ pc' = "update"
    BY <1>1, <1>5, <1>6, <2>1
  <2>2. CASE op' = [op EXCEPT !.done = @ + chunk] /\ pc' = IF chunk < left THEN "map" ELSE "update"
    <3>1. op.done + chunk \in 0 .. MaxBytes /\ op.done + chunk <= op.count
          /\ (chunk < left => op.done + chunk < op.count)
      BY <1>5, <1>6, <1>7
    <3>2. /\ op' \in OpType /\ op'.slot = op.slot /\ op'.offset = op.offset /\ op'.count = op.count
          /\ op'.done = op.done + chunk
      BY <1>1, <2>2, <3>1 DEF OpType
    <3>3. QED
      BY <2>2, <3>1, <3>2
  <2>3. QED
    BY <1>12, <2>1, <2>2
<1>18. reported' \in ReportType
  <2>1. reported' = reported \/ reported' = [reported EXCEPT ![N].words = words]
    BY <1>12
  <2>2. QED
    BY <1>1, <1>4, <1>11, <2>1 DEF ReportType
<1>19. CoreType'
  BY <1>1, <1>2, <1>14, <1>15, <1>17, <1>18, TypeParts DEF Stores, Steps, WriteSteps
<1>20. SlotInv(L)'
  BY <1>1, <1>2, <1>17 DEF SlotInv, FormatSteps, WriteSteps
<1>21. OpInv(L)'
  BY <1>2, <1>4, <1>5, <1>17 DEF OpInv, WriteSteps
<1>22. FormatInv' /\ SuperInv'
  BY <1>4, <1>14, <1>16, <1>17, RunInv DEF WriteSteps
<1>23. QED
  BY <1>2, <1>14, <1>15, <1>19, <1>20, <1>21, <1>22 DEF CoreInv

LEMMA UpdateInodeInv ==
    ASSUME NEW L, L \subseteq Inums, CoreInv(L), update_inode
    PROVE  CoreInv(L)'
<1>1. CoreType /\ SlotInv(L) /\ Once(L, disk, view, inode_table) /\ Stores(disk, view, inode_table)
      /\ inode_table \in TableType /\ reported \in ReportType
  BY TypeParts DEF CoreInv, Stores
<1>2. /\ pc = "update" /\ pc' = "idle" /\ op' = NoOp /\ UNCHANGED <<ref, i, writes, crashes>>
      /\ pc \in WriteSteps
  BY DEF update_inode, WriteSteps
<1>3. PICK S, N, size : /\ S = op.slot /\ N = inode_table[op.slot].number
                        /\ size = (IF pos > inode.size THEN pos ELSE inode.size)
  OBVIOUS
<1>4. /\ S \in Slots /\ inode_table[S].refcnt > 0 /\ N \in Inums /\ inode \in InodeType
      /\ inode.addrs \in AddrsOf(disk, view, inode_table, N) /\ pos \in 0 .. MaxBytes
      /\ Layout \subseteq disk[BITMAP] /\ Layout \subseteq view[BITMAP]
  BY <1>2, <1>3, OpFacts
<1>5. PICK final : final = [inode EXCEPT !.size = size]
  OBVIOUS
<1>6. final \in InodeType /\ final.addrs = inode.addrs /\ size \in 0 .. MaxBytes
  <2>1. size \in 0 .. MaxBytes
    BY <1>3, <1>4 DEF InodeType
  <2>2. QED
    BY <1>4, <1>5, <2>1 DEF InodeType
<1>7. PICK x : x = [view[INODES] EXCEPT ![N] = final]
  OBVIOUS
<1>8. PICK o :
        /\ put(INODES, x, o)
        /\ reported' = IF o = "written" THEN [reported EXCEPT ![N].size = size] ELSE reported
  BY <1>3, <1>5, <1>7 DEF update_inode
<1>9. /\ x \in [Inums -> InodeType] /\ x[N] = final
      /\ \A m \in Inums : m # N => x[m] = view[INODES][m]
  BY <1>1, <1>4, <1>6, <1>7 DEF Stores, StoreOK
<1>10. Harmless(L, disk, view, inode_table, INODES, x)
  <2>1. BlockOK(INODES, x)
    BY <1>9, LayoutFacts DEF BlockOK
  <2>2. \A m \in Inums : x[m].addrs \in AddrsOf(disk, view, inode_table, m)
    <3>1. \A m \in Inums : view[INODES][m].addrs \in AddrsOf(disk, view, inode_table, m)
      BY DEF AddrsOf
    <3>2. QED
      BY <1>4, <1>6, <1>9, <3>1
  <2>3. QED
    BY <2>1, <2>2, LayoutFacts DEF Harmless
<1>11. PICK d2, v2, t2 : d2 = disk' /\ v2 = view' /\ t2 = inode_table'
  OBVIOUS
<1>12. /\ StoreOK(d2) /\ StoreOK(v2) /\ Once(L, d2, v2, inode_table)
       /\ \A c \in Blocks : c # INODES => d2[c] = disk[c] /\ v2[c] = view[c]
  BY <1>1, <1>8, <1>10, <1>11, PutHarmless, LayoutFacts
<1>13. d2[BITMAP] = disk[BITMAP] /\ v2[BITMAP] = view[BITMAP]
  BY <1>12, LayoutFacts
<1>14. t2 = [inode_table EXCEPT ![S].disk = final]
  BY <1>3, <1>5, <1>11 DEF update_inode
<1>15. /\ t2 \in TableType
       /\ \A s \in Slots : t2[s].refcnt = inode_table[s].refcnt /\ t2[s].number = inode_table[s].number
       /\ \A s \in Slots : t2[s].disk.addrs = inode_table[s].disk.addrs
  <2>1. inode = inode_table[S].disk
    BY <1>3 DEF inode
  <2>2. QED
    BY <1>1, <1>4, <1>6, <1>14, <2>1 DEF TableType
<1>16. Fewer(L, d2, v2, inode_table, d2, v2, t2)
  <2>1. \A s \in Slots : t2[s].refcnt > 0 =>
            t2[s].disk.addrs \in AddrsOf(d2, v2, inode_table, t2[s].number)
    BY <1>15 DEF AddrsOf
  <2>2. QED
    BY <2>1, SlotsFewer
<1>17. Once(L, d2, v2, t2)
  BY <1>12, <1>16, OnceKept
<1>18. reported' \in ReportType
  BY <1>1, <1>4, <1>6, <1>8 DEF ReportType
<1>19. CoreType'
  BY <1>1, <1>2, <1>11, <1>12, <1>15, <1>18, TypeParts, NoOpType DEF Stores, Steps
<1>20. SlotInv(L)'
  BY <1>1, <1>2, <1>11, <1>15 DEF SlotInv, FormatSteps
<1>21. OpInv(L)'
  BY <1>2 DEF OpInv, WriteSteps
<1>22. FormatInv' /\ SuperInv'
  BY <1>2, <1>4, <1>11, <1>13, RunInv
<1>23. QED
  BY <1>11, <1>17, <1>19, <1>20, <1>21, <1>22 DEF CoreInv

-----------------------------------------------------------------------------
(* The theorems *)

LEMMA InitInv ==
    ASSUME NEW L, L \subseteq Inums, Init
    PROVE  CoreInv(L)
<1>1. /\ disk = Blank /\ view = Blank /\ inode_table = [s \in Slots |-> EmptySlot]
      /\ ref = [r \in Refs |-> NoSlot] /\ pc = "mount" /\ i = 0 /\ op = NoOp
      /\ writes = 0 /\ crashes = 0 /\ reported = [n \in Inums |-> NoFile]
  BY DEF Init
<1>2. /\ DOMAIN Blank = Blocks /\ Blank[SUPER] = FALSE /\ Blank[BITMAP] = {}
      /\ Blank[INODES] = [n \in Inums |-> NoInode]
      /\ \A b \in DataBlocks : Blank[b] = Zero
  BY LayoutFacts DEF Blank
<1>3. StoreOK(Blank)
  <2>1. Blank[SUPER] \in BOOLEAN
    BY <1>2
  <2>2. Blank[INODES] \in [Inums -> InodeType]
    BY <1>2, NoInodeFacts
  <2>3. \A b \in DataBlocks : Blank[b] \in [Words -> Nat]
    BY <1>2 DEF Zero
  <2>4. QED
    BY <1>2, <2>1, <2>2, <2>3 DEF StoreOK
<1>4. inode_table \in TableType
  BY <1>1, NoInodeFacts DEF TableType, EmptySlot
<1>5. reported \in ReportType
  BY <1>1, NoInodeFacts DEF ReportType, NoFile
<1>6. CoreType
  BY <1>1, <1>3, <1>4, <1>5, TypeParts, NoOpType, Naturals
     DEF Stores, RefType, Steps, DATA_START
<1>7. \A s \in Slots : inode_table[s].refcnt = 0
  BY <1>1 DEF EmptySlot
<1>8. SlotInv(L)
  <2>1. ASSUME NEW s \in Slots
        PROVE  inode_table[s].refcnt = Cardinality({r \in Refs : ref[r] = s})
    <3>1. s # NoSlot
      BY Naturals DEF Slots, NoSlot
    <3>2. {r \in Refs : ref[r] = s} = {}
      BY <1>1, <3>1
    <3>3. QED
      BY <1>7, <3>2, FS_EmptySet
  <2>2. QED
    BY <1>1, <1>7, <2>1 DEF SlotInv
<1>9. OpInv(L) /\ FormatInv /\ SuperInv
  BY <1>1, <1>2 DEF OpInv, FormatInv, SuperInv, WriteSteps, CleanSteps
<1>10. NoInodes(disk) /\ NoInodes(view)
  BY <1>1, <1>2 DEF NoInodes
<1>11. Once(L, disk, view, inode_table)
  BY <1>1, <1>8, <1>10, NoReferences DEF Once
<1>12. QED
  BY <1>6, <1>8, <1>9, <1>11 DEF CoreInv

LEMMA StutterInv ==
    ASSUME NEW L, L \subseteq Inums, CoreInv(L),
           UNCHANGED <<disk, view, inode_table, ref, pc, i, op, writes, crashes, reported>>
    PROVE  CoreInv(L)'
<1>1. UNCHANGED <<disk, view, inode_table, ref, pc, i, op, writes, crashes, reported>>
  OBVIOUS
<1>2. logical' = logical /\ inode' = inode
  BY <1>1 DEF logical, containing, pos, inode
<1>3. CoreType'
  BY <1>1, TypeParts DEF CoreInv
<1>4. SlotInv(L)'
  BY <1>1 DEF CoreInv, SlotInv
<1>5. OpInv(L)'
  BY <1>1, <1>2 DEF CoreInv, OpInv
<1>6. FormatInv' /\ SuperInv'
  BY <1>1 DEF CoreInv, FormatInv, SuperInv
<1>7. QED
  BY <1>1, <1>3, <1>4, <1>5, <1>6 DEF CoreInv

\* The steps outside a release.
CoreStep ==
    \/ mount \/ format \/ write_step
    \/ \E r \in Refs :
        \/ put_inode(r)
        \/ \E n \in Inums : get_inode(r, n)
        \/ \E offset \in 0 .. MaxBytes, count \in Counts, v \in Values :
            write_data(r, offset, count, v)

LEMMA CoreStepInv ==
    ASSUME NEW L, L = Live, CoreInv(L), CoreStep
    PROVE  CoreInv(L)'
<1>1. L \subseteq Inums
  BY DEF Live
<1>2. CASE mount \/ reload
  BY <1>1, <1>2, MountInv
<1>3. CASE format
  BY <1>1, <1>3, FormatZeroInv, FormatMarkInv, FormatSuperInv, RootAllocInv, RootZeroInv,
     RootInodeInv, MountInv DEF format
<1>4. CASE write_step
  BY <1>1, <1>4, MapBlockInv, AllocateBlockInv, ZeroBlockInv, WriteTableInv, WriteBlockInv,
     UpdateInodeInv DEF write_step
<1>5. CASE \E r \in Refs : put_inode(r)
  BY <1>1, <1>5, PutInodeInv
<1>6. ASSUME NEW r \in Refs, NEW n \in Inums, get_inode(r, n)
      PROVE  CoreInv(L)'
  <2>1. n \in L
    BY <1>6 DEF get_inode, Live
  <2>2. QED
    BY <1>1, <1>6, <2>1, GetInodeInv
<1>7. CASE \E r \in Refs : \E offset \in 0 .. MaxBytes, count \in Counts, v \in Values :
               write_data(r, offset, count, v)
  BY <1>1, <1>7, WriteDataInv
<1>8. QED
  BY <1>2, <1>3, <1>4, <1>5, <1>6, <1>7 DEF CoreStep

\* They do not run during a release and leave its variables alone.
LEMMA CoreStepFrame ==
    ASSUME TypeOK, CoreStep
    PROVE  UNCHANGED <<cleanup, released>> /\ pc \notin CleanSteps /\ pc' \notin CleanSteps
<1>1. CASE mount
  BY <1>1 DEF mount, cleanVars, CleanSteps
<1>2. CASE format
  BY <1>2 DEF format, format_zero, format_mark, format_super, root_alloc, root_zero, root_dot,
     root_dotdot, root_inode, reload, format_step, cleanVars, CleanSteps
<1>3. CASE write_step
  <2>1. CASE map_block
    BY <2>1 DEF map_block, missing, cleanVars, CleanSteps
  <2>2. CASE allocate_block
    BY <2>2 DEF allocate_block, cleanVars, CleanSteps
  <2>3. CASE zero_block
    <3>1. UNCHANGED <<cleanup, released>> /\ pc = "zero"
      BY <2>3 DEF zero_block, cleanVars
    <3>2. op.for \in {"direct", "indirect", "entry"}
      BY DEF TypeOK
    <3>3. pc' \in {"update", "data", "map", "table"}
      BY <2>3, <3>2 DEF zero_block
    <3>4. QED
      BY <3>1, <3>3 DEF CleanSteps
  <2>4. CASE write_table
    BY <2>4 DEF write_table, cleanVars, CleanSteps
  <2>5. CASE write_block
    BY <2>5 DEF write_block, cleanVars, CleanSteps
  <2>6. CASE update_inode
    BY <2>6 DEF update_inode, cleanVars, CleanSteps
  <2>7. QED
    BY <1>3, <2>1, <2>2, <2>3, <2>4, <2>5, <2>6 DEF write_step
<1>4. CASE \E r \in Refs : put_inode(r)
  BY <1>4 DEF put_inode, cleanVars, CleanSteps
<1>5. CASE \E r \in Refs : \E n \in Inums : get_inode(r, n)
  BY <1>5 DEF get_inode, cleanVars, CleanSteps
<1>6. CASE \E r \in Refs : \E offset \in 0 .. MaxBytes, count \in Counts, v \in Values :
               write_data(r, offset, count, v)
  BY <1>6 DEF write_data, cleanVars, CleanSteps
<1>7. QED
  BY <1>1, <1>2, <1>3, <1>4, <1>5, <1>6 DEF CoreStep

\* FsInv where no release is under way.
LEMMA FsIs ==
    ASSUME NEW L, L = Live', CoreInv(L)', released' \subseteq Inums, pc' \notin CleanSteps,
           cleanup' \in [number : Inums \cup {0}, blocks : SUBSET DataBlocks]
    PROVE  FsInv'
<1>1. CoreInv(Live)'
  BY DEF CoreInv, SlotInv, OpInv
<1>2. TypeOK'
  BY <1>1, TypeIs DEF CoreInv
<1>3. QED
  BY <1>1, <1>2 DEF FsInv

LEMMA FsStep ==
    ASSUME FsInv, CoreStep \/ \E r \in Refs : allocate_inode(r)
    PROVE  FsInv'
<1>1. PICK L, M : L = Live /\ M = Live'
  OBVIOUS
<1>2. /\ cleanup \in [number : Inums \cup {0}, blocks : SUBSET DataBlocks]
      /\ released \subseteq Inums /\ L \subseteq Inums
  BY <1>1, TypeIs DEF FsInv, Live
<1>3. CASE CoreStep
  <2>1. UNCHANGED <<cleanup, released>> /\ pc \notin CleanSteps /\ pc' \notin CleanSteps
    BY <1>3, CoreStepFrame DEF FsInv
  <2>2. CoreInv(L)
    BY <1>1, <2>1 DEF FsInv
  <2>3. CoreInv(L)'
    BY <1>1, <1>3, <2>2, CoreStepInv
  <2>4. L = Live'
    BY <1>1, <2>1 DEF Live
  <2>5. QED
    BY <1>2, <2>1, <2>3, <2>4, FsIs
<1>4. ASSUME NEW r \in Refs, allocate_inode(r)
      PROVE  FsInv'
  <2>1. pc \notin CleanSteps /\ pc' \notin CleanSteps /\ cleanup' = cleanup
    BY <1>4 DEF allocate_inode, CleanSteps
  <2>2. CoreInv(L)
    BY <1>1, <2>1 DEF FsInv
  <2>3. CoreInv(M)'
    BY <1>1, <1>2, <1>4, <2>2, AllocateInodeInv
  <2>4. released' \subseteq Inums
    BY <1>2, <1>4 DEF allocate_inode
  <2>5. QED
    BY <1>1, <1>2, <2>1, <2>3, <2>4, FsIs
<1>5. QED
  BY <1>3, <1>4

\* A power failure ends a release; a recycled buffer does not disturb it.
LEMMA FsCrash ==
    ASSUME FormatsOnce, FsInv, crash
    PROVE  FsInv'
<1>1. PICK L : L = Live
  OBVIOUS
<1>2. released' = released /\ cleanup' = NoCleanup /\ pc' = "mount"
  BY DEF crash
<1>3. /\ released \subseteq Inums /\ L \subseteq Inums /\ L = Live'
      /\ cleanup' \in [number : Inums \cup {0}, blocks : SUBSET DataBlocks]
  BY <1>1, <1>2, TypeIs DEF FsInv, Live, NoCleanup
<1>4. CoreType /\ SuperInv /\ Once(L, disk, view, inode_table)
  BY <1>1 DEF FsInv, CoreInv, CleanInv
<1>5. CoreInv(L)'
  BY <1>3, <1>4, CrashInv
<1>6. QED
  BY <1>2, <1>3, <1>5, FsIs DEF CleanSteps

LEMMA FsRecycle ==
    ASSUME FsInv, NEW b \in Blocks, recycle(b)
    PROVE  FsInv'
<1>1. UNCHANGED <<cleanup, released, pc>>
  BY DEF recycle, cleanVars
<1>2. PICK L, H : L = Live /\ H = Live \cup {cleanup.number}
  OBVIOUS
<1>3. /\ cleanup \in [number : Inums \cup {0}, blocks : SUBSET DataBlocks]
      /\ released \subseteq Inums /\ L \subseteq Inums /\ L = Live' /\ H = (Live \cup {cleanup.number})'
  BY <1>1, <1>2, TypeIs DEF FsInv, Live
<1>4. CASE pc \notin CleanSteps
  <2>1. CoreInv(L)
    BY <1>2, <1>4 DEF FsInv
  <2>2. CoreInv(L)'
    BY <1>3, <2>1, RecycleInv
  <2>3. QED
    BY <1>1, <1>3, <1>4, <2>2, FsIs
<1>5. CASE pc \in CleanSteps
  <2>1. /\ CoreType /\ SlotInv(H) /\ SuperInv /\ Once(L, disk, view, inode_table)
        /\ cleanup.number \in released
        /\ \A c \in cleanup.blocks : Unreferenced(L, disk, view, inode_table, c)
    BY <1>2, <1>5 DEF FsInv, CleanInv
  <2>2. OpInv(L)
    BY <1>5 DEF OpInv, WriteSteps, CleanSteps
  <2>3. /\ CoreType' /\ SlotInv(H)' /\ SuperInv' /\ Once(L, disk', view', inode_table')
        /\ Fewer(L, disk, view, inode_table, disk', view', inode_table')
    BY <1>3, <2>1, <2>2, Recycled
  <2>4. \A c \in cleanup.blocks : Unreferenced(L, disk', view', inode_table', c)
    BY <2>1, <2>3 DEF Fewer, Unreferenced
  <2>5. SlotInv(Live \cup {cleanup.number})'
    BY <1>3, <2>3 DEF SlotInv
  <2>6. CleanInv'
    BY <1>1, <1>3, <2>1, <2>3, <2>4, <2>5 DEF CleanInv
  <2>7. QED
    BY <1>1, <1>3, <1>5, <2>3, <2>6, TypeIs DEF FsInv
<1>6. QED
  BY <1>4, <1>5

LEMMA FsStutter ==
    ASSUME FsInv, UNCHANGED vars
    PROVE  FsInv'
<1>1. UNCHANGED <<disk, view, inode_table, ref, pc, i, op, writes, crashes, reported, cleanup, released>>
  BY DEF vars, storeVars, inodeVars, cleanVars
<1>2. PICK L : L = Live
  OBVIOUS
<1>3. /\ cleanup \in [number : Inums \cup {0}, blocks : SUBSET DataBlocks]
      /\ released \subseteq Inums /\ L \subseteq Inums /\ L = Live'
  BY <1>1, <1>2, TypeIs DEF FsInv, Live
<1>4. CASE pc \notin CleanSteps
  <2>1. CoreInv(L)
    BY <1>2, <1>4 DEF FsInv
  <2>2. CoreInv(L)'
    BY <1>1, <1>3, <2>1, StutterInv
  <2>3. QED
    BY <1>1, <1>3, <1>4, <2>2, FsIs
<1>5. CASE pc \in CleanSteps
  <2>1. CleanInv
    BY <1>5 DEF FsInv
  <2>2. CoreType'
    BY <1>1, <2>1, TypeParts DEF CleanInv
  <2>3. SlotInv(Live \cup {cleanup.number})' /\ SuperInv'
    BY <1>1, <1>2, <1>3, <2>1 DEF CleanInv, SlotInv, SuperInv
  <2>4. CleanInv'
    BY <1>1, <1>2, <1>3, <2>1, <2>2, <2>3 DEF CleanInv
  <2>5. QED
    BY <1>1, <1>3, <1>5, <2>2, <2>4, TypeIs DEF FsInv
<1>6. QED
  BY <1>4, <1>5

\* The inductive invariant: how far format(), write_data() and the release of a file are, what the
\* magic promises of the bitmap, the slots of the inode table, and that no block has two owners
\* among the files that are not being released.
THEOREM FileSystemInvariant == FormatsOnce /\ Spec => []FsInv
<1>0. SUFFICES ASSUME FormatsOnce
               PROVE  Spec => []FsInv
  OBVIOUS
<1>1. Init => FsInv
  <2>1. SUFFICES ASSUME Init
                 PROVE  FsInv
    OBVIOUS
  <2>2. PICK L : L = Live
    OBVIOUS
  <2>3. cleanup = NoCleanup /\ released = {} /\ pc = "mount"
    BY <2>1 DEF Init
  <2>4. CoreInv(L)
    BY <2>1, <2>2, InitInv DEF Live
  <2>5. TypeOK
    BY <2>3, <2>4, TypeIs DEF CoreInv, NoCleanup
  <2>6. QED
    BY <2>2, <2>3, <2>4, <2>5 DEF FsInv, CleanSteps
<1>2. FsInv /\ [Next]_vars => FsInv'
  <2>1. SUFFICES ASSUME FsInv, [Next]_vars
                 PROVE  FsInv'
    OBVIOUS
  <2>2. CASE CoreStep \/ \E r \in Refs : allocate_inode(r)
    BY <2>1, <2>2, FsStep
  <2>3. CASE crash
    BY <1>0, <2>1, <2>3, FsCrash
  <2>4. CASE \E b \in Blocks : recycle(b)
    BY <2>1, <2>4, FsRecycle
  <2>5. CASE (\E n \in Inums : release_file(n)) \/ \E r \in Refs : release_held(r)
    BY <2>1, <2>5, ReleaseFileInv, ReleaseHeldInv
  <2>6. CASE free_next \/ clear_inode
    BY <2>1, <2>6, FreeNextInv, ClearInodeInv
  <2>7. CASE UNCHANGED vars
    BY <2>1, <2>7, FsStutter
  <2>8. QED
    BY <2>1, <2>2, <2>3, <2>4, <2>5, <2>6, <2>7 DEF Next, CoreStep
<1>3. QED
  BY <1>1, <1>2, PTL DEF Spec

\* get_inode() and put_inode(): the slots of the inode table count their InodeRefs exactly, and an
\* inode in use has one slot, whatever device access fails and wherever the power goes.
THEOREM SlotsAreExact == FormatsOnce /\ Spec => []SlotsExact
<1>1. FsInv => SlotsExact
  <2>1. SUFFICES ASSUME FsInv
                 PROVE  SlotsExact
    OBVIOUS
  <2>2. PICK H : SlotInv(H)
    BY <2>1 DEF FsInv, CoreInv, CleanInv
  <2>3. QED
    BY <2>1, <2>2 DEF FsInv, SlotInv, SlotsExact
<1>2. QED
  BY <1>1, FileSystemInvariant, PTL

\* allocate_block(), allocate_or_find_block() and free_block(): a block that a file refers to, on the
\* device, in the cache or in the inode table, is marked in the bitmap on the device, and one place
\* of one file refers to it, whatever device access fails and wherever the power goes; only a file
\* whose release has begun may name blocks that are free or another's.
THEOREM BlocksAllocatedOnce == FormatsOnce /\ Spec => []AllocatedOnce
<1>1. FsInv => AllocatedOnce
  <2>0. SUFFICES ASSUME FsInv
                 PROVE  AllocatedOnce
    OBVIOUS
  <2>1. PICK L : L = Live
    OBVIOUS
  <2>2. Once(L, disk, view, inode_table)
    BY <2>0, <2>1 DEF FsInv, CoreInv, CleanInv
  <2>3. ASSUME NEW x \in References(L)
        PROVE  x[1] \in disk[BITMAP] \cap view[BITMAP] \cap DataBlocks
    <3>1. PICK b, n, a : x = <<b, n, a>> /\ Refers(L, disk, view, inode_table, b, n, a)
      BY <2>3, ReferencesAre
    <3>2. Used(disk, view, b)
      BY <2>2, <3>1 DEF Once
    <3>3. QED
      BY <3>1, <3>2 DEF Used
  <2>4. ASSUME NEW x \in References(L), NEW y \in References(L), x[1] = y[1]
        PROVE  x = y
    <3>1. PICK b, n, a : x = <<b, n, a>> /\ Refers(L, disk, view, inode_table, b, n, a)
      BY <2>4, ReferencesAre
    <3>2. PICK c, m, e : y = <<c, m, e>> /\ Refers(L, disk, view, inode_table, c, m, e)
      BY <2>4, ReferencesAre
    <3>3. b = c
      BY <2>4, <3>1, <3>2
    <3>4. n = m /\ a = e
      BY <2>2, <3>1, <3>2, <3>3 DEF Once
    <3>5. QED
      BY <3>1, <3>2, <3>3, <3>4
  <2>5. QED
    BY <2>1, <2>3, <2>4 DEF AllocatedOnce
<1>2. QED
  BY <1>1, FileSystemInvariant, PTL

-----------------------------------------------------------------------------
(* What the files hold *)

\* Device accesses fail only with an error of a read, and not at the mount.
Reliable == ~WriteMayFail /\ "mount" \notin FailingReads

\* find_block() for an inode with the addresses f.
BlockAt(d, f, k) ==
    IF k < NDIRECT THEN f[k] ELSE IF f[NDIRECT] = 0 THEN 0 ELSE d[f[NDIRECT]][k - NDIRECT]

\* The words below z of a file with the addresses f.
Has(d, f, w, x) ==
    /\ BlockAt(d, f, w \div FSBLOCK_SIZE) # 0
    /\ d[BlockAt(d, f, w \div FSBLOCK_SIZE)][w % FSBLOCK_SIZE] = x
Holds(d, f, z, words) == \A w \in 0 .. z - 1 : Has(d, f, w, words[w])

\* The addresses g are those of f and perhaps more.
More(f, g) == \A a \in 0 .. NDIRECT : f[a] # 0 => g[a] = f[a]

\* An inode on the device, and one in a slot, with what was reported of the file.
NodeOK(d, node, file) ==
    /\ node.size = file.size /\ Holds(d, node.addrs, file.size, file.words)
    /\ node.type = "kUnused" => node.size = 0
HeldOK(d, node, held, file) ==
    /\ node.type # "kUnused" /\ held.type # "kUnused" /\ More(node.addrs, held.addrs)
    /\ Holds(d, held.addrs, held.size, file.words)
FilesOK(L, d, t, rep) ==
    /\ \A n \in L : NodeOK(d, d[INODES][n], rep[n])
    /\ \A s \in Slots : t[s].refcnt > 0 /\ t[s].number \in L =>
        HeldOK(d, d[INODES][t[s].number], t[s].disk, rep[t[s].number])

\* What write_data() has written of the file, and the place it has found missing.
WriteInv ==
    /\ pc \in WriteSteps =>
        Holds(disk, inode.addrs, pos, reported[inode_table[op.slot].number].words)
    /\ pc \in {"alloc", "zero"} /\ op.for = "direct" => inode.addrs[logical] = 0
    /\ pc \in {"alloc", "zero"} /\ op.for = "indirect" => inode.addrs[NDIRECT] = 0
    /\ pc \in {"alloc", "zero", "table"} /\ op.for = "entry" => BlockAt(disk, inode.addrs, logical) = 0
    /\ pc = "data" => op.block = BlockAt(disk, inode.addrs, logical)

\* Before the root directory is there no file is.
RootSteps == {"root_alloc", "root_zero", "root_dot", "root_dotdot", "root_inode"}
NoFiles  == \A n \in Inums : reported[n].size = 0
FreshInv ==
    /\ ~disk[SUPER] => NoFiles
    /\ pc \in FormatSteps \ {"reload", "failed"} => NoFiles
    /\ pc \in RootSteps \cup WriteSteps \cup CleanSteps \cup {"idle"} => disk[SUPER]
    /\ pc \in {"root_dotdot", "root_inode"} => disk[op.block][0] = ROOT_INODE
    /\ pc = "root_inode" => disk[op.block][1] = ROOT_INODE

DurInv(L) == view = disk /\ FilesOK(L, disk, inode_table, reported) /\ WriteInv /\ FreshInv

\* The place of a logical block: an address or an entry of the table.
Place(k) == IF k < NDIRECT THEN k ELSE k + 1

LEMMA FindIs ==
    ASSUME NEW d, NEW node, NEW k
    PROVE  find_block(d, node, k) = BlockAt(d, node.addrs, k)
BY DEF find_block, BlockAt

LEMMA WordFacts ==
    ASSUME NEW w \in 0 .. MaxBytes - 1
    PROVE  w \div FSBLOCK_SIZE \in 0 .. MAXFILE - 1 /\ w % FSBLOCK_SIZE \in Words
<1>1. w \in Nat /\ w < MAXFILE * FSBLOCK_SIZE
  BY NoInodeFacts DEF MaxBytes
<1>2. QED
  BY <1>1, Naturals, NoInodeFacts, Quotient DEF Words

\* A block that is found is referred to, and so is the table it is found through.
LEMMA FoundIsReferred ==
    ASSUME NEW L, L \subseteq Inums,
           NEW d, NEW v, NEW t, NEW n \in L, NEW f \in AddrsOf(d, v, t, n),
           NEW k \in 0 .. MAXFILE - 1, BlockAt(d, f, k) # 0
    PROVE  /\ Refers(L, d, v, t, BlockAt(d, f, k), n, Place(k))
           /\ ~(k < NDIRECT) => /\ f[NDIRECT] # 0 /\ Refers(L, d, v, t, f[NDIRECT], n, NDIRECT)
                                /\ BlockAt(d, f, k) = d[f[NDIRECT]][k - NDIRECT]
                                /\ k - NDIRECT \in Words
<1>1. NDIRECT \in Nat /\ FSBLOCK_SIZE \in Nat
  BY Naturals
<1>2. CASE k < NDIRECT
  <2>1. k \in 0 .. NDIRECT /\ BlockAt(d, f, k) = f[k] /\ Place(k) = k
    BY <1>1, <1>2 DEF BlockAt, Place
  <2>2. QED
    BY <1>2, <2>1 DEF Refers
<1>3. CASE ~(k < NDIRECT)
  <2>1. PICK w : w = k - NDIRECT
    OBVIOUS
  <2>2. w \in Words /\ Place(k) = NDIRECT + 1 + w
    BY <1>1, <1>3, <2>1 DEF MAXFILE, Words, Place
  <2>3. f[NDIRECT] # 0 /\ BlockAt(d, f, k) = d[f[NDIRECT]][w]
    BY <1>3, <2>1 DEF BlockAt
  <2>4. Refers(L, d, v, t, BlockAt(d, f, k), n, Place(k))
    BY <2>2, <2>3 DEF Refers
  <2>5. QED
    BY <2>1, <2>2, <2>3, <2>4, TableIsReferred
<1>4. QED
  BY <1>2, <1>3

\* What is found stays, with its contents.
Kept(d, d2, f) ==
    \A k \in 0 .. MAXFILE - 1 : BlockAt(d, f, k) # 0 =>
        /\ BlockAt(d2, f, k) = BlockAt(d, f, k)
        /\ d2[BlockAt(d, f, k)] = d[BlockAt(d, f, k)]

LEMMA HoldsKept ==
    ASSUME NEW d, NEW d2, NEW f, NEW z \in 0 .. MaxBytes, NEW words,
           Holds(d, f, z, words), Kept(d, d2, f)
    PROVE  Holds(d2, f, z, words)
<1>1. SUFFICES ASSUME NEW w \in 0 .. z - 1
               PROVE  Has(d2, f, w, words[w])
  BY DEF Holds
<1>2. w \in 0 .. MaxBytes - 1
  BY NoInodeFacts
<1>3. PICK k \in 0 .. MAXFILE - 1 : k = w \div FSBLOCK_SIZE
  BY <1>2, WordFacts
<1>4. BlockAt(d, f, k) # 0 /\ d[BlockAt(d, f, k)][w % FSBLOCK_SIZE] = words[w]
  BY <1>3 DEF Holds, Has
<1>5. BlockAt(d2, f, k) = BlockAt(d, f, k) /\ d2[BlockAt(d, f, k)] = d[BlockAt(d, f, k)]
  BY <1>4 DEF Kept
<1>6. QED
  BY <1>3, <1>4, <1>5 DEF Has

\* More addresses hide none.
LEMMA MoreFinds ==
    ASSUME NEW d, NEW f, NEW g, More(f, g), NEW k \in 0 .. MAXFILE - 1, BlockAt(d, f, k) # 0
    PROVE  BlockAt(d, g, k) = BlockAt(d, f, k)
<1>1. NDIRECT \in Nat /\ NDIRECT \in 0 .. NDIRECT
  BY Naturals
<1>2. CASE k < NDIRECT
  <2>1. k \in 0 .. NDIRECT
    BY <1>1, <1>2
  <2>2. QED
    BY <1>2, <2>1 DEF BlockAt, More
<1>3. CASE ~(k < NDIRECT)
  BY <1>1, <1>3 DEF BlockAt, More
<1>4. QED
  BY <1>2, <1>3

LEMMA HoldsMore ==
    ASSUME NEW d, NEW f, NEW g, More(f, g), NEW z \in 0 .. MaxBytes, NEW words, Holds(d, f, z, words)
    PROVE  Holds(d, g, z, words)
<1>1. SUFFICES ASSUME NEW w \in 0 .. z - 1
               PROVE  Has(d, g, w, words[w])
  BY DEF Holds
<1>2. w \in 0 .. MaxBytes - 1
  BY NoInodeFacts
<1>3. PICK k \in 0 .. MAXFILE - 1 : k = w \div FSBLOCK_SIZE
  BY <1>2, WordFacts
<1>4. BlockAt(d, f, k) # 0 /\ d[BlockAt(d, f, k)][w % FSBLOCK_SIZE] = words[w]
  BY <1>3 DEF Holds, Has
<1>5. BlockAt(d, g, k) = BlockAt(d, f, k)
  BY <1>4, MoreFinds
<1>6. QED
  BY <1>3, <1>4, <1>5 DEF Has

\* No block that is referred to changes.
Untouched(L, d, v, t, d2) == \A c, n, a : Refers(L, d, v, t, c, n, a) => d2[c] = d[c]

LEMMA UntouchedKept ==
    ASSUME NEW L, L \subseteq Inums, NEW d, NEW v, NEW t, NEW d2, Untouched(L, d, v, t, d2),
           NEW n \in L, NEW f \in AddrsOf(d, v, t, n)
    PROVE  Kept(d, d2, f)
<1>1. SUFFICES ASSUME NEW k \in 0 .. MAXFILE - 1, BlockAt(d, f, k) # 0
               PROVE  /\ BlockAt(d2, f, k) = BlockAt(d, f, k)
                      /\ d2[BlockAt(d, f, k)] = d[BlockAt(d, f, k)]
  BY DEF Kept
<1>2. /\ Refers(L, d, v, t, BlockAt(d, f, k), n, Place(k))
      /\ ~(k < NDIRECT) => f[NDIRECT] # 0 /\ Refers(L, d, v, t, f[NDIRECT], n, NDIRECT)
  BY <1>1, FoundIsReferred
<1>3. d2[BlockAt(d, f, k)] = d[BlockAt(d, f, k)]
  BY <1>2 DEF Untouched
<1>4. ~(k < NDIRECT) => d2[f[NDIRECT]] = d[f[NDIRECT]]
  BY <1>2 DEF Untouched
<1>5. BlockAt(d2, f, k) = BlockAt(d, f, k)
  BY <1>4 DEF BlockAt
<1>6. QED
  BY <1>3, <1>5

\* The words of the files, on the device and through the slots.
WordsOK(L, d, nodes, t, rep) ==
    /\ \A n \in L : Holds(d, nodes[n].addrs, rep[n].size, rep[n].words)
    /\ \A s \in Slots : t[s].refcnt > 0 /\ t[s].number \in L =>
        Holds(d, t[s].disk.addrs, t[s].disk.size, rep[t[s].number].words)

LEMMA SlotAddrs ==
    ASSUME NEW d, NEW v, NEW t, NEW s \in Slots, t[s].refcnt > 0
    PROVE  t[s].disk.addrs \in AddrsOf(d, v, t, t[s].number)
BY DEF AddrsOf

\* Slots in use have inodes of L.
Numbered(L, t) == t \in TableType /\ \A s \in Slots : t[s].refcnt > 0 => t[s].number \in L

\* Of every file what is found stays.
AllKept(L, d, t, d2) == \A n \in L : \A f \in AddrsOf(d, d, t, n) : Kept(d, d2, f)

LEMMA WordsKept ==
    ASSUME NEW L, L \subseteq Inums,
           NEW d, NEW t, NEW d2, NEW rep \in ReportType, Stores(d, d, t), AllKept(L, d, t, d2),
           FilesOK(L, d, t, rep)
    PROVE  WordsOK(L, d2, d[INODES], t, rep)
<1>1. ASSUME NEW n \in L
      PROVE  Holds(d2, d[INODES][n].addrs, rep[n].size, rep[n].words)
  <2>1. PICK f, z, words : f = d[INODES][n].addrs /\ z = rep[n].size /\ words = rep[n].words
    OBVIOUS
  <2>2. f \in AddrsOf(d, d, t, n) /\ z \in 0 .. MaxBytes
    BY <2>1 DEF AddrsOf, ReportType
  <2>3. Kept(d, d2, f)
    BY <2>2 DEF AllKept
  <2>4. Holds(d, f, z, words)
    BY <2>1 DEF FilesOK, NodeOK
  <2>5. QED
    BY <2>1, <2>2, <2>3, <2>4, HoldsKept
<1>2. ASSUME NEW s \in Slots, t[s].refcnt > 0, t[s].number \in L
      PROVE  Holds(d2, t[s].disk.addrs, t[s].disk.size, rep[t[s].number].words)
  <2>1. PICK n, f, z, words : /\ n = t[s].number /\ f = t[s].disk.addrs /\ z = t[s].disk.size
                              /\ words = rep[n].words
    OBVIOUS
  <2>2. n \in L /\ f \in AddrsOf(d, d, t, n) /\ z \in 0 .. MaxBytes
    <3>1. t[s] \in [number : Inums \cup {0}, refcnt : Nat, disk : InodeType]
      BY DEF Stores, TableType
    <3>2. QED
      BY <1>2, <2>1, <3>1, SlotAddrs DEF InodeType
  <2>3. Kept(d, d2, f)
    BY <2>2 DEF AllKept
  <2>4. Holds(d, f, z, words)
    BY <1>2, <2>1 DEF FilesOK, HeldOK
  <2>5. QED
    BY <2>1, <2>2, <2>3, <2>4, HoldsKept
<1>3. QED
  BY <1>1, <1>2 DEF WordsOK

-----------------------------------------------------------------------------
(* What the steps do to the files *)

LEMMA PutBoth ==
    ASSUME Reliable, view = disk, NEW phase, NEW o \in Outcomes(phase), NEW b, NEW x, put(b, x, o)
    PROVE  /\ view' = disk'
           /\ \/ o = "written" /\ disk' = [disk EXCEPT ![b] = x]
              \/ o # "written" /\ disk' = disk
           /\ phase = "mount" => o = "written"
<1>1. o \in {"written", "read_error"} /\ (phase = "mount" => o = "written")
  BY DEF Reliable, Outcomes
<1>2. QED
  BY <1>1 DEF put

\* A write outside the files.
LEMMA PutUntouched ==
    ASSUME NEW L, L \subseteq Inums,
           NEW d, NEW v, NEW t, NEW b, NEW x, NEW d2, Stores(d, v, t), Once(L, d, v, t), BlockOK(b, x),
           MaybePut(d, b, x, d2), b \notin DataBlocks \/ Unreferenced(L, d, v, t, b)
    PROVE  Untouched(L, d, v, t, d2)
<1>1. \A c \in Blocks : c # b => d2[c] = d[c]
  BY PutStore DEF Stores
<1>2. SUFFICES ASSUME NEW c, NEW n, NEW a, Refers(L, d, v, t, c, n, a)
               PROVE  d2[c] = d[c]
  BY DEF Untouched
<1>3. c \in DataBlocks
  BY <1>2 DEF Once, Used
<1>4. c # b
  BY <1>2, <1>3 DEF Unreferenced
<1>5. QED
  BY <1>1, <1>3, <1>4, LayoutFacts

LEMMA PutKept ==
    ASSUME NEW L, L \subseteq Inums,
           NEW d, NEW t, NEW b, NEW x, NEW d2, Stores(d, d, t), Once(L, d, d, t), BlockOK(b, x),
           MaybePut(d, b, x, d2), b \notin DataBlocks \/ Unreferenced(L, d, d, t, b)
    PROVE  AllKept(L, d, t, d2)
BY PutUntouched, UntouchedKept DEF AllKept

\* Only the words of the files can have changed.
LEMMA FilesSame ==
    ASSUME NEW L, L \subseteq Inums,
           NEW d, NEW t, NEW d2, NEW rep, FilesOK(L, d, t, rep), WordsOK(L, d2, d[INODES], t, rep),
           d2[INODES] = d[INODES]
    PROVE  FilesOK(L, d2, t, rep)
BY DEF FilesOK, WordsOK, NodeOK, HeldOK

LEMMA EmptyHolds ==
    ASSUME NEW d, NEW f, NEW words
    PROVE  Holds(d, f, 0, words)
<1>1. \A w \in 0 .. 0 - 1 : FALSE
  OBVIOUS
<1>2. QED
  BY <1>1 DEF Holds

LEMMA EmptyOK ==
    ASSUME NEW d, NEW node, NEW file, node.size = 0, file.size = 0
    PROVE  NodeOK(d, node, file)
BY EmptyHolds DEF NodeOK

LEMMA HoldsLess ==
    ASSUME NEW d, NEW f, NEW words, NEW z \in Nat, NEW y \in Nat, y <= z, Holds(d, f, z, words)
    PROVE  Holds(d, f, y, words)
<1>1. \A w \in 0 .. y - 1 : w \in 0 .. z - 1
  OBVIOUS
<1>2. QED
  BY <1>1 DEF Holds

LEMMA MoreSame == \A f : More(f, f)
BY DEF More

\* While no call of write_data() runs.
LEMMA NoWrite ==
    ASSUME pc' \notin WriteSteps
    PROVE  WriteInv'
BY DEF WriteInv, WriteSteps

LEMMA MountDur ==
    ASSUME NEW L, L \subseteq Inums, Reliable, DurInv(L), mount \/ reload
    PROVE  DurInv(L)'
<1>1. UNCHANGED <<disk, view, inode_table, op, reported>>
  BY DEF mount, reload, storeVars, inodeVars
<1>2. pc' \in {"idle", "format_zero", "failed"} /\ (pc' = "format_zero" => ~view[SUPER])
      /\ (pc' = "idle" => view[SUPER])
  BY DEF mount, reload, Reliable
<1>3. WriteInv'
  BY <1>2, NoWrite DEF WriteSteps
<1>4. FreshInv'
  BY <1>1, <1>2 DEF DurInv, FreshInv, FormatSteps, RootSteps, WriteSteps, CleanSteps, NoFiles
<1>5. QED
  BY <1>1, <1>3, <1>4 DEF DurInv

LEMMA CrashDur ==
    ASSUME NEW L, L \subseteq Inums, DurInv(L), crash
    PROVE  DurInv(L)'
<1>1. view' = disk /\ pc' = "mount" /\ UNCHANGED <<disk, reported>>
  BY DEF crash
<1>2. \A s \in Slots : inode_table'[s].refcnt = 0
  BY DEF crash, EmptySlot
<1>3. FilesOK(L, disk, inode_table', reported)
  BY <1>2 DEF DurInv, FilesOK
<1>4. WriteInv'
  BY <1>1, NoWrite DEF WriteSteps
<1>5. FreshInv'
  BY <1>1 DEF DurInv, FreshInv, FormatSteps, RootSteps, WriteSteps, CleanSteps, NoFiles
<1>6. QED
  BY <1>1, <1>3, <1>4, <1>5 DEF DurInv

\* Fewer files are looked at.
LEMMA FilesNarrower ==
    ASSUME NEW L, NEW M, M \subseteq L, NEW d, NEW t, NEW rep, FilesOK(L, d, t, rep)
    PROVE  FilesOK(M, d, t, rep)
BY DEF FilesOK

LEMMA ReleaseDur ==
    ASSUME NEW L, NEW M, L = Live, M = Live', DurInv(L), pc = "idle", NEW n, NEW node, NEW table,
           release(n, node, table)
    PROVE  DurInv(M)'
<1>1. /\ pc' \in CleanSteps /\ released' = released \cup {n}
      /\ UNCHANGED <<disk, view, inode_table, op, reported>>
  BY DEF release, CleanSteps, storeVars, inodeVars
<1>2. M \subseteq L
  BY <1>1 DEF Live
<1>3. FilesOK(M, disk, inode_table, reported)
  BY <1>2, FilesNarrower DEF DurInv
<1>4. WriteInv'
  BY <1>1, NoWrite DEF WriteSteps, CleanSteps
<1>5. FreshInv'
  BY <1>1 DEF DurInv, FreshInv, FormatSteps, RootSteps, WriteSteps, CleanSteps, NoFiles
<1>6. QED
  BY <1>1, <1>3, <1>4, <1>5 DEF DurInv

LEMMA FreeNextDur ==
    ASSUME NEW L, L = Live, Reliable, FsInv, DurInv(L), free_next
    PROVE  DurInv(L)'
<1>1. /\ pc = "free" /\ pc \in CleanSteps /\ pc' \in CleanSteps
      /\ UNCHANGED <<inode_table, ref, op, reported>>
  BY DEF free_next, inodeVars, CleanSteps
<1>2. PICK d, t, rep, d2 : d = disk /\ t = inode_table /\ rep = reported /\ d2 = disk'
  OBVIOUS
<1>3. CleanInv /\ L \subseteq Inums
  BY <1>1 DEF FsInv, Live
<1>4. /\ Stores(d, d, t) /\ Once(L, d, d, t) /\ rep \in ReportType
      /\ FilesOK(L, d, t, rep) /\ view = disk
  BY <1>2, <1>3, TypeParts DEF CleanInv, DurInv, Stores
<1>5. PICK b, x : free_block(b) /\ x = view[BITMAP] \ {b}
  BY DEF free_next
<1>6. BlockOK(BITMAP, x)
  BY <1>2, <1>4, <1>5, LayoutFacts DEF BlockOK, Stores, StoreOK
<1>7. PICK o \in Outcomes("run") : put(BITMAP, x, o)
  BY <1>5 DEF free_block
<1>8. view' = disk' /\ MaybePut(d, BITMAP, x, d2)
  BY <1>2, <1>4, <1>7, PutBoth DEF MaybePut
<1>9. AllKept(L, d, t, d2)
  BY <1>3, <1>4, <1>6, <1>8, PutKept, LayoutFacts
<1>10. d2[INODES] = d[INODES] /\ d2[SUPER] = d[SUPER]
  BY <1>4, <1>6, <1>8, PutStore, LayoutFacts DEF Stores
<1>11. WordsOK(L, d2, d[INODES], t, rep)
  BY <1>3, <1>4, <1>9, WordsKept
<1>12. FilesOK(L, d2, t, rep)
  BY <1>3, <1>4, <1>10, <1>11, FilesSame
<1>13. WriteInv'
  BY <1>1, NoWrite DEF WriteSteps, CleanSteps
<1>14. FreshInv'
  BY <1>1, <1>2, <1>10 DEF DurInv, FreshInv, FormatSteps, RootSteps, WriteSteps, CleanSteps, NoFiles
<1>15. QED
  BY <1>1, <1>2, <1>8, <1>12, <1>13, <1>14 DEF DurInv

\* Two functions of inode numbers differ at n only.
AtMost(f, g, n) == \A m \in Inums : m # n => g[m] = f[m]

\* The files of the live inodes other than n.
OthersOK(L, d, t, rep, n) ==
    /\ \A m \in L : m # n => NodeOK(d, d[INODES][m], rep[m])
    /\ \A s \in Slots : t[s].refcnt > 0 /\ t[s].number \in L /\ t[s].number # n =>
          HeldOK(d, d[INODES][t[s].number], t[s].disk, rep[t[s].number])

\* One inode of the block of inodes changes, and the file of that inode is none of the others.
LEMMA OthersKept ==
    ASSUME NEW L, L \subseteq Inums, NEW d, NEW t, NEW d2, NEW rep \in ReportType, NEW x, NEW n,
           Stores(d, d, t), Once(L, d, d, t), FilesOK(L, d, t, rep), BlockOK(INODES, x),
           d2 = [d EXCEPT ![INODES] = x], NEW nodes, nodes = d[INODES], AtMost(nodes, x, n),
           NEW rep2, AtMost(rep, rep2, n)
    PROVE  OthersOK(L, d2, t, rep2, n)
<1>1. MaybePut(d, INODES, x, d2)
  BY DEF MaybePut
<1>2. AllKept(L, d, t, d2)
  BY <1>1, PutKept, LayoutFacts
<1>3. WordsOK(L, d2, d[INODES], t, rep)
  BY <1>2, WordsKept
<1>4. d2[INODES] = x
  BY LayoutFacts DEF Stores, StoreOK
<1>5. ASSUME NEW m \in L, m # n
      PROVE  NodeOK(d2, d2[INODES][m], rep2[m])
  <2>1. x[m] = d[INODES][m] /\ rep2[m] = rep[m]
    BY <1>5 DEF AtMost
  <2>2. QED
    BY <1>3, <1>4, <2>1 DEF FilesOK, WordsOK, NodeOK
<1>6. ASSUME NEW s \in Slots, t[s].refcnt > 0, t[s].number \in L, t[s].number # n
      PROVE  HeldOK(d2, d2[INODES][t[s].number], t[s].disk, rep2[t[s].number])
  <2>1. PICK m : m = t[s].number
    OBVIOUS
  <2>2. x[m] = d[INODES][m] /\ rep2[m] = rep[m]
    BY <1>6, <2>1 DEF AtMost
  <2>3. HeldOK(d, d[INODES][m], t[s].disk, rep[m]) /\ Holds(d2, t[s].disk.addrs, t[s].disk.size, rep[m].words)
    BY <1>3, <1>6, <2>1 DEF FilesOK, WordsOK
  <2>4. QED
    BY <1>4, <2>1, <2>2, <2>3 DEF HeldOK
<1>7. QED
  BY <1>5, <1>6 DEF OthersOK

LEMMA ClearInodeDur ==
    ASSUME NEW L, NEW M, L = Live, M = Live', Reliable, FsInv, DurInv(L), clear_inode
    PROVE  DurInv(M)'
<1>1. pc = "clear" /\ pc \in CleanSteps /\ pc' = "idle" /\ op' = op
  BY DEF clear_inode, CleanSteps
<1>2. PICK d, t, rep, d2, t2, rep2, n :
        /\ d = disk /\ t = inode_table /\ rep = reported /\ n = cleanup.number
        /\ d2 = disk' /\ t2 = inode_table' /\ rep2 = reported'
  OBVIOUS
<1>3. TypeOK /\ CleanInv /\ L \subseteq Inums
  BY <1>1 DEF FsInv, Live
<1>4. /\ Stores(d, d, t) /\ Once(L, d, d, t) /\ rep \in ReportType /\ n \in Inums
      /\ FilesOK(L, d, t, rep) /\ view = disk /\ n \notin L
  BY <1>2, <1>3, TypeParts, TypeIs DEF CleanInv, DurInv, Stores, Live
<1>5. PICK x : x = [view[INODES] EXCEPT ![n] = NoInode]
  OBVIOUS
<1>6. PICK o \in Outcomes("run") :
        /\ put(INODES, x, o)
        /\ released' = IF o = "written" THEN released \ {n} ELSE released
        /\ rep2 = IF o = "written" THEN [rep EXCEPT ![n] = NoFile] ELSE rep
  BY <1>2, <1>5 DEF clear_inode
<1>7. t2 = [s \in Slots |-> IF s \in Held(n) THEN [t[s] EXCEPT !.refcnt = 0] ELSE t[s]]
  BY <1>2 DEF clear_inode
<1>8. \A s \in Slots : t2[s].refcnt > 0 =>
          t2[s] = t[s] /\ t[s].refcnt > 0 /\ t[s].number # n
  BY <1>2, <1>4, <1>7 DEF Held, Stores, TableType
<1>9. /\ view' = disk'
      /\ \/ o = "written" /\ d2 = [d EXCEPT ![INODES] = x]
         \/ o # "written" /\ d2 = d
  BY <1>2, <1>4, <1>6, PutBoth
<1>10. WriteInv'
  BY <1>1, NoWrite DEF WriteSteps
<1>11. CASE o # "written"
  <2>1. M = L /\ d2 = d /\ rep2 = rep
    BY <1>6, <1>9, <1>11 DEF Live
  <2>2. FilesOK(M, d2, t2, rep2)
    BY <1>4, <1>8, <2>1 DEF FilesOK
  <2>3. FreshInv'
    BY <1>1, <1>2, <2>1 DEF DurInv, FreshInv, FormatSteps, RootSteps, WriteSteps, CleanSteps, NoFiles
  <2>4. QED
    BY <1>2, <1>9, <1>10, <2>2, <2>3 DEF DurInv
<1>12. CASE o = "written"
  <2>1. M = L \cup {n}
    BY <1>4, <1>6, <1>12 DEF Live
  <2>2. /\ x \in [Inums -> InodeType] /\ x[n] = NoInode
        /\ \A m \in Inums : m # n => x[m] = d[INODES][m]
    BY <1>2, <1>4, <1>5, NoInodeFacts DEF Stores, StoreOK
  <2>3. BlockOK(INODES, x)
    BY <2>2, LayoutFacts DEF BlockOK
  <2>4. d2 = [d EXCEPT ![INODES] = x]
    BY <1>9, <1>12
  <2>5. rep2[n] = NoFile /\ \A m \in Inums : m # n => rep2[m] = rep[m]
    BY <1>4, <1>6, <1>12 DEF ReportType
  <2>6. OthersOK(L, d2, t, rep2, n)
    <3>1. PICK nodes : nodes = d[INODES]
      OBVIOUS
    <3>2. AtMost(nodes, x, n) /\ AtMost(rep, rep2, n)
      BY <2>2, <2>5, <3>1 DEF AtMost
    <3>3. QED
      BY <1>3, <1>4, <2>3, <2>4, <3>1, <3>2, OthersKept
  <2>7. d2[INODES] = x /\ d2[SUPER] = d[SUPER]
    BY <1>4, <2>4, LayoutFacts DEF Stores, StoreOK
  <2>8. NodeOK(d2, d2[INODES][n], rep2[n])
    BY <2>2, <2>5, <2>7, EmptyOK DEF NoFile, NoInode
  <2>9. FilesOK(M, d2, t2, rep2)
    BY <1>8, <2>1, <2>6, <2>8 DEF FilesOK, OthersOK
  <2>10. FreshInv'
    BY <1>1, <1>2, <2>7 DEF DurInv, FreshInv, FormatSteps, RootSteps, WriteSteps, CleanSteps
  <2>11. QED
    BY <1>2, <1>9, <1>10, <2>9, <2>10 DEF DurInv
<1>13. QED
  BY <1>11, <1>12

\* Slots in use are as they were, or hold the inode n as it is on the device.
LEMMA KeepsFiles ==
    ASSUME NEW L, L \subseteq Inums,
           NEW d, NEW t, NEW t2, NEW rep, NEW n, NEW node, FilesOK(L, d, t, rep), Keeps(t, t2, n, node),
           HeldOK(d, d[INODES][n], node, rep[n])
    PROVE  FilesOK(L, d, t2, rep)
<1>1. ASSUME NEW s \in Slots, t2[s].refcnt > 0, t2[s].number \in L
      PROVE  HeldOK(d, d[INODES][t2[s].number], t2[s].disk, rep[t2[s].number])
  <2>1. CASE t[s].refcnt > 0 /\ t2[s].number = t[s].number /\ t2[s].disk = t[s].disk
    BY <1>1, <2>1 DEF FilesOK
  <2>2. CASE t2[s].number = n /\ t2[s].disk = node
    BY <2>2
  <2>3. QED
    BY <1>1, <2>1, <2>2 DEF Keeps
<1>2. QED
  BY <1>1 DEF FilesOK

LEMMA GetInodeDur ==
    ASSUME NEW L, L \subseteq Inums,
           CoreInv(L), DurInv(L), NEW r \in Refs, NEW n \in L, get_inode(r, n)
    PROVE  DurInv(L)'
<1>1. /\ pc = "idle" /\ ref[r] = NoSlot /\ obtain(r, n, view[INODES], "run" \in FailingReads)
      /\ UNCHANGED <<disk, view, pc, op, reported>> /\ view[INODES][n].type # "kUnused"
  BY DEF get_inode, storeVars
<1>2. PICK d, t, t2, rep, node : /\ d = disk /\ t = inode_table /\ t2 = inode_table'
                                 /\ rep = reported /\ node = view[INODES][n]
  OBVIOUS
<1>3. /\ CoreType /\ SlotInv(L) /\ view[INODES] \in [Inums -> InodeType] /\ FilesOK(L, d, t, rep)
      /\ view = disk
  BY <1>2, TypeParts DEF CoreInv, Stores, StoreOK, DurInv
<1>4. Keeps(t, t2, n, node)
  BY <1>1, <1>2, <1>3, Obtained
<1>5. HeldOK(d, d[INODES][n], node, rep[n])
  <2>1. node = d[INODES][n] /\ node.type # "kUnused"
    BY <1>1, <1>2, <1>3
  <2>2. NodeOK(d, node, rep[n])
    BY <1>3, <2>1 DEF FilesOK
  <2>3. QED
    BY <2>1, <2>2, MoreSame DEF HeldOK, NodeOK
<1>6. FilesOK(L, d, t2, rep)
  BY <1>3, <1>4, <1>5, KeepsFiles
<1>7. WriteInv'
  BY <1>1, NoWrite DEF WriteSteps
<1>8. FreshInv'
  BY <1>1 DEF DurInv, FreshInv, FormatSteps, RootSteps, WriteSteps, CleanSteps, NoFiles
<1>9. QED
  BY <1>1, <1>2, <1>3, <1>6, <1>7, <1>8 DEF DurInv

LEMMA AllocateInodeDur ==
    ASSUME NEW L, NEW M, L = Live, M = Live', Reliable, CoreInv(L), DurInv(L), NEW r \in Refs,
           allocate_inode(r)
    PROVE  DurInv(M)'
<1>1. /\ pc = "idle" /\ ref[r] = NoSlot /\ UnusedInums # {} /\ UNCHANGED <<pc, op>>
  BY DEF allocate_inode
<1>2. PICK n : n = FirstUnused
  OBVIOUS
<1>3. n \in Inums /\ view[INODES][n].type = "kUnused"
  <2>1. UnusedInums \subseteq Nat
    BY Naturals DEF UnusedInums, Inums
  <2>2. n \in UnusedInums
    BY <1>1, <1>2, <2>1, FirstIsIn DEF FirstUnused
  <2>3. QED
    BY <2>2 DEF UnusedInums
<1>4. PICK node : node = [NoInode EXCEPT !.type = "kFile"]
  OBVIOUS
<1>5. /\ node \in InodeType /\ node.addrs = NoInode.addrs /\ node.size = 0 /\ node.type # "kUnused"
      /\ \A a \in 0 .. NDIRECT : node.addrs[a] = 0
  BY <1>4, NoInodeFacts DEF NoInode
<1>6. PICK x : x = [view[INODES] EXCEPT ![n] = node]
  OBVIOUS
<1>7. PICK o \in Outcomes("run") :
        /\ put(INODES, x, o)
        /\ IF o = "written" THEN obtain(r, n, x, "run" \in FailingReads) ELSE UNCHANGED inodeVars
        /\ released' = IF o = "written" THEN released \ {n} ELSE released
        /\ reported' = IF o = "written" THEN [reported EXCEPT ![n] = NoFile] ELSE reported
  BY <1>2, <1>4, <1>6 DEF allocate_inode
<1>8. PICK d, t, rep, d2, t2, rep2 :
        /\ d = disk /\ t = inode_table /\ rep = reported
        /\ d2 = disk' /\ t2 = inode_table' /\ rep2 = reported'
  OBVIOUS
<1>9. /\ CoreType /\ SlotInv(L) /\ Stores(d, d, t) /\ Once(L, d, d, t) /\ rep \in ReportType /\ Numbered(L, t)
      /\ FilesOK(L, d, t, rep) /\ view = disk /\ L \subseteq Inums
  BY <1>8, TypeParts DEF CoreInv, DurInv, SlotInv, Numbered, Stores, Live
<1>10. WriteInv'
  BY <1>1, NoWrite DEF WriteSteps
<1>11. /\ view' = disk'
       /\ \/ o = "written" /\ d2 = [d EXCEPT ![INODES] = x]
          \/ o # "written" /\ d2 = d
  BY <1>7, <1>8, <1>9, PutBoth
<1>12. CASE o # "written"
  <2>1. UNCHANGED <<inode_table, disk, reported>> /\ M = L
    BY <1>7, <1>8, <1>11, <1>12 DEF inodeVars, Live
  <2>2. QED
    BY <1>1, <1>10, <1>11, <2>1
       DEF DurInv, FreshInv, FormatSteps, RootSteps, WriteSteps, CleanSteps, NoFiles
<1>13. CASE o = "written"
  <2>1. /\ x \in [Inums -> InodeType] /\ x[n] = node
        /\ \A m \in Inums : m # n => x[m] = d[INODES][m]
    BY <1>3, <1>5, <1>6, <1>8, <1>9 DEF Stores, StoreOK
  <2>2. BlockOK(INODES, x) /\ d2 = [d EXCEPT ![INODES] = x] /\ M = L \cup {n} /\ M \subseteq Inums
    BY <1>3, <1>7, <1>9, <1>11, <1>13, <2>1, LayoutFacts DEF BlockOK, Live
  <2>3. d2[INODES] = x /\ d2[SUPER] = d[SUPER]
    BY <1>9, <2>2, LayoutFacts DEF Stores, StoreOK
  <2>4. rep2[n] = NoFile /\ \A m \in Inums : m # n => rep2[m] = rep[m]
    BY <1>3, <1>7, <1>8, <1>9, <1>13 DEF ReportType
  <2>5. OthersOK(L, d2, t, rep2, n)
    <3>1. PICK nodes : nodes = d[INODES]
      OBVIOUS
    <3>2. AtMost(nodes, x, n) /\ AtMost(rep, rep2, n)
      BY <2>1, <2>4, <3>1 DEF AtMost
    <3>3. QED
      BY <1>9, <2>2, <3>1, <3>2, OthersKept
  <2>6. NodeOK(d2, d2[INODES][n], rep2[n])
    BY <1>5, <2>1, <2>3, <2>4, EmptyOK DEF NoFile
  <2>7. SlotInv(M)
    BY <1>9, <2>2 DEF SlotInv
  <2>8. Keeps(t, t2, n, node)
    BY <1>1, <1>7, <1>8, <1>9, <1>13, <2>1, <2>2, <2>7, Obtained
  <2>9. ASSUME NEW s \in Slots, t[s].refcnt > 0
        PROVE  t[s].number \in L /\ t[s].number # n
    <3>1. t[s].number \in L
      BY <1>8, <1>9, <2>9 DEF SlotInv
    <3>2. t[s].number # n
      BY <1>3, <1>8, <1>9, <2>9, <3>1 DEF FilesOK, HeldOK
    <3>3. QED
      BY <3>1, <3>2
  <2>10. HeldOK(d2, d2[INODES][n], node, rep2[n])
    BY <1>5, <2>1, <2>3, MoreSame, EmptyHolds DEF HeldOK
  <2>11. FilesOK(M, d2, t, rep2)
    BY <2>2, <2>5, <2>6, <2>9 DEF FilesOK, OthersOK
  <2>12. FilesOK(M, d2, t2, rep2)
    BY <2>2, <2>8, <2>10, <2>11, KeepsFiles
  <2>13. FreshInv'
    BY <1>1, <1>8, <2>3 DEF DurInv, FreshInv, FormatSteps, RootSteps, WriteSteps, CleanSteps
  <2>14. QED
    BY <1>8, <1>10, <1>11, <2>12, <2>13 DEF DurInv
<1>14. QED
  BY <1>12, <1>13

LEMMA PutInodeDur ==
    ASSUME NEW L, L \subseteq Inums, CoreInv(L), DurInv(L), NEW r \in Refs, put_inode(r)
    PROVE  DurInv(L)'
<1>1. /\ pc = "idle" /\ ref[r] # NoSlot /\ UNCHANGED <<disk, view, pc, op, reported>>
      /\ inode_table' = [inode_table EXCEPT ![ref[r]].refcnt = IF @ > 0 THEN @ - 1 ELSE @]
  BY DEF put_inode, storeVars
<1>2. PICK c, t, t2 : c = ref[r] /\ t = inode_table /\ t2 = inode_table'
  OBVIOUS
<1>3. t \in TableType /\ c \in Slots
  BY <1>1, <1>2, TypeParts DEF CoreInv, Stores, RefType
<1>4. t2 = [t EXCEPT ![c].refcnt = IF @ > 0 THEN @ - 1 ELSE @]
  BY <1>1, <1>2
<1>5. \A s \in Slots : t2[s].refcnt > 0 =>
          t[s].refcnt > 0 /\ t2[s].number = t[s].number /\ t2[s].disk = t[s].disk
  BY <1>3, <1>4 DEF TableType
<1>6. FilesOK(L, disk, t2, reported)
  BY <1>2, <1>5 DEF DurInv, FilesOK
<1>7. WriteInv'
  BY <1>1, NoWrite DEF WriteSteps
<1>8. FreshInv'
  BY <1>1 DEF DurInv, FreshInv, FormatSteps, RootSteps, WriteSteps, CleanSteps, NoFiles
<1>9. QED
  BY <1>1, <1>2, <1>6, <1>7, <1>8 DEF DurInv

LEMMA WriteDataDur ==
    ASSUME NEW L, L \subseteq Inums,
           CoreInv(L), DurInv(L), NEW r \in Refs, NEW offset \in 0 .. MaxBytes, NEW count \in Counts,
           NEW value \in Values, write_data(r, offset, count, value)
    PROVE  DurInv(L)'
<1>1. /\ pc = "idle" /\ ref[r] # NoSlot /\ offset <= inode_table[ref[r]].disk.size
      /\ op' = [NoOp EXCEPT !.slot = ref[r], !.offset = offset, !.count = count, !.value = value]
      /\ pc' = (IF count = 0 THEN "update" ELSE "map")
      /\ UNCHANGED <<disk, view, inode_table, ref, reported>>
  BY DEF write_data, storeVars, inodeVars
<1>2. PICK S, t : S = ref[r] /\ t = inode_table
  OBVIOUS
<1>3. CoreType /\ SlotInv(L) /\ ref \in RefType /\ S \in Slots /\ t \in TableType
  BY <1>1, <1>2, TypeParts DEF CoreInv, RefType, Stores
<1>4. t[S].refcnt > 0
  <2>1. PICK rf \in RefType : rf = ref
    BY <1>3
  <2>2. rf[r] = S => Count(rf, S) > 0
    BY <1>3, CountDown
  <2>3. QED
    BY <1>2, <1>3, <2>1, <2>2, SlotFacts
<1>5. pc' = "map"
  BY <1>1, Naturals
<1>6. op'.slot = S /\ op'.offset = offset /\ op'.done = 0
  BY <1>1, <1>2 DEF NoOp
<1>7. pos' = offset /\ inode' = t[S].disk
  BY <1>1, <1>2, <1>6, NoInodeFacts DEF pos, inode
<1>8. PICK f, z, words : f = t[S].disk.addrs /\ z = t[S].disk.size /\ words = reported[t[S].number].words
  OBVIOUS
<1>9. Holds(disk, f, z, words)
  <2>1. t[S].number \in L
    BY <1>2, <1>3, <1>4 DEF SlotInv
  <2>2. QED
    BY <1>2, <1>3, <1>4, <1>8, <2>1 DEF DurInv, FilesOK, HeldOK
<1>10. z \in Nat /\ offset \in Nat /\ offset <= z
  BY <1>1, <1>2, <1>3, <1>8, NoInodeFacts DEF TableType, InodeType
<1>11. Holds(disk, f, offset, words)
  BY <1>9, <1>10, HoldsLess
<1>12. WriteInv'
  BY <1>1, <1>2, <1>5, <1>6, <1>7, <1>8, <1>11 DEF WriteInv
<1>13. FreshInv'
  BY <1>1, <1>5 DEF DurInv, FreshInv, FormatSteps, RootSteps, WriteSteps, CleanSteps, NoFiles
<1>14. QED
  BY <1>1, <1>12, <1>13 DEF DurInv

\* A step of format(), which the device never refuses.
LEMMA FormatPut ==
    ASSUME Reliable, view = disk, NEW at, NEW b, NEW x, NEW next, format_step(at, b, x, next)
    PROVE  /\ pc = at /\ pc' = next /\ disk' = [disk EXCEPT ![b] = x] /\ view' = disk'
           /\ UNCHANGED <<inode_table, ref>>
<1>1. PICK o \in Outcomes("mount") : put(b, x, o) /\ pc' = IF o = "written" THEN next ELSE "failed"
  BY DEF format_step
<1>2. QED
  BY <1>1, PutBoth DEF format_step, inodeVars

\* The block that gets the magic.
Magic(b, x) == b = SUPER /\ x = TRUE

\* Until the inode of the root directory is written there are no files.
LEMMA FormatDur ==
    ASSUME NEW L, L \subseteq Inums,
           Reliable, CoreInv(L), DurInv(L), NEW at \in FormatSteps \ {"reload", "failed"}, NEW b, NEW x,
           NEW next \in FormatSteps \ {"failed"}, format_step(at, b, x, next), BlockOK(b, x),
           b = INODES => x = [n \in Inums |-> NoInode],
           reported' = reported,
           next \in RootSteps => Magic(b, x) \/ (at \in RootSteps /\ b # SUPER),
           next = "root_dotdot" => b = op.block /\ op' = op /\ x[0] = ROOT_INODE,
           next = "root_inode" => /\ b = op.block /\ op' = op /\ x[0] = ROOT_INODE
                                  /\ x[1] = ROOT_INODE
    PROVE  DurInv(L)'
<1>1. view = disk /\ FilesOK(L, disk, inode_table, reported) /\ FreshInv /\ CoreType /\ SlotInv(L)
  BY DEF DurInv, CoreInv
<1>2. /\ pc = at /\ pc' = next /\ disk' = [disk EXCEPT ![b] = x] /\ view' = disk'
      /\ UNCHANGED <<inode_table, ref>>
  BY <1>1, FormatPut
<1>3. NoFiles
  BY <1>1, <1>2 DEF FreshInv
<1>4. PICK d, d2 : d = disk /\ d2 = disk'
  OBVIOUS
<1>5. \A c \in Blocks : c # b => d2[c] = d[c]
  BY <1>1, <1>2, <1>4, TypeParts, PutStore DEF MaybePut, Stores
<1>6. d2[b] = x
  <2>1. d2 = [d EXCEPT ![b] = x] /\ StoreOK(d)
    BY <1>1, <1>2, <1>4, TypeParts DEF Stores
  <2>2. b \in DOMAIN d
    BY <2>1 DEF StoreOK, BlockOK
  <2>3. QED
    BY <2>1, <2>2
<1>7. \A n \in L : d2[INODES][n].size = 0
  <2>1. CASE b = INODES
    BY <1>6, <2>1 DEF NoInode
  <2>2. CASE b # INODES
    BY <1>1, <1>3, <1>4, <1>5, <2>2, LayoutFacts DEF FilesOK, NodeOK, NoFiles
  <2>3. QED
    BY <2>1, <2>2
<1>8. \A n \in L : NodeOK(d2, d2[INODES][n], reported[n])
  BY <1>3, <1>7, EmptyOK DEF NoFiles
<1>9. \A s \in Slots : inode_table[s].refcnt = 0
  <2>1. \A r \in Refs : ref[r] = NoSlot
    BY <1>1, <1>2 DEF SlotInv
  <2>2. QED
    BY <1>1, <2>1, NobodyHolds
<1>10. FilesOK(L, d2, inode_table, reported)
  BY <1>8, <1>9 DEF FilesOK
<1>11. WriteInv'
  BY <1>2, NoWrite DEF WriteSteps, FormatSteps
<1>12. FreshInv'
  <2>1. next \in RootSteps => d2[SUPER]
    <3>1. CASE Magic(b, x)
      BY <1>6, <3>1 DEF Magic
    <3>2. CASE at \in RootSteps /\ b # SUPER
      BY <1>1, <1>2, <1>4, <1>5, <3>2, LayoutFacts DEF FreshInv
    <3>3. QED
      BY <3>1, <3>2
  <2>2. QED
    BY <1>2, <1>3, <1>4, <1>6, <2>1 DEF FreshInv, NoFiles, FormatSteps, WriteSteps, CleanSteps
<1>13. QED
  BY <1>2, <1>4, <1>10, <1>11, <1>12 DEF DurInv

LEMMA FormatZeroDur ==
    ASSUME NEW L, L \subseteq Inums, Reliable, CoreInv(L), DurInv(L), format_zero
    PROVE  DurInv(L)'
<1>1. PICK b, x : b = i /\ x = Blank[i]
  OBVIOUS
<1>2. /\ pc = "format_zero" /\ UNCHANGED <<op, reported>>
      /\ format_step("format_zero", b, x, IF i = BITMAP THEN "format_mark" ELSE "format_zero")
  BY <1>1 DEF format_zero, format_step
<1>3. b \in {INODES, BITMAP}
  BY <1>1, <1>2 DEF CoreInv, FormatInv
<1>4. b = INODES => x = [n \in Inums |-> NoInode]
  BY <1>1, LayoutFacts DEF Blank
<1>5. b = BITMAP => x = {}
  BY <1>1, LayoutFacts DEF Blank
<1>6. BlockOK(b, x)
  BY <1>3, <1>4, <1>5, LayoutFacts, NoInodeFacts DEF BlockOK
<1>7. CASE i = BITMAP
  BY <1>2, <1>4, <1>6, <1>7, FormatDur DEF FormatSteps, RootSteps
<1>8. CASE i # BITMAP
  BY <1>2, <1>4, <1>6, <1>8, FormatDur DEF FormatSteps, RootSteps
<1>9. QED
  BY <1>7, <1>8

LEMMA BitmapOK ==
    ASSUME CoreType, NEW b \in BlockNumbers
    PROVE  BlockOK(BITMAP, view[BITMAP] \cup {b})
BY TypeParts, LayoutFacts DEF BlockOK, Stores, StoreOK

LEMMA FormatMarkDur ==
    ASSUME NEW L, L \subseteq Inums, Reliable, CoreInv(L), DurInv(L), format_mark
    PROVE  DurInv(L)'
<1>1. PICK x, next : /\ x = view[BITMAP] \cup {i}
                     /\ next = (IF i = DATA_START - 1 THEN "format_super" ELSE "format_mark")
  OBVIOUS
<1>2. /\ pc = "format_mark" /\ UNCHANGED <<op, reported>> /\ format_step("format_mark", BITMAP, x, next)
  BY <1>1 DEF format_mark, format_step
<1>3. i \in BlockNumbers
  BY <1>2, LayoutFacts DEF CoreInv, FormatInv
<1>4. BlockOK(BITMAP, x)
  BY <1>1, <1>3, BitmapOK DEF CoreInv
<1>5. next \in {"format_super", "format_mark"}
  BY <1>1
<1>6. QED
  BY <1>2, <1>4, <1>5, FormatDur, LayoutFacts DEF FormatSteps, RootSteps

LEMMA FormatSuperDur ==
    ASSUME NEW L, L \subseteq Inums, Reliable, CoreInv(L), DurInv(L), format_super
    PROVE  DurInv(L)'
<1>1. PICK b, x, at, next : b = SUPER /\ x = TRUE /\ at = "format_super" /\ next = "root_alloc"
  OBVIOUS
<1>2. format_step(at, b, x, next) /\ reported' = reported
  BY <1>1 DEF format_super
<1>3. BlockOK(b, x) /\ Magic(b, x) /\ b # INODES
  BY <1>1, LayoutFacts DEF BlockOK, Magic
<1>4. /\ at \in FormatSteps \ {"reload", "failed"} /\ next \in FormatSteps \ {"failed"}
      /\ next # "root_dotdot" /\ next # "root_inode"
  BY <1>1 DEF FormatSteps
<1>5. QED
  BY <1>2, <1>3, <1>4, FormatDur

LEMMA RootAllocDur ==
    ASSUME NEW L, L \subseteq Inums, Reliable, CoreInv(L), DurInv(L), root_alloc
    PROVE  DurInv(L)'
<1>1. PICK x : x = view[BITMAP] \cup {FirstFree}
  OBVIOUS
<1>2. /\ pc = "root_alloc" /\ format_step("root_alloc", BITMAP, x, "root_zero") /\ reported' = reported
  BY <1>1 DEF root_alloc, format_step
<1>3. FirstFree \in BlockNumbers
  <2>1. 4 \in FreeBlocks
    BY <1>2, Naturals DEF CoreInv, FormatInv, FreeBlocks, Layout, DATA_START
  <2>2. FreeBlocks \subseteq Nat
    BY Naturals DEF FreeBlocks
  <2>3. FirstFree \in FreeBlocks
    BY <2>1, <2>2, FirstIsIn DEF FirstFree
  <2>4. QED
    BY <2>3 DEF FreeBlocks, BlockNumbers
<1>4. BlockOK(BITMAP, x)
  BY <1>1, <1>3, BitmapOK DEF CoreInv
<1>5. QED
  BY <1>2, <1>4, FormatDur, LayoutFacts DEF FormatSteps, RootSteps

LEMMA RootBlock ==
    ASSUME NEW L, L \subseteq Inums,
           CoreInv(L), pc \in {"root_zero", "root_dot", "root_dotdot", "root_inode"}
    PROVE  /\ op.block \in DataBlocks /\ op.block # INODES /\ op.block # 0 /\ op.block # SUPER
           /\ view[op.block] \in [Words -> Nat] /\ 0 \in Words /\ 1 \in Words
<1>1. op.block \in DataBlocks
  BY DEF CoreInv, FormatInv, Used
<1>2. 0 \in Words /\ 1 \in Words
  BY Naturals DEF Words
<1>3. QED
  BY <1>1, <1>2, TypeParts, LayoutFacts DEF CoreInv, Stores, StoreOK

LEMMA RootZeroDur ==
    ASSUME NEW L, L \subseteq Inums, Reliable, CoreInv(L), DurInv(L), root_zero
    PROVE  DurInv(L)'
<1>1. format_step("root_zero", op.block, Zero, "root_dot") /\ UNCHANGED <<op, reported>>
      /\ pc = "root_zero"
  BY DEF root_zero, format_step
<1>2. BlockOK(op.block, Zero) /\ op.block # INODES /\ op.block # SUPER
  BY <1>1, RootBlock, LayoutFacts DEF BlockOK, Zero
<1>3. QED
  BY <1>1, <1>2, FormatDur DEF FormatSteps, RootSteps

LEMMA RootDotDur ==
    ASSUME NEW L, L \subseteq Inums, Reliable, CoreInv(L), DurInv(L), root_dot
    PROVE  DurInv(L)'
<1>1. PICK x : x = [view[op.block] EXCEPT ![0] = ROOT_INODE]
  OBVIOUS
<1>2. format_step("root_dot", op.block, x, "root_dotdot") /\ UNCHANGED <<op, reported>> /\ pc = "root_dot"
  BY <1>1 DEF root_dot, format_step
<1>3. x \in [Words -> Nat] /\ x[0] = ROOT_INODE /\ op.block # INODES /\ op.block # SUPER /\ op.block \in DataBlocks
  BY <1>1, <1>2, RootBlock DEF ROOT_INODE
<1>4. BlockOK(op.block, x)
  BY <1>3, LayoutFacts DEF BlockOK
<1>5. QED
  BY <1>2, <1>3, <1>4, FormatDur DEF FormatSteps, RootSteps

LEMMA RootDotDotDur ==
    ASSUME NEW L, L \subseteq Inums, Reliable, CoreInv(L), DurInv(L), root_dotdot
    PROVE  DurInv(L)'
<1>1. PICK x : x = [view[op.block] EXCEPT ![1] = ROOT_INODE]
  OBVIOUS
<1>2. format_step("root_dotdot", op.block, x, "root_inode") /\ UNCHANGED <<op, reported>> /\ pc = "root_dotdot"
  BY <1>1 DEF root_dotdot, format_step
<1>3. view[op.block][0] = ROOT_INODE
  BY <1>2 DEF DurInv, FreshInv
<1>4. /\ x \in [Words -> Nat] /\ x[0] = ROOT_INODE /\ x[1] = ROOT_INODE
      /\ op.block # INODES /\ op.block # SUPER /\ op.block \in DataBlocks
  BY <1>1, <1>2, <1>3, RootBlock DEF ROOT_INODE
<1>5. BlockOK(op.block, x)
  BY <1>4, LayoutFacts DEF BlockOK
<1>6. QED
  BY <1>2, <1>4, <1>5, FormatDur DEF FormatSteps, RootSteps

\* The root directory is the first file.
LEMMA RootInodeDur ==
    ASSUME NEW L, L \subseteq Inums, Reliable, CoreInv(L), DurInv(L), root_inode
    PROVE  DurInv(L)'
<1>1. PICK g : g = [NoInode.addrs EXCEPT ![0] = op.block]
  OBVIOUS
<1>2. PICK root : root = [type |-> "kDirectory", size |-> 2, addrs |-> g]
  OBVIOUS
<1>3. PICK x : x = [view[INODES] EXCEPT ![ROOT_INODE] = root]
  OBVIOUS
<1>4. format_step("root_inode", INODES, x, "reload") /\ pc = "root_inode"
  BY <1>1, <1>2, <1>3 DEF root_inode, format_step
<1>5. view = disk /\ FilesOK(L, disk, inode_table, reported) /\ FreshInv /\ CoreType /\ SlotInv(L)
  BY DEF DurInv, CoreInv
<1>6. /\ pc' = "reload" /\ disk' = [disk EXCEPT ![INODES] = x] /\ view' = disk'
      /\ UNCHANGED <<inode_table, ref>>
  BY <1>4, <1>5, FormatPut
<1>7. PICK file : file = [size |-> 2, words |-> [w \in 0 .. MaxBytes - 1 |-> IF w < 2 THEN ROOT_INODE ELSE 0]]
  OBVIOUS
<1>8. reported' = [reported EXCEPT ![ROOT_INODE] = file]
  BY <1>6, <1>7 DEF root_inode
<1>9. PICK d2, B : d2 = disk' /\ B = op.block
  OBVIOUS
<1>10. ROOT_INODE \in Inums
  BY Naturals DEF ROOT_INODE, Inums
<1>11. B \in DataBlocks /\ B # INODES /\ B # 0
  BY <1>4, <1>9, RootBlock
<1>12. d2[INODES] = x /\ \A c \in Blocks : c # INODES => d2[c] = disk[c]
  BY <1>5, <1>6, <1>9, TypeParts, LayoutFacts DEF Stores, StoreOK
<1>13. x[ROOT_INODE] = root /\ \A n \in Inums : n # ROOT_INODE => x[n] = disk[INODES][n]
  BY <1>3, <1>5, <1>10, TypeParts DEF Stores, StoreOK
<1>14. reported'[ROOT_INODE] = file /\ \A n \in Inums : n # ROOT_INODE => reported'[n] = reported[n]
  BY <1>5, <1>8, <1>10, TypeParts DEF ReportType
<1>15. d2[B][0] = ROOT_INODE /\ d2[B][1] = ROOT_INODE
  BY <1>4, <1>5, <1>9, <1>11, <1>12, LayoutFacts DEF FreshInv
<1>16. NodeOK(d2, root, file)
  <2>1. root.size = 2 /\ root.addrs = g /\ root.type # "kUnused" /\ file.size = 2
    BY <1>2, <1>7
  <2>2. ASSUME NEW w \in 0 .. 1
        PROVE  Has(d2, g, w, file.words[w])
    <3>1. w \div FSBLOCK_SIZE = 0 /\ w % FSBLOCK_SIZE = w
      BY Naturals
    <3>2. g[0] = B
      BY <1>1, <1>9, NoInodeFacts
    <3>3. BlockAt(d2, g, 0) = B
      BY <3>2, Naturals DEF BlockAt
    <3>4. w \in 0 .. MaxBytes - 1
      BY NoInodeFacts
    <3>5. file.words[w] = ROOT_INODE
      BY <1>7, <3>4
    <3>6. d2[B][w] = ROOT_INODE
      BY <1>15
    <3>7. QED
      BY <1>11, <3>1, <3>3, <3>5, <3>6 DEF Has
  <2>3. Holds(d2, g, 2, file.words)
    BY <2>2 DEF Holds
  <2>4. QED
    BY <2>1, <2>3 DEF NodeOK
<1>17. ASSUME NEW n \in L, n # ROOT_INODE
       PROVE  NodeOK(d2, x[n], reported[n])
  <2>1. reported[n].size = 0
    BY <1>4, <1>5 DEF FreshInv, FormatSteps, NoFiles
  <2>2. x[n].size = 0
    BY <1>5, <1>13, <1>17, <2>1 DEF FilesOK, NodeOK
  <2>3. QED
    BY <2>1, <2>2, EmptyOK
<1>18. \A s \in Slots : inode_table[s].refcnt = 0
  <2>1. \A r \in Refs : ref[r] = NoSlot
    BY <1>4, <1>5 DEF SlotInv, FormatSteps
  <2>2. QED
    BY <1>5, <2>1, NobodyHolds
<1>19. FilesOK(L, d2, inode_table, reported')
  BY <1>12, <1>13, <1>14, <1>16, <1>17, <1>18 DEF FilesOK
<1>20. WriteInv'
  BY <1>6, NoWrite DEF WriteSteps
<1>21. FreshInv'
  <2>1. disk[SUPER]
    BY <1>4, <1>5 DEF FreshInv, RootSteps
  <2>2. d2[SUPER] = disk[SUPER]
    BY <1>12, LayoutFacts
  <2>3. QED
    BY <1>6, <1>9, <2>1, <2>2 DEF FreshInv, FormatSteps, RootSteps, WriteSteps, CleanSteps
<1>22. QED
  BY <1>6, <1>9, <1>19, <1>20, <1>21 DEF DurInv

-----------------------------------------------------------------------------
(* The steps of write_data() *)

\* What the steps of write_data() start from, with the cache equal to the device.
Sound(L, d, t, rep) ==
    /\ Stores(d, d, t) /\ Once(L, d, d, t) /\ rep \in ReportType /\ Numbered(L, t) /\ FilesOK(L, d, t, rep)
    /\ \A s, u \in Slots : t[s].refcnt > 0 /\ t[u].refcnt > 0 /\ t[s].number = t[u].number => s = u

LEMMA DurFacts ==
    ASSUME NEW L, L \subseteq Inums, CoreInv(L), DurInv(L)
    PROVE  Sound(L, disk, inode_table, reported) /\ view = disk
BY TypeParts DEF CoreInv, DurInv, SlotInv, Numbered, Stores, Sound

\* The slot S with the addresses f of the file N, of which the first p words are written.
Writing(L, d, t, rep, S, N, f, p) ==
    /\ S \in Slots /\ t[S].refcnt > 0 /\ N = t[S].number /\ N \in L
    /\ f = t[S].disk.addrs /\ f \in AddrsOf(d, d, t, N) /\ f \in [0 .. NDIRECT -> BlockNumbers]
    /\ p \in 0 .. MaxBytes /\ Holds(d, f, p, rep[N].words)

LEMMA WritingNow ==
    ASSUME NEW L, L \subseteq Inums, CoreInv(L), DurInv(L), pc \in WriteSteps
    PROVE  Writing(L, disk, inode_table, reported, op.slot, inode_table[op.slot].number, inode.addrs, pos)
<1>1. view = disk
  BY DEF DurInv
<1>2. Holds(disk, inode.addrs, pos, reported[inode_table[op.slot].number].words)
  BY DEF DurInv, WriteInv
<1>3. QED
  BY <1>1, <1>2, OpFacts DEF Writing, inode

\* The place in the file is the same, for the same operation.
LEMMA SamePlace ==
    ASSUME op'.slot = op.slot, op'.offset = op.offset, op'.done = op.done
    PROVE  /\ pos' = pos /\ logical' = logical
           /\ inode_table' = inode_table => inode' = inode
BY DEF pos, logical, containing, inode

\* After a step in write_data() no format() runs.
LEMMA FreshKept ==
    ASSUME FreshInv, pc \in WriteSteps, pc' \notin FormatSteps, disk'[SUPER] = disk[SUPER],
           \A n \in Inums : reported'[n].size = reported[n].size
    PROVE  FreshInv'
BY DEF FreshInv, WriteSteps, FormatSteps, RootSteps, NoFiles

LEMMA RecycleDur ==
    ASSUME NEW L, L \subseteq Inums, DurInv(L), NEW b \in Blocks
    PROVE  ~recycle(b)
BY DEF DurInv, recycle

LEMMA MapBlockDur ==
    ASSUME NEW L, L \subseteq Inums, CoreInv(L), DurInv(L), map_block
    PROVE  DurInv(L)'
<1>1. pc = "map" /\ UNCHANGED <<disk, view, inode_table, reported>> /\ pc \in WriteSteps
  BY DEF map_block, storeVars, inodeVars, WriteSteps
<1>2. op \in OpType
  BY TypeParts DEF CoreInv
<1>3. Holds(disk, inode.addrs, pos, reported[inode_table[op.slot].number].words)
  BY <1>1 DEF DurInv, WriteInv
<1>4. find_block(view, inode, logical) = BlockAt(disk, inode.addrs, logical)
  BY FindIs DEF DurInv
<1>5. ASSUME op' \in OpType, op'.slot = op.slot, op'.offset = op.offset, op'.done = op.done,
             pc' \in {"alloc", "data", "update"},
             pc' = "alloc" /\ op'.for = "direct" => inode.addrs[logical] = 0,
             pc' = "alloc" /\ op'.for = "indirect" => inode.addrs[NDIRECT] = 0,
             pc' = "alloc" /\ op'.for = "entry" => BlockAt(disk, inode.addrs, logical) = 0,
             pc' = "data" => op'.block = BlockAt(disk, inode.addrs, logical)
      PROVE  DurInv(L)'
  <2>1. pos' = pos /\ logical' = logical /\ inode' = inode
    BY <1>1, <1>5, SamePlace
  <2>2. WriteInv'
    BY <1>1, <1>3, <1>5, <2>1 DEF WriteInv
  <2>3. FreshInv'
    BY <1>1, <1>5, FreshKept DEF DurInv, FormatSteps
  <2>4. QED
    BY <1>1, <2>2, <2>3 DEF DurInv
<1>6. ASSUME NEW kind \in {"direct", "indirect", "entry"}, missing(kind)
      PROVE  /\ pc' = "alloc" /\ op' \in OpType /\ op'.slot = op.slot /\ op'.offset = op.offset
             /\ op'.done = op.done /\ op'.for = kind
  BY <1>2, <1>6 DEF missing, OpType
<1>7. CASE inode.addrs[logical] = 0 /\ missing("direct")
  BY <1>5, <1>6, <1>7
<1>8. CASE inode.addrs[NDIRECT] = 0 /\ missing("indirect")
  BY <1>5, <1>6, <1>8
<1>9. CASE find_block(view, inode, logical) = 0 /\ missing("entry")
  BY <1>4, <1>5, <1>6, <1>9
<1>10. ASSUME pc' = "data", op' = [op EXCEPT !.block = find_block(view, inode, logical)],
              find_block(view, inode, logical) # 0
       PROVE  DurInv(L)'
  <2>1. PICK b : b = find_block(view, inode, logical)
    OBVIOUS
  <2>2. b \in BlockNumbers
    BY <1>1, <1>10, <2>1, FoundBlock, LayoutFacts
  <2>3. /\ op' \in OpType /\ op'.slot = op.slot /\ op'.offset = op.offset /\ op'.done = op.done
        /\ op'.block = b
    BY <1>2, <1>10, <2>1, <2>2 DEF OpType
  <2>4. QED
    BY <1>4, <1>5, <1>10, <2>1, <2>3
<1>11. CASE pc' = "update" /\ UNCHANGED op
  BY <1>2, <1>5, <1>11
<1>12. QED
  BY <1>7, <1>8, <1>9, <1>10, <1>11 DEF map_block

\* A step of write_data() that writes to no block of a file and leaves the inode as it is.
LEMMA AsideDur ==
    ASSUME NEW L, L \subseteq Inums,
           Reliable, CoreInv(L), DurInv(L), pc \in WriteSteps, UNCHANGED <<inode_table, reported>>,
           NEW b, NEW x, BlockOK(b, x), NEW o \in Outcomes("run"), put(b, x, o),
           b = BITMAP \/ (b \in DataBlocks /\ Unreferenced(L, disk, view, inode_table, b)),
           op'.slot = op.slot, op'.offset = op.offset, op'.done = op.done, op'.for = op.for,
           \/ pc' = "update"
           \/ pc = "alloc" /\ pc' = "zero"
           \/ pc = "zero" /\ pc' = "table" /\ op.for = "entry",
           pc \in {"alloc", "zero"}
    PROVE  DurInv(L)'
<1>1. PICK d, t, rep, d2 : d = disk /\ t = inode_table /\ rep = reported /\ d2 = disk'
  OBVIOUS
<1>2. Sound(L, d, t, rep) /\ view = disk
  BY <1>1, DurFacts
<1>3. PICK S, N, f, p, k : /\ S = op.slot /\ N = inode_table[op.slot].number /\ f = inode.addrs
                           /\ p = pos /\ k = logical
  OBVIOUS
<1>4. Writing(L, d, t, rep, S, N, f, p)
  BY <1>1, <1>3, WritingNow
<1>5. view' = disk' /\ MaybePut(d, b, x, d2)
  BY <1>1, <1>2, PutBoth DEF MaybePut
<1>6. AllKept(L, d, t, d2) /\ Untouched(L, d, d, t, d2)
  BY <1>1, <1>2, <1>5, PutKept, PutUntouched, LayoutFacts DEF Sound
<1>7. d2[INODES] = d[INODES] /\ d2[SUPER] = d[SUPER]
  BY <1>2, <1>5, PutStore, LayoutFacts DEF Sound, Stores
<1>8. FilesOK(L, d2, t, rep)
  BY <1>2, <1>6, <1>7, WordsKept, FilesSame DEF Sound
<1>9. Holds(d2, f, p, rep[N].words)
  BY <1>4, <1>6, HoldsKept DEF Writing, AllKept
<1>10. pos' = p /\ logical' = k /\ inode' = inode
  BY <1>3, SamePlace
<1>11. op.for = "entry" => BlockAt(d2, f, k) = BlockAt(d, f, k)
  <2>1. ASSUME op.for = "entry"
        PROVE  f[NDIRECT] # 0
    BY <1>3, <2>1 DEF CoreInv, OpInv
  <2>2. ASSUME op.for = "entry"
        PROVE  d2[f[NDIRECT]] = d[f[NDIRECT]]
    BY <1>4, <1>6, <2>1, <2>2, TableIsReferred DEF Writing, Untouched
  <2>3. QED
    BY <2>2 DEF BlockAt
<1>12. WriteInv'
  <2>1. op.for = "entry" => BlockAt(d, f, k) = 0
    BY <1>1, <1>3 DEF DurInv, WriteInv
  <2>2. pc' \in {"update", "zero", "table"} /\ pc' \in WriteSteps
    BY DEF WriteSteps
  <2>3. pc' = "zero" => /\ op.for = "direct" => f[k] = 0
                        /\ op.for = "indirect" => f[NDIRECT] = 0
    BY <1>3 DEF DurInv, WriteInv
  <2>4. inode'.addrs = f /\ inode_table'[op'.slot].number = N /\ reported' = rep /\ disk' = d2
    BY <1>1, <1>3, <1>10
  <2>5. QED
    BY <1>9, <1>10, <1>11, <2>1, <2>2, <2>3, <2>4 DEF WriteInv
<1>13. FreshInv'
  BY <1>1, <1>7, FreshKept DEF DurInv, FormatSteps
<1>14. QED
  BY <1>1, <1>5, <1>8, <1>12, <1>13 DEF DurInv

LEMMA AllocateBlockDur ==
    ASSUME NEW L, L \subseteq Inums, Reliable, CoreInv(L), DurInv(L), allocate_block
    PROVE  DurInv(L)'
<1>1. pc = "alloc" /\ UNCHANGED <<inode_table, reported>> /\ pc \in WriteSteps
  BY DEF allocate_block, inodeVars, WriteSteps
<1>2. CASE pc' = "update" /\ UNCHANGED <<storeVars, op>>
  <2>1. UNCHANGED <<disk, view, op>>
    BY <1>2 DEF storeVars
  <2>2. pos' = pos /\ logical' = logical /\ inode' = inode
    BY <1>1, <2>1, SamePlace
  <2>3. WriteInv'
    BY <1>1, <1>2, <2>1, <2>2 DEF DurInv, WriteInv
  <2>4. FreshInv'
    BY <1>1, <1>2, <2>1, FreshKept DEF DurInv, FormatSteps
  <2>5. QED
    BY <1>1, <2>1, <2>3, <2>4 DEF DurInv
<1>3. ASSUME FreeBlocks # {}, NEW o \in Outcomes("run"),
             put(BITMAP, view[BITMAP] \cup {FirstFree}, o),
             pc' = IF o = "written" THEN "zero" ELSE "update",
             op' = [op EXCEPT !.block = FirstFree]
      PROVE  DurInv(L)'
  <2>1. PICK b, x : b = FirstFree /\ x = view[BITMAP] \cup {b}
    OBVIOUS
  <2>2. b \in BlockNumbers
    BY <1>3, <2>1, FirstFreeIsData
  <2>3. BlockOK(BITMAP, x)
    BY <2>1, <2>2, BitmapOK DEF CoreInv
  <2>4. put(BITMAP, x, o)
    BY <1>3, <2>1
  <2>5. op'.slot = op.slot /\ op'.offset = op.offset /\ op'.done = op.done /\ op'.for = op.for
    BY <1>3, TypeParts DEF CoreInv, OpType
  <2>6. pc' = "update" \/ (pc = "alloc" /\ pc' = "zero")
    BY <1>1, <1>3
  <2>7. QED
    BY <1>1, <2>3, <2>4, <2>5, <2>6, AsideDur
<1>4. QED
  BY <1>2, <1>3 DEF allocate_block

\* An inode that gets an address it had none at.
LEMMA AddrMore ==
    ASSUME NEW f \in [0 .. NDIRECT -> BlockNumbers], NEW a \in 0 .. NDIRECT, f[a] = 0, NEW b, NEW g,
           g = [f EXCEPT ![a] = b]
    PROVE  More(f, g) /\ g[a] = b
BY DEF More

LEMMA MoreTwice ==
    ASSUME NEW f, NEW g, NEW h, More(f, g), More(g, h)
    PROVE  More(f, h)
<1>1. SUFFICES ASSUME NEW a \in 0 .. NDIRECT, f[a] # 0
               PROVE  h[a] = f[a]
  BY DEF More
<1>2. g[a] = f[a]
  BY <1>1 DEF More
<1>3. QED
  BY <1>1, <1>2 DEF More

\* The inode in the slot S gets more addresses.
LEMMA FilesGrown ==
    ASSUME NEW L, L \subseteq Inums,
           NEW d, NEW t, NEW t2, NEW rep, FilesOK(L, d, t, rep), t \in TableType, NEW S \in Slots,
           t[S].refcnt > 0, t[S].number \in L, NEW f, NEW g, f = t[S].disk.addrs, More(f, g),
           \A s \in Slots : t2[s].refcnt = t[s].refcnt /\ t2[s].number = t[s].number,
           \A s \in Slots : s # S => t2[s] = t[s],
           t2[S].disk.addrs = g, t2[S].disk.size = t[S].disk.size, t2[S].disk.type = t[S].disk.type
    PROVE  FilesOK(L, d, t2, rep)
<1>1. PICK N, z : N = t[S].number /\ z = t[S].disk.size
  OBVIOUS
<1>2. z \in 0 .. MaxBytes
  BY <1>1 DEF TableType, InodeType
<1>3. HeldOK(d, d[INODES][N], t[S].disk, rep[N])
  BY <1>1 DEF FilesOK
<1>4. More(d[INODES][N].addrs, f) /\ Holds(d, f, z, rep[N].words) /\ t[S].disk.type # "kUnused"
      /\ d[INODES][N].type # "kUnused"
  BY <1>1, <1>3 DEF HeldOK
<1>5. More(d[INODES][N].addrs, g)
  BY <1>4, MoreTwice
<1>6. Holds(d, g, z, rep[N].words)
  BY <1>2, <1>4, HoldsMore
<1>7. HeldOK(d, d[INODES][N], t2[S].disk, rep[N])
  BY <1>1, <1>4, <1>5, <1>6 DEF HeldOK
<1>8. ASSUME NEW s \in Slots, t2[s].refcnt > 0, t2[s].number \in L
      PROVE  HeldOK(d, d[INODES][t2[s].number], t2[s].disk, rep[t2[s].number])
  <2>1. CASE s = S
    BY <1>1, <1>7, <2>1
  <2>2. CASE s # S
    BY <1>8, <2>2 DEF FilesOK
  <2>3. QED
    BY <2>1, <2>2
<1>9. QED
  BY <1>8 DEF FilesOK

LEMMA ZeroBlockDur ==
    ASSUME NEW L, L \subseteq Inums, Reliable, CoreInv(L), DurInv(L), zero_block
    PROVE  DurInv(L)'
<1>1. pc = "zero" /\ UNCHANGED <<op, reported>> /\ pc \in WriteSteps /\ pc # "update"
  BY DEF zero_block, WriteSteps
<1>2. PICK S, B, N, f, p, k : /\ S = op.slot /\ B = op.block /\ N = inode_table[op.slot].number
                              /\ f = inode.addrs /\ p = pos /\ k = logical
  OBVIOUS
<1>3. PICK d, t, rep, d2, t2 : /\ d = disk /\ t = inode_table /\ rep = reported
                               /\ d2 = disk' /\ t2 = inode_table'
  OBVIOUS
<1>4. Sound(L, d, t, rep) /\ view = disk /\ Writing(L, d, t, rep, S, N, f, p)
  BY <1>1, <1>2, <1>3, DurFacts, WritingNow
<1>5. B \in DataBlocks /\ Unreferenced(L, d, d, t, B) /\ (op.for = "direct" <=> k < NDIRECT)
  BY <1>1, <1>2, <1>3, <1>4 DEF CoreInv, OpInv, Used
<1>6. BlockOK(B, Zero)
  BY <1>5, LayoutFacts DEF BlockOK, Zero
<1>7. PICK place, addrs : /\ place = (IF op.for = "direct" THEN logical ELSE NDIRECT)
                          /\ addrs = [inode.addrs EXCEPT ![place] = B]
  OBVIOUS
<1>8. PICK o \in Outcomes("run") :
        /\ put(B, Zero, o)
        /\ pc' = IF o # "written" THEN "update"
                 ELSE CASE op.for = "direct"   -> "data"
                        [] op.for = "indirect" -> "map"
                        [] op.for = "entry"    -> "table"
        /\ inode_table' = IF o = "written" /\ op.for # "entry"
                          THEN [inode_table EXCEPT ![S].disk = [inode EXCEPT !.addrs = addrs]]
                          ELSE inode_table
  BY <1>2, <1>7 DEF zero_block
<1>9. op.for \in {"direct", "indirect", "entry"}
  BY TypeParts DEF CoreInv, OpType
<1>10. CASE o # "written" \/ op.for = "entry"
  <2>1. UNCHANGED <<inode_table, reported>>
    BY <1>1, <1>8, <1>10
  <2>2. pc' = "update" \/ (pc = "zero" /\ pc' = "table" /\ op.for = "entry")
    <3>1. CASE o # "written"
      BY <1>8, <3>1
    <3>2. CASE o = "written" /\ op.for = "entry"
      BY <1>1, <1>8, <3>2
    <3>3. QED
      BY <1>10, <3>1, <3>2
  <2>3. Unreferenced(L, disk, view, inode_table, B)
    BY <1>3, <1>4, <1>5
  <2>4. QED
    BY <1>1, <1>5, <1>6, <1>8, <2>1, <2>2, <2>3, AsideDur
<1>11. ASSUME o = "written", op.for # "entry", place \in 0 .. NDIRECT, f[place] = 0,
              \/ pc' = "data" /\ place = k /\ k < NDIRECT
              \/ pc' = "map"
       PROVE  DurInv(L)'
  <2>1. view' = disk' /\ MaybePut(d, B, Zero, d2)
    BY <1>3, <1>4, <1>8, PutBoth DEF MaybePut
  <2>2. AllKept(L, d, t, d2)
    BY <1>4, <1>5, <1>6, <2>1, PutKept DEF Sound
  <2>3. d2[INODES] = d[INODES] /\ d2[SUPER] = d[SUPER]
    BY <1>4, <1>5, <1>6, <2>1, PutStore, LayoutFacts DEF Sound, Stores
  <2>4. FilesOK(L, d2, t, rep)
    BY <1>4, <2>2, <2>3, WordsKept, FilesSame DEF Sound
  <2>5. PICK node : node = [inode EXCEPT !.addrs = addrs]
    OBVIOUS
  <2>6. inode \in InodeType /\ inode = t[S].disk /\ S \in Slots /\ t \in TableType
    BY <1>1, <1>2, <1>3, <1>4, OpFacts DEF inode, Writing, Sound, Stores
  <2>7. addrs \in [0 .. NDIRECT -> BlockNumbers] /\ More(f, addrs) /\ addrs[place] = B
    <3>1. f \in [0 .. NDIRECT -> BlockNumbers] /\ B \in BlockNumbers /\ addrs = [f EXCEPT ![place] = B]
      BY <1>2, <1>4, <1>5, <1>7, LayoutFacts DEF Writing
    <3>2. addrs \in [0 .. NDIRECT -> BlockNumbers]
      BY <1>11, <3>1
    <3>3. QED
      BY <1>11, <3>1, <3>2, AddrMore
  <2>8. /\ node \in InodeType /\ node.addrs = addrs /\ node.size = inode.size
        /\ node.type = inode.type
    BY <2>5, <2>6, <2>7 DEF InodeType
  <2>9. t2 = [t EXCEPT ![S].disk = node]
    BY <1>3, <1>8, <1>11, <2>5
  <2>10. /\ \A s \in Slots : t2[s].refcnt = t[s].refcnt /\ t2[s].number = t[s].number
         /\ \A s \in Slots : s # S => t2[s] = t[s]
         /\ t2[S].disk = node
    BY <2>6, <2>8, <2>9 DEF TableType
  <2>11. FilesOK(L, d2, t2, rep)
    <3>1. t[S].refcnt > 0 /\ t[S].number \in L /\ f = t[S].disk.addrs
      BY <1>4 DEF Writing
    <3>2. t2[S].disk.addrs = addrs /\ t2[S].disk.size = t[S].disk.size /\ t2[S].disk.type = t[S].disk.type
      BY <2>6, <2>8, <2>10
    <3>3. QED
      BY <2>4, <2>6, <2>7, <2>10, <3>1, <3>2, FilesGrown
  <2>12. Holds(d2, addrs, p, rep[N].words)
    <3>1. Holds(d2, f, p, rep[N].words)
      BY <1>4, <2>2, HoldsKept DEF Writing, AllKept
    <3>2. QED
      BY <1>4, <2>7, <3>1, HoldsMore DEF Writing
  <2>13. pos' = p /\ logical' = k /\ inode' = node
    BY <1>1, <1>2, <1>3, <2>10 DEF pos, logical, containing, inode
  <2>14. WriteInv'
    <3>1. inode_table'[op'.slot].number = N /\ inode'.addrs = addrs /\ reported' = rep /\ op' = op
      BY <1>1, <1>2, <1>3, <2>6, <2>8, <2>10, <2>13
    <3>2. pc' = "data" => B = BlockAt(d2, addrs, k)
      BY <1>11, <2>7 DEF BlockAt
    <3>3. QED
      BY <1>2, <1>3, <1>11, <2>12, <2>13, <3>1, <3>2 DEF WriteInv
  <2>15. FreshInv'
    BY <1>1, <1>3, <1>11, <2>3, FreshKept DEF DurInv, FormatSteps
  <2>16. QED
    BY <1>1, <1>3, <2>1, <2>11, <2>14, <2>15 DEF DurInv
<1>12. CASE o = "written" /\ op.for = "direct"
  <2>1. k \in 0 .. NDIRECT /\ k < NDIRECT /\ place = k
    BY <1>1, <1>2, <1>5, <1>7, <1>12, OpFacts, Naturals, NoInodeFacts
  <2>2. f[k] = 0
    BY <1>1, <1>2, <1>12 DEF DurInv, WriteInv
  <2>3. QED
    BY <1>8, <1>11, <1>12, <2>1, <2>2
<1>13. CASE o = "written" /\ op.for = "indirect"
  <2>1. place = NDIRECT /\ NDIRECT \in 0 .. NDIRECT
    BY <1>7, <1>13, NoInodeFacts
  <2>2. f[NDIRECT] = 0
    BY <1>1, <1>2, <1>13 DEF DurInv, WriteInv
  <2>3. QED
    BY <1>8, <1>11, <1>13, <2>1, <2>2
<1>14. QED
  BY <1>9, <1>10, <1>12, <1>13

\* An entry of a table that was 0.
LEMMA EntryKept ==
    ASSUME NEW L, L \subseteq Inums,
           NEW d, NEW t, NEW d2, NEW N, NEW T, Once(L, d, d, t), Refers(L, d, d, t, T, N, NDIRECT),
           \A c \in DataBlocks : c # T => d2[c] = d[c],
           \A w \in Words : d[T][w] # 0 => d2[T][w] = d[T][w]
    PROVE  AllKept(L, d, t, d2)
<1>1. SUFFICES ASSUME NEW n \in L, NEW f \in AddrsOf(d, d, t, n),
                      NEW k \in 0 .. MAXFILE - 1, BlockAt(d, f, k) # 0
               PROVE  /\ BlockAt(d2, f, k) = BlockAt(d, f, k)
                      /\ d2[BlockAt(d, f, k)] = d[BlockAt(d, f, k)]
  BY DEF AllKept, Kept
<1>2. PICK c : c = BlockAt(d, f, k)
  OBVIOUS
<1>3. Refers(L, d, d, t, c, n, Place(k))
  BY <1>1, <1>2, FoundIsReferred
<1>4. Place(k) # NDIRECT
  BY <1>1, Naturals, NoInodeFacts DEF Place
<1>5. c # T /\ c \in DataBlocks
  BY <1>3, <1>4 DEF Once, Used
<1>6. CASE k < NDIRECT
  BY <1>2, <1>5, <1>6 DEF BlockAt
<1>7. CASE ~(k < NDIRECT)
  <2>1. /\ f[NDIRECT] # 0 /\ Refers(L, d, d, t, f[NDIRECT], n, NDIRECT)
        /\ c = d[f[NDIRECT]][k - NDIRECT] /\ k - NDIRECT \in Words
    <3>1. PICK b : b = f[NDIRECT]
      OBVIOUS
    <3>2. b # 0 /\ Refers(L, d, d, t, b, n, NDIRECT) /\ c = d[b][k - NDIRECT]
      BY <1>1, <1>2, <1>7, <3>1, FoundIsReferred
    <3>3. k - NDIRECT \in Words
      BY <1>1, <1>7, Naturals DEF MAXFILE, Words
    <3>4. QED
      BY <3>1, <3>2, <3>3
  <2>2. f[NDIRECT] \in DataBlocks
    BY <2>1 DEF Once, Used
  <2>3. d2[f[NDIRECT]][k - NDIRECT] = c
    <3>1. CASE f[NDIRECT] = T
      BY <1>1, <1>2, <2>1, <3>1
    <3>2. CASE f[NDIRECT] # T
      BY <2>1, <2>2, <3>2
    <3>3. QED
      BY <3>1, <3>2
  <2>4. BlockAt(d2, f, k) = c
    BY <1>7, <2>1, <2>3 DEF BlockAt
  <2>5. QED
    BY <1>2, <1>5, <2>4
<1>8. QED
  BY <1>6, <1>7

LEMMA WriteTableDur ==
    ASSUME NEW L, L \subseteq Inums, Reliable, CoreInv(L), DurInv(L), write_table
    PROVE  DurInv(L)'
<1>1. /\ pc = "table" /\ UNCHANGED <<inode_table, op, reported>> /\ pc \in WriteSteps /\ pc # "update"
  BY DEF write_table, WriteSteps, inodeVars
<1>2. PICK S, B, N, f, p, k : /\ S = op.slot /\ B = op.block /\ N = inode_table[op.slot].number
                              /\ f = inode.addrs /\ p = pos /\ k = logical
  OBVIOUS
<1>3. PICK d, t, rep, d2 : d = disk /\ t = inode_table /\ rep = reported /\ d2 = disk'
  OBVIOUS
<1>4. Sound(L, d, t, rep) /\ view = disk /\ Writing(L, d, t, rep, S, N, f, p)
  BY <1>1, <1>2, <1>3, DurFacts, WritingNow
<1>5. PICK T, W : T = f[NDIRECT] /\ W = k - NDIRECT
  OBVIOUS
<1>6. k \in 0 .. MAXFILE - 1 /\ ~(k < NDIRECT) /\ T # 0 /\ B \in DataBlocks
  BY <1>1, <1>2, <1>5, OpFacts DEF CoreInv, OpInv, Used
<1>7. W \in Words
  BY <1>5, <1>6, Naturals DEF MAXFILE, Words
<1>8. Refers(L, d, d, t, T, N, NDIRECT)
  BY <1>4, <1>5, <1>6, TableIsReferred DEF Writing
<1>9. T \in DataBlocks
  BY <1>4, <1>8 DEF Sound, Once, Used
<1>10. d[T][W] = 0
  <2>1. BlockAt(d, f, k) = 0
    BY <1>1, <1>2, <1>3 DEF CoreInv, OpInv, DurInv, WriteInv
  <2>2. QED
    BY <1>5, <1>6, <2>1 DEF BlockAt
<1>11. PICK x : x = [view[T] EXCEPT ![W] = B]
  OBVIOUS
<1>12. /\ x \in [Words -> Nat] /\ x[W] = B
       /\ \A w \in Words : w # W => x[w] = d[T][w]
  <2>1. B \in Nat /\ d[T] \in [Words -> Nat]
    BY <1>4, <1>6, <1>9, LayoutFacts DEF Sound, Stores, StoreOK
  <2>2. QED
    BY <1>3, <1>4, <1>7, <1>11, <2>1
<1>13. BlockOK(T, x)
  BY <1>9, <1>12, LayoutFacts DEF BlockOK
<1>14. PICK o \in Outcomes("run") : put(T, x, o) /\ pc' = IF o = "written" THEN "data" ELSE "update"
  BY <1>2, <1>5, <1>11 DEF write_table
<1>15. /\ view' = disk' /\ MaybePut(d, T, x, d2)
       /\ o = "written" => d2 = [d EXCEPT ![T] = x]
  BY <1>3, <1>4, <1>14, PutBoth DEF MaybePut
<1>16. /\ \A c \in Blocks : c # T => d2[c] = d[c]
       /\ d2[T] = d[T] \/ d2[T] = x
       /\ o = "written" => d2[T] = x
  BY <1>4, <1>13, <1>15, PutStore DEF Sound, Stores
<1>17. d2[INODES] = d[INODES] /\ d2[SUPER] = d[SUPER]
  BY <1>9, <1>16, LayoutFacts
<1>18. AllKept(L, d, t, d2)
  <2>1. \A c \in DataBlocks : c # T => d2[c] = d[c]
    BY <1>16, LayoutFacts
  <2>2. \A w \in Words : d[T][w] # 0 => d2[T][w] = d[T][w]
    BY <1>10, <1>12, <1>16
  <2>3. QED
    BY <1>4, <1>8, <2>1, <2>2, EntryKept DEF Sound
<1>19. FilesOK(L, d2, t, rep)
  BY <1>4, <1>17, <1>18, WordsKept, FilesSame DEF Sound
<1>20. Holds(d2, f, p, rep[N].words)
  BY <1>4, <1>18, HoldsKept DEF Writing, AllKept
<1>21. WriteInv'
  <2>1. pos' = p /\ logical' = k /\ inode' = inode
    BY <1>1, <1>2, SamePlace
  <2>2. pc' \in {"data", "update"}
    BY <1>14
  <2>3. pc' = "data" => B = BlockAt(d2, f, k)
    <3>1. pc' = "data" => o = "written"
      BY <1>14
    <3>2. QED
      BY <1>5, <1>6, <1>12, <1>16, <3>1 DEF BlockAt
  <2>4. inode'.addrs = f /\ inode_table'[op'.slot].number = N /\ reported' = rep /\ disk' = d2
    BY <1>1, <1>2, <1>3, <2>1
  <2>5. QED
    BY <1>1, <1>2, <1>20, <2>1, <2>2, <2>3, <2>4 DEF WriteInv
<1>22. FreshInv'
  BY <1>1, <1>3, <1>14, <1>17, FreshKept DEF DurInv, FormatSteps
<1>23. QED
  BY <1>1, <1>3, <1>15, <1>19, <1>21, <1>22 DEF DurInv

\* Division with a remainder is unique.
LEMMA Divided ==
    ASSUME NEW k \in Nat, k > 0, NEW q \in Nat, NEW z \in 0 .. k - 1, NEW n \in Nat, n = k * q + z
    PROVE  n \div k = q /\ n % k = z
<1>1. PICK u, y : u = n \div k /\ y = n % k
  OBVIOUS
<1>2. u \in Nat /\ y \in 0 .. k - 1 /\ n = k * u + y
  BY <1>1
<1>3. ASSUME u > q
      PROVE  FALSE
  <2>1. PICK e \in Nat : u = q + 1 + e
    BY <1>2, <1>3
  <2>2. k * u = k * q + k + k * e /\ k * e \in Nat /\ k * q \in Nat
    BY <2>1
  <2>3. QED
    BY <1>2, <2>2
<1>4. ASSUME q > u
      PROVE  FALSE
  <2>1. PICK e \in Nat : q = u + 1 + e
    BY <1>2, <1>4
  <2>2. k * q = k * u + k + k * e /\ k * e \in Nat /\ k * u \in Nat
    BY <1>2, <2>1
  <2>3. QED
    BY <1>2, <2>2
<1>5. u = q
  BY <1>2, <1>3, <1>4
<1>6. k * u = k * q /\ k * q \in Nat
  BY <1>5
<1>7. QED
  BY <1>1, <1>2, <1>5, <1>6

\* Where a word of a file is.
LEMMA WordSplit ==
    ASSUME NEW w \in 0 .. MaxBytes - 1
    PROVE  w = FSBLOCK_SIZE * (w \div FSBLOCK_SIZE) + (w % FSBLOCK_SIZE)
<1>1. w \in Nat /\ FSBLOCK_SIZE \in Nat /\ FSBLOCK_SIZE > 0
  BY Naturals, NoInodeFacts
<1>2. QED
  BY <1>1

LEMMA InChunk ==
    ASSUME NEW w \in 0 .. MaxBytes - 1, NEW k \in Nat, NEW P, NEW Q \in Words, NEW C \in Nat,
           Q + C <= FSBLOCK_SIZE, P = FSBLOCK_SIZE * k + Q
    PROVE  w \in P .. P + C - 1 <=> /\ w \div FSBLOCK_SIZE = k
                                    /\ w % FSBLOCK_SIZE \in Q .. Q + C - 1
<1>1. FSBLOCK_SIZE \in Nat /\ FSBLOCK_SIZE > 0 /\ w \in Nat /\ Q \in Nat
  BY Naturals, NoInodeFacts DEF Words
<1>2. PICK m \in Nat : m = FSBLOCK_SIZE * k
  BY <1>1
<1>3. ASSUME w \in P .. P + C - 1
      PROVE  w \div FSBLOCK_SIZE = k /\ w % FSBLOCK_SIZE \in Q .. Q + C - 1
  <2>1. PICK z : z = w - m
    OBVIOUS
  <2>2. z \in 0 .. FSBLOCK_SIZE - 1 /\ z \in Q .. Q + C - 1 /\ w = m + z
    BY <1>1, <1>2, <1>3, <2>1
  <2>3. w = FSBLOCK_SIZE * k + z
    BY <1>2, <2>2
  <2>4. QED
    BY <1>1, <2>2, <2>3, Divided
<1>4. ASSUME w \div FSBLOCK_SIZE = k, w % FSBLOCK_SIZE \in Q .. Q + C - 1
      PROVE  w \in P .. P + C - 1
  <2>1. PICK z : z = w % FSBLOCK_SIZE
    OBVIOUS
  <2>2. w = m + z
    BY <1>2, <1>4, <2>1, WordSplit
  <2>3. QED
    BY <1>1, <1>2, <1>4, <2>1, <2>2
<1>5. QED
  BY <1>3, <1>4

\* A round of the loop of write_data(): words Q .. Q + C - 1 of the block B, the logical block k of
\* the file N, become those of the file from P on.
Round(L, d, t, d2, words, words2, N, f, k, B, P, Q, C) ==
    /\ Once(L, d, d, t) /\ N \in L /\ f \in AddrsOf(d, d, t, N)
    /\ k \in 0 .. MAXFILE - 1 /\ B = BlockAt(d, f, k) /\ B # 0
    /\ Q \in Words /\ C \in Nat /\ Q + C <= FSBLOCK_SIZE /\ P = FSBLOCK_SIZE * k + Q
    /\ \A n : ~Refers(L, d, d, t, B, n, NDIRECT)
    /\ \A c \in DataBlocks : c # B => d2[c] = d[c]
    /\ \A w \in Words : d2[B][w] = IF w \in Q .. Q + C - 1 THEN words2[FSBLOCK_SIZE * k + w]
                                   ELSE d[B][w]
    /\ \A w \in 0 .. MaxBytes - 1 : w \notin P .. P + C - 1 => words2[w] = words[w]

\* Blocks are found where they were.
LEMMA RoundFinds ==
    ASSUME NEW L, L \subseteq Inums, NEW d, NEW t, NEW d2, NEW words, NEW words2, NEW N,
           NEW f, NEW k, NEW B, NEW P, NEW Q, NEW C,
           Round(L, d, t, d2, words, words2, N, f, k, B, P, Q, C),
           NEW n \in L, NEW g \in AddrsOf(d, d, t, n), NEW l \in 0 .. MAXFILE - 1,
           BlockAt(d, g, l) # 0
    PROVE  /\ BlockAt(d2, g, l) = BlockAt(d, g, l) /\ BlockAt(d, g, l) \in DataBlocks
           /\ BlockAt(d, g, l) = B => n = N /\ l = k
<1>1. PICK c : c = BlockAt(d, g, l)
  OBVIOUS
<1>2. /\ Refers(L, d, d, t, c, n, Place(l))
      /\ ~(l < NDIRECT) => /\ g[NDIRECT] # 0 /\ Refers(L, d, d, t, g[NDIRECT], n, NDIRECT)
                           /\ c = d[g[NDIRECT]][l - NDIRECT]
  BY <1>1, FoundIsReferred
<1>3. c \in DataBlocks
  BY <1>2 DEF Round, Once, Used
<1>4. BlockAt(d2, g, l) = c
  <2>1. CASE l < NDIRECT
    BY <1>1, <2>1 DEF BlockAt
  <2>2. CASE ~(l < NDIRECT)
    <3>1. g[NDIRECT] # B /\ g[NDIRECT] \in DataBlocks
      BY <1>2, <2>2 DEF Round, Once, Used
    <3>2. d2[g[NDIRECT]] = d[g[NDIRECT]]
      BY <3>1 DEF Round
    <3>3. QED
      BY <1>2, <2>2, <3>2 DEF BlockAt
  <2>3. QED
    BY <2>1, <2>2
<1>5. ASSUME c = B
      PROVE  n = N /\ l = k
  <2>1. /\ N \in L /\ f \in AddrsOf(d, d, t, N) /\ k \in 0 .. MAXFILE - 1
        /\ B = BlockAt(d, f, k) /\ B # 0 /\ Once(L, d, d, t)
    BY DEF Round
  <2>2. Refers(L, d, d, t, B, N, Place(k))
    BY <2>1, FoundIsReferred
  <2>3. n = N /\ Place(l) = Place(k)
    BY <1>2, <1>5, <2>1, <2>2 DEF Once
  <2>4. QED
    BY <2>1, <2>3, Naturals, NoInodeFacts DEF Place
<1>6. QED
  BY <1>1, <1>3, <1>4, <1>5

\* What a file held before the round it holds after it, but for the words written.
LEMMA RoundFile ==
    ASSUME NEW L, L \subseteq Inums, NEW d, NEW t, NEW d2, NEW words, NEW words2, NEW N,
           NEW f, NEW k, NEW B, NEW P, NEW Q, NEW C,
           Round(L, d, t, d2, words, words2, N, f, k, B, P, Q, C),
           NEW n \in L, NEW g \in AddrsOf(d, d, t, n), NEW z \in 0 .. MaxBytes, NEW ws, NEW ws2,
           IF n = N THEN More(g, f) /\ ws = words /\ ws2 = words2 ELSE ws2 = ws,
           Holds(d, g, z, ws)
    PROVE  Holds(d2, g, z, ws2)
<1>1. SUFFICES ASSUME NEW w \in 0 .. z - 1
               PROVE  Has(d2, g, w, ws2[w])
  BY DEF Holds
<1>2. w \in 0 .. MaxBytes - 1
  BY NoInodeFacts
<1>3. PICK l \in 0 .. MAXFILE - 1, y \in Words : l = w \div FSBLOCK_SIZE /\ y = w % FSBLOCK_SIZE
  BY <1>2, WordFacts
<1>4. PICK c : c = BlockAt(d, g, l)
  OBVIOUS
<1>5. c # 0 /\ d[c][y] = ws[w]
  BY <1>3, <1>4 DEF Holds, Has
<1>6. BlockAt(d2, g, l) = c /\ c \in DataBlocks /\ (c = B => n = N /\ l = k)
  BY <1>4, <1>5, RoundFinds
<1>7. w = FSBLOCK_SIZE * l + y
  BY <1>2, <1>3, WordSplit
<1>8. w \in P .. P + C - 1 <=> l = k /\ y \in Q .. Q + C - 1
  <2>1. k \in Nat /\ Q \in Words /\ C \in Nat /\ Q + C <= FSBLOCK_SIZE /\ P = FSBLOCK_SIZE * k + Q
    BY NoInodeFacts DEF Round
  <2>2. QED
    BY <1>2, <1>3, <2>1, InChunk
<1>9. d2[c][y] = ws2[w]
  <2>1. CASE c = B /\ y \in Q .. Q + C - 1
    <3>1. n = N /\ l = k
      BY <1>6, <2>1
    <3>2. d2[B][y] = words2[FSBLOCK_SIZE * k + y]
      BY <2>1 DEF Round
    <3>3. QED
      BY <1>7, <2>1, <3>1, <3>2
  <2>2. CASE c = B /\ y \notin Q .. Q + C - 1
    <3>1. d2[B][y] = d[B][y]
      BY <2>2 DEF Round
    <3>2. words2[w] = words[w]
      BY <1>2, <1>8, <2>2 DEF Round
    <3>3. QED
      BY <1>5, <1>6, <2>2, <3>1, <3>2
  <2>3. CASE c # B
    <3>1. d2[c] = d[c]
      BY <1>6, <2>3 DEF Round
    <3>2. ASSUME n = N
          PROVE  words2[w] = words[w]
      <4>1. BlockAt(d, f, l) = c
        BY <1>4, <1>5, <3>2, MoreFinds
      <4>2. l # k
        BY <2>3, <4>1 DEF Round
      <4>3. QED
        BY <1>2, <1>8, <4>2 DEF Round
    <3>3. QED
      BY <1>5, <3>1, <3>2
  <2>4. QED
    BY <2>1, <2>2, <2>3
<1>10. QED
  BY <1>3, <1>5, <1>6, <1>9 DEF Has

\* ...and the words written.
LEMMA RoundNew ==
    ASSUME NEW L, L \subseteq Inums, NEW d, NEW t, NEW d2, NEW words, NEW words2, NEW N,
           NEW f, NEW k, NEW B, NEW P \in Nat, NEW Q,
           NEW C, Round(L, d, t, d2, words, words2, N, f, k, B, P, Q, C),
           P + C <= MaxBytes, Holds(d, f, P, words)
    PROVE  Holds(d2, f, P + C, words2)
<1>0. PICK z : z = P + C
  OBVIOUS
<1>1. SUFFICES ASSUME NEW w \in 0 .. z - 1
               PROVE  Has(d2, f, w, words2[w])
  <2>1. Holds(d2, f, z, words2)
    BY DEF Holds
  <2>2. QED
    BY <1>0, <2>1
<1>2. /\ N \in L /\ f \in AddrsOf(d, d, t, N) /\ k \in 0 .. MAXFILE - 1 /\ B # 0 /\ C \in Nat
      /\ B = BlockAt(d, f, k) /\ Q \in Words /\ Q + C <= FSBLOCK_SIZE /\ P = FSBLOCK_SIZE * k + Q
  BY DEF Round
<1>3. P \in 0 .. MaxBytes /\ w \in 0 .. MaxBytes - 1
  BY <1>0, <1>1, <1>2, NoInodeFacts
<1>4. CASE w < P
  <2>1. Holds(d2, f, P, words2)
    BY <1>2, <1>3, MoreSame, RoundFile
  <2>2. w \in 0 .. P - 1
    BY <1>0, <1>1, <1>2, <1>4
  <2>3. QED
    BY <2>1, <2>2 DEF Holds
<1>5. CASE ~(w < P)
  <2>1. w \in P .. P + C - 1
    BY <1>0, <1>1, <1>2, <1>5
  <2>2. PICK y \in Words : y = w % FSBLOCK_SIZE
    BY <1>3, WordFacts
  <2>3. w \div FSBLOCK_SIZE = k /\ y \in Q .. Q + C - 1
    BY <1>2, <1>3, <2>1, <2>2, InChunk, NoInodeFacts
  <2>4. w = FSBLOCK_SIZE * k + y
    BY <1>3, <2>2, <2>3, WordSplit
  <2>5. d2[B][y] = words2[w]
    BY <2>3, <2>4 DEF Round
  <2>6. BlockAt(d2, f, k) = B
    BY <1>2, RoundFinds
  <2>7. QED
    BY <1>2, <2>2, <2>3, <2>5, <2>6 DEF Has
<1>6. QED
  BY <1>4, <1>5

LEMMA WriteBlockDur ==
    ASSUME NEW L, L \subseteq Inums, Reliable, CoreInv(L), DurInv(L), write_block
    PROVE  DurInv(L)'
<1>1. pc = "data" /\ UNCHANGED inode_table /\ pc \in WriteSteps /\ pc # "update"
  BY DEF write_block, WriteSteps, inodeVars
<1>2. PICK S, B, N, f, P, k : /\ S = op.slot /\ B = op.block /\ N = inode_table[op.slot].number
                              /\ f = inode.addrs /\ P = pos /\ k = logical
  OBVIOUS
<1>3. PICK d, t, rep, d2, rep2 : /\ d = disk /\ t = inode_table /\ rep = reported
                                 /\ d2 = disk' /\ rep2 = reported'
  OBVIOUS
<1>4. Sound(L, d, t, rep) /\ view = disk /\ Writing(L, d, t, rep, S, N, f, P)
  BY <1>1, <1>2, <1>3, DurFacts, WritingNow
<1>5. PICK O, D, V, Q, C : /\ O = op.offset /\ D = op.done /\ V = op.value
                           /\ Q = in_block /\ C = chunk
  OBVIOUS
<1>6. /\ B \in DataBlocks /\ \A n : ~Refers(L, d, d, t, B, n, NDIRECT)
      /\ O + op.count <= MaxBytes /\ D < op.count
      /\ k \in 0 .. MAXFILE - 1 /\ Q \in Words
  BY <1>1, <1>2, <1>3, <1>4, <1>5, OpFacts DEF CoreInv, OpInv
<1>7. O \in Nat /\ op.count \in Nat /\ D \in Nat /\ V \in Nat /\ MaxBytes \in Nat /\ op \in OpType
  BY <1>5, TypeParts, NoInodeFacts, Naturals DEF CoreInv, OpType
<1>8. /\ C \in Nat /\ C <= op.count - D /\ P = O + D /\ P \in Nat /\ P + C <= MaxBytes
      /\ Q \in Nat /\ Q + C <= FSBLOCK_SIZE
  <2>1. Q \in Nat /\ Q < FSBLOCK_SIZE /\ FSBLOCK_SIZE \in Nat
    BY <1>6, Naturals DEF Words
  <2>2. P = O + D
    BY <1>2, <1>5 DEF pos
  <2>3. C = (IF op.count - D < FSBLOCK_SIZE - Q THEN op.count - D ELSE FSBLOCK_SIZE - Q)
    BY <1>5 DEF chunk, left
  <2>4. C \in Nat /\ C <= op.count - D /\ Q + C <= FSBLOCK_SIZE
    BY <1>6, <1>7, <2>1, <2>3
  <2>5. QED
    BY <1>6, <1>7, <2>1, <2>2, <2>4
<1>9. P = FSBLOCK_SIZE * k + Q
  <2>1. P \in Nat /\ FSBLOCK_SIZE \in Nat /\ FSBLOCK_SIZE > 0
    BY <1>8, Naturals
  <2>2. k = P \div FSBLOCK_SIZE /\ Q = P % FSBLOCK_SIZE
    BY <1>2, <1>5 DEF logical, containing, in_block
  <2>3. P = FSBLOCK_SIZE * (P \div FSBLOCK_SIZE) + (P % FSBLOCK_SIZE)
    BY <2>1
  <2>4. QED
    BY <2>2, <2>3
<1>10. B = BlockAt(d, f, k) /\ B # 0
  BY <1>1, <1>2, <1>3, <1>6, LayoutFacts DEF DurInv, WriteInv
<1>11. PICK x : x = [w \in Words |-> IF w \in Q .. Q + C - 1 THEN V + D + (w - Q) ELSE view[B][w]]
  OBVIOUS
<1>12. PICK words2 : words2 = [w \in 0 .. MaxBytes - 1 |-> IF w \in P .. P + C - 1 THEN V + (w - O)
                                                           ELSE reported[N].words[w]]
  OBVIOUS
<1>13. PICK o \in Outcomes("run") :
         /\ put(B, x, o)
         /\ IF o = "written"
            THEN /\ op' = [op EXCEPT !.done = @ + chunk]
                 /\ pc' = IF chunk < left THEN "map" ELSE "update"
                 /\ reported' = [reported EXCEPT ![N].words = words2]
            ELSE pc' = "update" /\ UNCHANGED <<op, reported>>
  BY <1>2, <1>5, <1>11, <1>12 DEF write_block
<1>14. /\ view' = disk'
       /\ \/ o = "written" /\ d2 = [d EXCEPT ![B] = x]
          \/ o # "written" /\ d2 = d
  BY <1>3, <1>4, <1>13, PutBoth
<1>15. CASE o # "written"
  <2>1. UNCHANGED <<disk, op, reported>> /\ pc' = "update"
    BY <1>3, <1>13, <1>14, <1>15
  <2>2. pos' = pos /\ logical' = logical /\ inode' = inode
    BY <1>1, <2>1, SamePlace
  <2>3. WriteInv'
    BY <1>1, <2>1, <2>2 DEF DurInv, WriteInv
  <2>4. FreshInv'
    BY <1>1, <2>1, FreshKept DEF DurInv, FormatSteps
  <2>5. QED
    BY <1>1, <1>14, <2>1, <2>3, <2>4 DEF DurInv
<1>16. CASE o = "written"
  <2>1. /\ d2[B] = x /\ \A c \in Blocks : c # B => d2[c] = d[c]
    BY <1>4, <1>6, <1>14, <1>16, LayoutFacts DEF Sound, Stores, StoreOK
  <2>2. d2[INODES] = d[INODES] /\ d2[SUPER] = d[SUPER]
    BY <1>6, <2>1, LayoutFacts
  <2>3. ASSUME NEW w \in Words
        PROVE  d2[B][w] = IF w \in Q .. Q + C - 1 THEN words2[FSBLOCK_SIZE * k + w] ELSE d[B][w]
    <3>1. PICK m \in Nat : m = FSBLOCK_SIZE * k
      BY <1>6, Naturals, NoInodeFacts
    <3>2. x[w] = IF w \in Q .. Q + C - 1 THEN V + D + (w - Q) ELSE d[B][w]
      BY <1>3, <1>4, <1>11
    <3>3. ASSUME w \in Q .. Q + C - 1
          PROVE  words2[m + w] = V + D + (w - Q)
      <4>1. w \in Nat /\ P = m + Q
        BY <1>8, <1>9, <3>1, <3>3
      <4>2. m + w \in P .. P + C - 1 /\ m + w \in 0 .. MaxBytes - 1
        BY <1>7, <1>8, <3>3, <4>1
      <4>3. words2[m + w] = V + ((m + w) - O)
        BY <1>12, <4>2
      <4>4. QED
        BY <1>7, <1>8, <4>1, <4>3
    <3>4. QED
      BY <2>1, <3>1, <3>2, <3>3
  <2>4. PICK words : words = rep[N].words
    OBVIOUS
  <2>5. Round(L, d, t, d2, words, words2, N, f, k, B, P, Q, C)
    <3>1. \A c \in DataBlocks : c # B => d2[c] = d[c]
      BY <2>1, LayoutFacts
    <3>2. \A w \in 0 .. MaxBytes - 1 : w \notin P .. P + C - 1 => words2[w] = words[w]
      BY <1>3, <1>12, <2>4
    <3>3. Once(L, d, d, t) /\ N \in L /\ f \in AddrsOf(d, d, t, N)
      BY <1>4 DEF Sound, Writing
    <3>4. QED
      BY <1>6, <1>8, <1>9, <1>10, <2>3, <3>1, <3>2, <3>3 DEF Round
  <2>6. rep \in ReportType /\ N \in Inums
    BY <1>4 DEF Sound, Writing
  <2>7. /\ \A n \in Inums : rep2[n].size = rep[n].size
        /\ rep2[N].words = words2
        /\ \A n \in Inums : n # N => rep2[n] = rep[n]
    <3>1. rep2 = [rep EXCEPT ![N].words = words2]
      BY <1>3, <1>13, <1>16
    <3>2. QED
      BY <2>6, <3>1 DEF ReportType
  <2>8. ASSUME NEW n \in L, NEW g \in AddrsOf(d, d, t, n), NEW z \in 0 .. MaxBytes,
               n = N => More(g, f), Holds(d, g, z, rep[n].words)
        PROVE  Holds(d2, g, z, rep2[n].words)
    <3>1. PICK ws, ws2 : ws = rep[n].words /\ ws2 = rep2[n].words
      OBVIOUS
    <3>2. IF n = N THEN More(g, f) /\ ws = words /\ ws2 = words2 ELSE ws2 = ws
      BY <2>4, <2>7, <2>8, <3>1
    <3>3. QED
      BY <2>5, <2>8, <3>1, <3>2, RoundFile
  <2>9. FilesOK(L, d2, t, rep2)
    <3>0. FilesOK(L, d, t, rep)
      BY <1>4 DEF Sound
    <3>1. ASSUME NEW n \in L
          PROVE  NodeOK(d2, d2[INODES][n], rep2[n])
      <4>1. PICK g, z : g = d[INODES][n].addrs /\ z = rep[n].size
        OBVIOUS
      <4>2. g \in AddrsOf(d, d, t, n) /\ z \in 0 .. MaxBytes
        BY <2>6, <4>1 DEF AddrsOf, ReportType
      <4>3. n = N => More(g, f)
        BY <1>4, <3>0, <4>1 DEF Writing, FilesOK, HeldOK
      <4>4. NodeOK(d, d[INODES][n], rep[n])
        BY <3>0 DEF FilesOK
      <4>5. Holds(d, g, z, rep[n].words)
        BY <4>1, <4>4 DEF NodeOK
      <4>6. Holds(d2, g, z, rep2[n].words)
        BY <2>8, <4>2, <4>3, <4>5
      <4>7. QED
        BY <2>2, <2>7, <4>1, <4>4, <4>6 DEF NodeOK
    <3>2. ASSUME NEW s \in Slots, t[s].refcnt > 0, t[s].number \in L
          PROVE  HeldOK(d2, d2[INODES][t[s].number], t[s].disk, rep2[t[s].number])
      <4>1. PICK n, g, z : n = t[s].number /\ g = t[s].disk.addrs /\ z = t[s].disk.size
        OBVIOUS
      <4>2. t \in TableType /\ n \in L
        BY <1>4, <3>2, <4>1 DEF Sound, Numbered
      <4>3. g \in AddrsOf(d, d, t, n)
        BY <3>2, <4>1, SlotAddrs
      <4>4. z \in 0 .. MaxBytes
        BY <4>1, <4>2 DEF TableType, InodeType
      <4>5. n = N => More(g, f)
        <5>1. n = N => s = S
          BY <1>4, <3>2, <4>1 DEF Writing, Sound
        <5>2. QED
          BY <1>4, <4>1, <5>1, MoreSame DEF Writing
      <4>6. HeldOK(d, d[INODES][n], t[s].disk, rep[n])
        BY <3>0, <3>2, <4>1 DEF FilesOK
      <4>7. Holds(d, g, z, rep[n].words)
        BY <4>1, <4>6 DEF HeldOK
      <4>8. Holds(d2, g, z, rep2[n].words)
        BY <2>8, <4>2, <4>3, <4>4, <4>5, <4>7
      <4>9. QED
        BY <2>2, <4>1, <4>6, <4>8 DEF HeldOK
    <3>3. QED
      BY <3>1, <3>2 DEF FilesOK
  <2>10. Holds(d2, f, P + C, words2)
    BY <1>4, <1>8, <2>4, <2>5, RoundNew DEF Writing
  <2>11. op'.slot = op.slot /\ op'.offset = O /\ op'.done = D + C
    <3>1. op' = [op EXCEPT !.done = @ + chunk]
      BY <1>13, <1>16
    <3>2. QED
      BY <1>5, <1>7, <3>1 DEF OpType
  <2>12. pos' = P + C /\ inode' = inode
    BY <1>1, <1>7, <1>8, <2>11 DEF pos, inode
  <2>13. pc' \in {"map", "update"}
    BY <1>13, <1>16
  <2>14. WriteInv'
    <3>1. inode'.addrs = f /\ inode_table'[op'.slot].number = N /\ reported'[N].words = words2 /\ disk' = d2
      BY <1>1, <1>2, <1>3, <2>7, <2>11, <2>12
    <3>2. QED
      BY <2>10, <2>12, <2>13, <3>1 DEF WriteInv
  <2>15. FreshInv'
    BY <1>1, <1>3, <2>2, <2>7, <2>13, FreshKept DEF DurInv, FormatSteps
  <2>16. QED
    BY <1>1, <1>3, <1>14, <2>9, <2>14, <2>15 DEF DurInv
<1>17. QED
  BY <1>15, <1>16

LEMMA UpdateInodeDur ==
    ASSUME NEW L, L \subseteq Inums, Reliable, CoreInv(L), DurInv(L), update_inode
    PROVE  DurInv(L)'
<1>1. pc = "update" /\ pc' = "idle" /\ pc \in WriteSteps
  BY DEF update_inode, WriteSteps
<1>2. PICK S, N, f, P, size : /\ S = op.slot /\ N = inode_table[op.slot].number /\ f = inode.addrs
                              /\ P = pos /\ size = (IF pos > inode.size THEN pos ELSE inode.size)
  OBVIOUS
<1>3. PICK d, t, rep, d2, t2, rep2 : /\ d = disk /\ t = inode_table /\ rep = reported
                                     /\ d2 = disk' /\ t2 = inode_table' /\ rep2 = reported'
  OBVIOUS
<1>4. Sound(L, d, t, rep) /\ view = disk /\ Writing(L, d, t, rep, S, N, f, P)
  BY <1>1, <1>2, <1>3, DurFacts, WritingNow
<1>5. PICK final : final = [inode EXCEPT !.size = size]
  OBVIOUS
<1>6. /\ inode \in InodeType /\ inode = t[S].disk /\ S \in Slots /\ t[S].refcnt > 0 /\ N \in L
      /\ t \in TableType /\ rep \in ReportType /\ FilesOK(L, d, t, rep) /\ P \in 0 .. MaxBytes /\ N = t[S].number
  BY <1>1, <1>2, <1>3, <1>4, OpFacts DEF inode, Writing, Sound, Stores
<1>7. size \in 0 .. MaxBytes /\ size \in {P, inode.size}
  BY <1>2, <1>6 DEF InodeType
<1>8. final \in InodeType /\ final.addrs = f /\ final.size = size /\ final.type = inode.type
  BY <1>2, <1>5, <1>6, <1>7 DEF InodeType
<1>9. PICK x : x = [view[INODES] EXCEPT ![N] = final]
  OBVIOUS
<1>10. PICK o \in Outcomes("run") :
         /\ put(INODES, x, o)
         /\ rep2 = IF o = "written" THEN [rep EXCEPT ![N].size = size] ELSE rep
  BY <1>2, <1>3, <1>5, <1>9 DEF update_inode
<1>11. /\ x \in [Inums -> InodeType] /\ x[N] = final
       /\ \A m \in Inums : m # N => x[m] = d[INODES][m]
  BY <1>3, <1>4, <1>6, <1>8, <1>9 DEF Sound, Stores, StoreOK
<1>12. BlockOK(INODES, x)
  BY <1>11, LayoutFacts DEF BlockOK
<1>13. /\ view' = disk' /\ MaybePut(d, INODES, x, d2)
       /\ \/ o = "written" /\ d2 = [d EXCEPT ![INODES] = x]
          \/ o # "written" /\ d2 = d
  BY <1>3, <1>4, <1>10, PutBoth DEF MaybePut
<1>14. AllKept(L, d, t, d2)
  BY <1>4, <1>12, <1>13, PutKept, LayoutFacts DEF Sound
<1>15. WordsOK(L, d2, d[INODES], t, rep)
  BY <1>4, <1>14, WordsKept DEF Sound
<1>16. /\ o = "written" => d2[INODES] = x
       /\ d2[SUPER] = d[SUPER]
  BY <1>4, <1>12, <1>13, PutStore, LayoutFacts DEF Sound, Stores
<1>17. t2 = [t EXCEPT ![S].disk = final]
  BY <1>2, <1>3, <1>5 DEF update_inode
<1>18. /\ \A s \in Slots : t2[s].refcnt = t[s].refcnt /\ t2[s].number = t[s].number
       /\ \A s \in Slots : s # S => t2[s] = t[s]
       /\ t2[S].disk = final
  BY <1>6, <1>8, <1>17 DEF TableType
<1>19. Holds(d2, f, size, rep[N].words)
  <2>1. Holds(d2, f, P, rep[N].words)
    BY <1>4, <1>14, HoldsKept DEF Writing, AllKept
  <2>2. Holds(d2, f, inode.size, rep[N].words)
    BY <1>2, <1>6, <1>15 DEF WordsOK
  <2>3. QED
    BY <1>7, <2>1, <2>2
<1>20. /\ final.type # "kUnused" /\ More(d[INODES][N].addrs, f)
       /\ d[INODES][N].type # "kUnused"
  BY <1>2, <1>6, <1>8 DEF FilesOK, HeldOK
<1>21. \A n \in Inums : /\ rep2[n].words = rep[n].words
                        /\ n # N \/ o # "written" => rep2[n].size = rep[n].size
  BY <1>6, <1>10 DEF ReportType
<1>22. o = "written" => rep2[N].size = size
  BY <1>6, <1>7, <1>10 DEF ReportType
<1>23. ASSUME NEW n \in L
       PROVE  NodeOK(d2, d2[INODES][n], rep2[n])
  <2>1. CASE n = N /\ o = "written"
    BY <1>8, <1>11, <1>16, <1>19, <1>20, <1>21, <1>22, <2>1 DEF NodeOK
  <2>2. CASE n # N \/ o # "written"
    <3>1. d2[INODES][n] = d[INODES][n]
      BY <1>11, <1>13, <1>16, <2>2
    <3>2. NodeOK(d, d[INODES][n], rep[n])
      BY <1>6 DEF FilesOK
    <3>3. Holds(d2, d[INODES][n].addrs, rep[n].size, rep[n].words)
      BY <1>15 DEF WordsOK
    <3>4. rep2[n].size = rep[n].size /\ rep2[n].words = rep[n].words
      BY <1>21, <2>2
    <3>5. QED
      BY <3>1, <3>2, <3>3, <3>4 DEF NodeOK
  <2>3. QED
    BY <2>1, <2>2
<1>24. ASSUME NEW s \in Slots, t2[s].refcnt > 0, t2[s].number \in L
       PROVE  HeldOK(d2, d2[INODES][t2[s].number], t2[s].disk, rep2[t2[s].number])
  <2>1. CASE s = S
    <3>1. More(d2[INODES][N].addrs, f)
      BY <1>8, <1>11, <1>13, <1>16, <1>20, MoreSame
    <3>2. Holds(d2, f, size, rep2[N].words)
      BY <1>6, <1>19, <1>21
    <3>3. d2[INODES][N].type # "kUnused"
      BY <1>11, <1>13, <1>16, <1>20
    <3>4. HeldOK(d2, d2[INODES][N], final, rep2[N])
      BY <1>8, <1>20, <3>1, <3>2, <3>3 DEF HeldOK
    <3>5. QED
      BY <1>6, <1>18, <2>1, <3>4
  <2>2. CASE s # S
    <3>1. PICK n : n = t[s].number
      OBVIOUS
    <3>2. t[s].refcnt > 0 /\ t2[s] = t[s] /\ n \in L
      BY <1>4, <1>18, <1>24, <2>2, <3>1 DEF Sound, Numbered
    <3>3. n # N
      BY <1>4, <1>6, <2>2, <3>1, <3>2 DEF Sound
    <3>4. d2[INODES][n] = d[INODES][n] /\ rep2[n].words = rep[n].words
      BY <1>11, <1>13, <1>16, <1>21, <3>2, <3>3
    <3>5. HeldOK(d, d[INODES][n], t[s].disk, rep[n])
      BY <1>6, <3>1, <3>2 DEF FilesOK
    <3>6. Holds(d2, t[s].disk.addrs, t[s].disk.size, rep[n].words)
      BY <1>15, <3>1, <3>2 DEF WordsOK
    <3>7. HeldOK(d2, d2[INODES][n], t[s].disk, rep2[n])
      BY <3>4, <3>5, <3>6 DEF HeldOK
    <3>8. QED
      BY <3>1, <3>2, <3>7
  <2>3. QED
    BY <2>1, <2>2
<1>25. FilesOK(L, d2, t2, rep2)
  BY <1>23, <1>24 DEF FilesOK
<1>26. WriteInv'
  BY <1>1, NoWrite DEF WriteSteps
<1>27. FreshInv'
  <2>1. disk[SUPER]
    BY <1>1 DEF DurInv, FreshInv
  <2>2. disk'[SUPER]
    BY <1>3, <1>16, <2>1
  <2>3. QED
    BY <1>1, <2>2 DEF FreshInv, FormatSteps, RootSteps
<1>28. QED
  BY <1>3, <1>13, <1>25, <1>26, <1>27 DEF DurInv

LEMMA InitDur ==
    ASSUME NEW L, L \subseteq Inums, Init
    PROVE  DurInv(L)
<1>1. /\ disk = Blank /\ view = Blank /\ inode_table = [s \in Slots |-> EmptySlot]
      /\ pc = "mount" /\ reported = [n \in Inums |-> NoFile]
  BY DEF Init
<1>2. \A n \in Inums : reported[n].size = 0
  BY <1>1 DEF NoFile
<1>3. \A n \in Inums : disk[INODES][n].size = 0
  <2>1. disk[INODES] = [n \in Inums |-> NoInode]
    BY <1>1, LayoutFacts DEF Blank
  <2>2. QED
    BY <2>1 DEF NoInode
<1>4. \A s \in Slots : inode_table[s].refcnt = 0
  BY <1>1 DEF EmptySlot
<1>5. FilesOK(L, disk, inode_table, reported)
  BY <1>2, <1>3, <1>4, EmptyOK DEF FilesOK
<1>6. WriteInv
  BY <1>1 DEF WriteInv, WriteSteps
<1>7. FreshInv
  BY <1>1, <1>2 DEF FreshInv, FormatSteps, RootSteps, WriteSteps, CleanSteps, NoFiles
<1>8. QED
  BY <1>1, <1>5, <1>6, <1>7 DEF DurInv

LEMMA StutterDur ==
    ASSUME NEW L, L \subseteq Inums, DurInv(L),
           UNCHANGED <<disk, view, inode_table, pc, op, reported>>
    PROVE  DurInv(L)'
<1>1. UNCHANGED <<disk, view, inode_table, pc, op, reported>>
  OBVIOUS
<1>2. pos' = pos /\ logical' = logical /\ inode' = inode
  BY <1>1, SamePlace
<1>3. WriteInv'
  BY <1>1, <1>2 DEF DurInv, WriteInv
<1>4. FreshInv'
  BY <1>1 DEF DurInv, FreshInv, NoFiles
<1>5. QED
  BY <1>1, <1>3, <1>4 DEF DurInv

\* read_data() of a whole file gives the words the file holds.
LEMMA ReadsWhole ==
    ASSUME NEW d, NEW node, NEW words, node.size \in 0 .. MaxBytes,
           Holds(d, node.addrs, node.size, words)
    PROVE  read_data(d, node, 0, MaxBytes) =
               [ok |-> TRUE, data |-> [w \in 0 .. node.size - 1 |-> words[w]]]
<1>1. PICK z : z = node.size
  OBVIOUS
<1>2. z \in Nat /\ z <= MaxBytes /\ MaxBytes \in Nat
  BY <1>1, NoInodeFacts
<1>3. ASSUME NEW w \in 0 .. z - 1
      PROVE  /\ find_block(d, node, containing(0 + w)) # 0
             /\ d[find_block(d, node, containing(0 + w))][(0 + w) % FSBLOCK_SIZE] = words[w]
  <2>1. 0 + w = w
    BY <1>2
  <2>2. find_block(d, node, containing(w)) = BlockAt(d, node.addrs, w \div FSBLOCK_SIZE)
    BY FindIs DEF containing
  <2>3. Has(d, node.addrs, w, words[w])
    BY <1>1 DEF Holds
  <2>4. QED
    BY <2>1, <2>2, <2>3 DEF Has
<1>4. (IF MaxBytes > node.size - 0 THEN node.size - 0 ELSE MaxBytes) = z
  BY <1>1, <1>2
<1>5. ~(0 > node.size)
  BY <1>1, <1>2
<1>6. [k \in 0 .. z - 1 |-> d[find_block(d, node, containing(0 + k))][(0 + k) % FSBLOCK_SIZE]]
        = [w \in 0 .. z - 1 |-> words[w]]
  BY <1>3
<1>7. QED
  BY <1>1, <1>3, <1>4, <1>5, <1>6 DEF read_data

LEMMA CoreStepDur ==
    ASSUME NEW L, L = Live, Reliable, CoreInv(L), DurInv(L), CoreStep
    PROVE  DurInv(L)'
<1>1. L \subseteq Inums
  BY DEF Live
<1>2. CASE mount \/ reload
  BY <1>1, <1>2, MountDur
<1>3. CASE format
  BY <1>1, <1>3, FormatZeroDur, FormatMarkDur, FormatSuperDur, RootAllocDur, RootZeroDur,
     RootDotDur, RootDotDotDur, RootInodeDur, MountDur DEF format
<1>4. CASE write_step
  BY <1>1, <1>4, MapBlockDur, AllocateBlockDur, ZeroBlockDur, WriteTableDur, WriteBlockDur,
     UpdateInodeDur DEF write_step
<1>5. CASE \E r \in Refs : put_inode(r)
  BY <1>1, <1>5, PutInodeDur
<1>6. ASSUME NEW r \in Refs, NEW n \in Inums, get_inode(r, n)
      PROVE  DurInv(L)'
  <2>1. n \in L
    BY <1>6 DEF get_inode, Live
  <2>2. QED
    BY <1>1, <1>6, <2>1, GetInodeDur
<1>7. CASE \E r \in Refs : \E offset \in 0 .. MaxBytes, count \in Counts, v \in Values :
               write_data(r, offset, count, v)
  BY <1>1, <1>7, WriteDataDur
<1>8. QED
  BY <1>2, <1>3, <1>4, <1>5, <1>6, <1>7 DEF CoreStep

\* The files that are not being released.
LiveDur == DurInv(Live)

LEMMA FsStepDur ==
    ASSUME Reliable, FsInv, LiveDur, [Next]_vars
    PROVE  LiveDur'
<1>1. PICK L, M : L = Live /\ M = Live'
  OBVIOUS
<1>2. DurInv(L) /\ L \subseteq Inums
  BY <1>1 DEF LiveDur, Live
<1>3. SUFFICES DurInv(M)'
  BY <1>1 DEF LiveDur, DurInv
<1>4. CASE CoreStep
  <2>1. UNCHANGED <<cleanup, released>> /\ pc \notin CleanSteps
    BY <1>4, CoreStepFrame DEF FsInv
  <2>2. CoreInv(L) /\ M = L
    BY <1>1, <2>1 DEF FsInv, Live
  <2>3. DurInv(L)'
    BY <1>1, <1>2, <1>4, <2>2, CoreStepDur
  <2>4. QED
    BY <2>2, <2>3
<1>5. CASE \E r \in Refs : allocate_inode(r)
  <2>1. CoreInv(L)
    BY <1>1, <1>5 DEF FsInv, allocate_inode, CleanSteps
  <2>2. QED
    BY <1>1, <1>2, <1>5, <2>1, AllocateInodeDur
<1>6. CASE crash
  <2>1. M = L
    BY <1>1, <1>6 DEF crash, Live
  <2>2. DurInv(L)'
    BY <1>2, <1>6, CrashDur
  <2>3. QED
    BY <2>1, <2>2
<1>7. CASE \E b \in Blocks : recycle(b)
  BY <1>2, <1>7 DEF recycle, DurInv
<1>8. CASE \E n \in Inums : release_file(n)
  BY <1>1, <1>2, <1>8, ReleaseDur DEF release_file
<1>9. CASE \E r \in Refs : release_held(r)
  BY <1>1, <1>2, <1>9, ReleaseDur DEF release_held
<1>10. CASE free_next
  <2>1. M = L
    BY <1>1, <1>10 DEF free_next, Live
  <2>2. DurInv(L)'
    BY <1>1, <1>2, <1>10, FreeNextDur
  <2>3. QED
    BY <2>1, <2>2
<1>11. CASE clear_inode
  BY <1>1, <1>2, <1>11, ClearInodeDur
<1>12. CASE UNCHANGED vars
  <2>1. UNCHANGED <<disk, view, inode_table, pc, op, reported, released>>
    BY <1>12 DEF vars, storeVars, inodeVars, cleanVars
  <2>2. M = L
    BY <1>1, <2>1 DEF Live
  <2>3. DurInv(L)'
    BY <1>2, <2>1, StutterDur
  <2>4. QED
    BY <2>2, <2>3
<1>13. QED
  BY <1>4, <1>5, <1>6, <1>7, <1>8, <1>9, <1>10, <1>11, <1>12 DEF Next, CoreStep

\* The inductive invariant of the contents, with the one of the layout: while the device writes what
\* it is given, the cache is the device, every file whose release has not begun has the words that
\* were reported of it, on the device and through its slot, and write_data() the words it has
\* written so far.
THEOREM FilesInvariant == Reliable /\ Spec => [](FsInv /\ LiveDur)
<1>0. SUFFICES ASSUME Reliable
               PROVE  Spec => [](FsInv /\ LiveDur)
  OBVIOUS
<1>1. Init => LiveDur
  <2>1. SUFFICES ASSUME Init
                 PROVE  LiveDur
    OBVIOUS
  <2>2. PICK L : L = Live
    OBVIOUS
  <2>3. DurInv(L)
    BY <2>1, <2>2, InitDur DEF Live
  <2>4. QED
    BY <2>2, <2>3 DEF LiveDur, DurInv
<1>2. FsInv /\ LiveDur /\ [Next]_vars => LiveDur'
  BY <1>0, FsStepDur
<1>3. FormatsOnce
  BY <1>0 DEF Reliable, FormatsOnce
<1>4. Spec => []FsInv
  BY <1>3, FileSystemInvariant, PTL
<1>5. QED
  BY <1>1, <1>2, <1>4, PTL DEF Spec

\* write_data(): whatever read fails and wherever the power goes, format() included, the device has
\* in every state the size that the last call to return a count left of each file, and all the words
\* written below that size, also while other files are released, however that ends.
THEOREM WritesAreDurable == Reliable /\ Spec => []Durable
<1>1. FsInv /\ LiveDur => Durable
  <2>1. SUFFICES ASSUME FsInv, LiveDur, NEW n \in Live
                 PROVE  /\ disk[INODES][n].size = reported[n].size
                        /\ read_data(disk, disk[INODES][n], 0, MaxBytes)
                               = Contents(n, disk[INODES][n].size)
    BY DEF Durable
  <2>2. PICK d, node, words : d = disk /\ node = disk[INODES][n] /\ words = reported[n].words
    OBVIOUS
  <2>3. node \in InodeType
    BY <2>1, <2>2 DEF FsInv, TypeOK, StoreOK, Live
  <2>4. node.size = reported[n].size /\ Holds(d, node.addrs, node.size, words)
    BY <2>1, <2>2 DEF LiveDur, DurInv, FilesOK, NodeOK
  <2>5. read_data(d, node, 0, MaxBytes) =
            [ok |-> TRUE, data |-> [w \in 0 .. node.size - 1 |-> words[w]]]
    <3>1. node.size \in 0 .. MaxBytes
      BY <2>3 DEF InodeType
    <3>2. Holds(d, node.addrs, node.size, words)
      BY <2>4
    <3>3. QED
      BY <3>1, <3>2, ReadsWhole
  <2>6. QED
    BY <2>2, <2>4, <2>5 DEF Contents
<1>2. QED
  BY <1>1, FilesInvariant, PTL

\* read_data(): between calls every holder of an inode reads what was written through any of its
\* holders, across block boundaries and through the indirect block.
THEOREM ReadsWhatWasWritten == Reliable /\ Spec => []ReadsBack
<1>1. FsInv /\ LiveDur => ReadsBack
  <2>1. SUFFICES ASSUME FsInv, LiveDur, pc = "idle", NEW s \in Slots, inode_table[s].refcnt > 0
                 PROVE  read_data(view, inode_table[s].disk, 0, MaxBytes)
                            = Contents(inode_table[s].number, inode_table[s].disk.size)
    BY DEF ReadsBack
  <2>2. PICK d, node, n, words : /\ d = view /\ node = inode_table[s].disk /\ n = inode_table[s].number
                                 /\ words = reported[n].words
    OBVIOUS
  <2>3. node \in InodeType /\ d = disk
    BY <2>1, <2>2 DEF FsInv, LiveDur, DurInv, TypeOK
  <2>4. Holds(d, node.addrs, node.size, words)
    <3>1. CoreInv(Live)
      BY <2>1 DEF FsInv, CleanSteps
    <3>2. n \in Live
      BY <2>1, <2>2, <3>1 DEF CoreInv, SlotInv
    <3>3. QED
      BY <2>1, <2>2, <2>3, <3>2 DEF LiveDur, DurInv, FilesOK, HeldOK
  <2>5. read_data(d, node, 0, MaxBytes) =
            [ok |-> TRUE, data |-> [w \in 0 .. node.size - 1 |-> words[w]]]
    <3>1. node.size \in 0 .. MaxBytes
      BY <2>3 DEF InodeType
    <3>2. Holds(d, node.addrs, node.size, words)
      BY <2>4
    <3>3. QED
      BY <3>1, <3>2, ReadsWhole
  <2>6. QED
    BY <2>2, <2>5 DEF Contents
<1>2. QED
  BY <1>1, FilesInvariant, PTL
=============================================================================
