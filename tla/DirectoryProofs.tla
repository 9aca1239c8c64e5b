-------------------------- MODULE DirectoryProofs --------------------------
(***************************************************************************)
(* Proofs about module Directory, for every size of names, directories,    *)
(* blocks and of the inode table, and for every set of paths and links.    *)
(***************************************************************************)
EXTENDS Directory, FiniteSetTheorems, WellFoundedInduction, TLAPS

-----------------------------------------------------------------------------
(* Scans *)

\* A scan of an array in index order ends at an element, the first one.
LEMMA MinIsFirst ==
    ASSUME NEW S, S \subseteq Nat, S # {}
    PROVE  Min(S) \in S /\ \A j \in S : Min(S) <= j
<1> DEFINE Less == OpToRel(<, Nat)
<1>1. PICK x \in S : \A y \in S : ~ (<<y, x>> \in Less)
  BY NatLessThanWellFounded, WFMin
<1>2. \A y \in S : x <= y
  <2>1. SUFFICES ASSUME NEW y \in S, ~ (x <= y)
                 PROVE  FALSE
    OBVIOUS
  <2>2. <<y, x>> \in Less
    BY <2>1 DEF OpToRel
  <2>3. QED
    BY <1>1, <2>2
<1>3. QED
  BY <1>2 DEF Min

\* Slots are numbers and none of them is the null pointer.
LEMMA SlotFacts == Slots \subseteq Nat /\ NoSlot \notin Slots
BY DirectoryConstants DEF Slots, NoSlot

\* A directory's size is at most the number of its entries.
LEMMA EntryFacts ==
    /\ MaxEntries \in Nat /\ Entries \subseteq Nat
    /\ \A size \in 0 .. MaxEntries : 0 .. size - 1 \subseteq Entries
<1>1. MaxEntries \in Nat
  BY DirectoryConstants
<1>2. QED
  BY <1>1 DEF Entries

-----------------------------------------------------------------------------
(* The inode table *)

\* An inode has at most one slot, and a slot in use holds an inode.
GoodTable(t) ==
    /\ t \in TableType
    /\ \A s, u \in Slots : t[s].refcnt > 0 /\ t[u].refcnt > 0 /\ t[s].number = t[u].number => s = u
    /\ \A s \in Slots : t[s].refcnt > 0 => t[s].number \in Inums

\* The table u has one reference more than t, to the slot s, if there is one.
OneMore(t, u, s) == \A x \in Slots : u[x].refcnt = t[x].refcnt + IF x = s THEN 1 ELSE 0

\* The slots that are in use in t hold the same inodes in u, and the others what the cache shows.
KeepsInodes(t, u) ==
    \A x \in Slots :
        /\ t[x].refcnt > 0 => u[x].number = t[x].number /\ u[x].size = t[x].size
        /\ t[x].refcnt = 0 /\ u[x].refcnt > 0 => u[x].size = view.size[u[x].number]

\* get_inode() comes back with one more reference, or with none when the table is full.
LEMMA GetInode ==
    ASSUME view \in StoreType, NEW t, GoodTable(t), NEW n \in Inums, NEW g, g = get_inode(t, n)
    PROVE  \/ g = got(t, NoSlot)
           \/ /\ g.slot \in Slots /\ g = got(g.table, g.slot)
              /\ GoodTable(g.table) /\ OneMore(t, g.table, g.slot) /\ KeepsInodes(t, g.table)
<1>1. CASE Held(t, n) # {}
  <2>1. PICK s : s = Min(Held(t, n))
    OBVIOUS
  <2>2. Held(t, n) \subseteq Nat
    BY SlotFacts DEF Held
  <2>3. s \in Slots /\ t[s].refcnt > 0 /\ t[s].number = n
    BY <1>1, <2>1, <2>2, MinIsFirst DEF Held
  <2>4. PICK u : u = [t EXCEPT ![s].refcnt = @ + 1]
    OBVIOUS
  <2>5. g = got(u, s)
    BY <1>1, <2>1, <2>4 DEF get_inode
  <2>6. /\ u \in TableType /\ u[s].refcnt = t[s].refcnt + 1
        /\ \A x \in Slots : u[x].number = t[x].number /\ u[x].size = t[x].size
        /\ \A x \in Slots : x # s => u[x] = t[x]
    BY <2>3, <2>4 DEF GoodTable, TableType
  <2>7. OneMore(t, u, s) /\ KeepsInodes(t, u)
    BY <2>6, <2>3 DEF OneMore, KeepsInodes, GoodTable, TableType
  <2>8. GoodTable(u)
    BY <2>3, <2>6 DEF GoodTable
  <2>9. QED
    BY <2>3, <2>5, <2>7, <2>8 DEF got
<1>2. CASE Held(t, n) = {} /\ Unused(t) # {}
  <2>1. PICK s : s = Min(Unused(t))
    OBVIOUS
  <2>2. Unused(t) \subseteq Nat
    BY SlotFacts DEF Unused
  <2>3. s \in Slots /\ t[s].refcnt = 0
    BY <1>2, <2>1, <2>2, MinIsFirst DEF Unused
  <2>4. PICK u : u = [t EXCEPT ![s] = [number |-> n, refcnt |-> 1, size |-> view.size[n]]]
    OBVIOUS
  <2>5. g = got(u, s)
    BY <1>2, <2>1, <2>4 DEF get_inode
  <2>6. view.size[n] \in 0 .. MaxEntries
    BY DEF StoreType
  <2>7. /\ u \in TableType /\ u[s].refcnt = 1 /\ u[s].number = n /\ u[s].size = view.size[n]
        /\ \A x \in Slots : x # s => u[x] = t[x]
    BY <2>3, <2>4, <2>6 DEF GoodTable, TableType
  <2>8. OneMore(t, u, s) /\ KeepsInodes(t, u)
    BY <2>3, <2>7 DEF OneMore, KeepsInodes, GoodTable, TableType
  <2>9. \A x \in Slots : ~(t[x].refcnt > 0 /\ t[x].number = n)
    BY <1>2 DEF Held
  <2>10. GoodTable(u)
    BY <2>3, <2>7, <2>9 DEF GoodTable
  <2>11. QED
    BY <2>3, <2>5, <2>8, <2>10 DEF got
<1>3. CASE Held(t, n) = {} /\ Unused(t) = {}
  BY <1>3 DEF get_inode
<1>4. QED
  BY <1>1, <1>2, <1>3

\* put_inode() takes one reference back.
LEMMA PutInode ==
    ASSUME NEW t, GoodTable(t), NEW s \in Slots, t[s].refcnt > 0, NEW u, u = put_inode(t, s)
    PROVE  /\ GoodTable(u) /\ OneMore(u, t, s)
           /\ \A x \in Slots : u[x].refcnt > 0 => u[x].number = t[x].number /\ u[x].size = t[x].size
<1>1. t \in TableType /\ t[s].refcnt \in Nat
  BY DEF GoodTable, TableType
<1>2. \A x \in Slots : x # s => u[x] = t[x]
  BY <1>1 DEF put_inode, TableType
<1>3. u \in TableType /\ u[s].refcnt = t[s].refcnt - 1
      /\ (u[s].refcnt > 0 => u[s].number = t[s].number /\ u[s].size = t[s].size)
  <2>1. CASE t[s].refcnt > 1
    <3>1. u = [t EXCEPT ![s] = [t[s] EXCEPT !.refcnt = t[s].refcnt - 1]]
      BY <2>1 DEF put_inode
    <3>2. t[s].refcnt - 1 \in Nat
      BY <1>1, <2>1
    <3>3. QED
      BY <1>1, <3>1, <3>2 DEF TableType
  <2>2. CASE t[s].refcnt = 1
    <3>1. u = [t EXCEPT ![s] = EmptySlot]
      BY <2>2 DEF put_inode
    <3>2. EmptySlot \in [number : Inums \cup {0}, refcnt : Nat, size : 0 .. MaxEntries]
          /\ EmptySlot.refcnt = 0
      BY EntryFacts DEF EmptySlot
    <3>3. QED
      BY <1>1, <2>2, <3>1, <3>2 DEF TableType
  <2>3. QED
    BY <1>1, <2>1, <2>2
<1>4. OneMore(u, t, s)
  BY <1>1, <1>2, <1>3 DEF OneMore, TableType
<1>5. \A x \in Slots : u[x].refcnt > 0
        => t[x].refcnt > 0 /\ u[x].number = t[x].number /\ u[x].size = t[x].size
  BY <1>1, <1>2, <1>3 DEF TableType
<1>6. GoodTable(u)
  BY <1>3, <1>5 DEF GoodTable
<1>7. QED
  BY <1>4, <1>5, <1>6

-----------------------------------------------------------------------------
(* walk() *)

\* The rounds of the loop in walk(), which end after N of them.
IsLoop(f, start, stop, N) ==
    f = [k \in 0 .. N |-> IF k = 0 THEN start ELSE walk_step(f[k - 1], stop)]

\* The loop has a value after every number of rounds.
LEMMA LoopExists ==
    ASSUME NEW start, NEW stop, NEW N \in Nat
    PROVE  \E f : IsLoop(f, start, stop, N)
<1> DEFINE Bad == {m \in Nat : ~ \E f : IsLoop(f, start, stop, m)}
           Less == OpToRel(<, Nat)
<1>1. SUFFICES ASSUME Bad # {}
               PROVE  FALSE
  OBVIOUS
<1>2. PICK m \in Bad : \A y \in Bad : ~ (<<y, m>> \in Less)
  BY <1>1, NatLessThanWellFounded, WFMin
<1>3. m # 0
  <2>1. IsLoop([k \in 0 .. 0 |-> start], start, stop, 0)
    <3>1. \A k \in 0 .. 0 : k = 0
      OBVIOUS
    <3>2. QED
      BY <3>1 DEF IsLoop
  <2>2. QED
    BY <2>1
<1>4. m - 1 \in Nat /\ m - 1 \notin Bad
  <2>1. m - 1 \in Nat /\ <<m - 1, m>> \in Less
    BY <1>3 DEF OpToRel
  <2>2. QED
    BY <1>2, <2>1
<1>5. PICK f : IsLoop(f, start, stop, m - 1)
  BY <1>4
<1>6. PICK g : g = [k \in 0 .. m |-> IF k = m THEN walk_step(f[m - 1], stop) ELSE f[k]]
  OBVIOUS
<1>7. \A k \in 0 .. m - 1 : f[k] = IF k = 0 THEN start ELSE walk_step(f[k - 1], stop)
  BY <1>5 DEF IsLoop
<1>8. ASSUME NEW k \in 0 .. m
      PROVE  g[k] = IF k = 0 THEN start ELSE walk_step(g[k - 1], stop)
  <2>1. CASE k = m
    <3>1. g[m - 1] = f[m - 1] /\ g[m] = walk_step(f[m - 1], stop)
      BY <1>3, <1>4, <1>6
    <3>2. QED
      BY <1>3, <2>1, <3>1
  <2>2. CASE k # m /\ k = 0
    BY <1>4, <1>6, <1>7, <2>2
  <2>3. CASE k # m /\ k # 0
    <3>1. k \in 0 .. m - 1 /\ k - 1 \in 0 .. m - 1 /\ k - 1 # m /\ k - 1 \in 0 .. m
      BY <1>4, <2>3
    <3>2. g[k] = f[k] /\ g[k - 1] = f[k - 1]
      BY <1>6, <2>3, <3>1
    <3>3. QED
      BY <1>7, <2>3, <3>1, <3>2
  <2>4. QED
    BY <2>1, <2>2, <2>3
<1>9. IsLoop(g, start, stop, m)
  <2>1. g = [k \in 0 .. m |-> g[k]]
    BY <1>6
  <2>2. QED
    BY <1>8, <2>1 DEF IsLoop
<1>10. QED
  BY <1>9

\* What walk() has in its hands: one reference more than the callers, if any, and no other
\* change of the table.
WalkOK(w) ==
    /\ w = [rest |-> w.rest, current |-> w.current, table |-> w.table, last |-> w.last,
            done |-> w.done]
    /\ w.current \in Slots \cup {NoSlot}
    /\ w.done \in BOOLEAN /\ (w.current = NoSlot => w.done)
    /\ GoodTable(w.table)
    /\ OneMore(inode_table, w.table, w.current)
    /\ KeepsInodes(inode_table, w.table)

\* The destructor of the InodeRef in walk().
LEMMA LostOK ==
    ASSUME GoodTable(inode_table), NEW w, WalkOK(w), w.current # NoSlot
    PROVE  WalkOK(lost(w)) /\ lost(w).current = NoSlot
<1>1. w.current \in Slots /\ GoodTable(w.table)
  BY DEF WalkOK
<1>2. w.table[w.current].refcnt > 0
  BY <1>1 DEF WalkOK, OneMore, GoodTable, TableType
<1>3. PICK u : u = put_inode(w.table, w.current)
  OBVIOUS
<1>4. /\ GoodTable(u) /\ OneMore(u, w.table, w.current)
      /\ \A x \in Slots : u[x].refcnt > 0 => u[x].number = w.table[x].number /\ u[x].size = w.table[x].size
  BY <1>1, <1>2, <1>3, PutInode
<1>5. OneMore(inode_table, u, NoSlot)
  BY <1>4, SlotFacts DEF WalkOK, OneMore, GoodTable, TableType
<1>6. KeepsInodes(inode_table, u)
  BY <1>4, <1>5, SlotFacts DEF WalkOK, KeepsInodes, OneMore, GoodTable, TableType
<1>7. lost(w) = [rest |-> w.rest, current |-> NoSlot, table |-> u, last |-> w.last, done |-> TRUE]
  <2>1. lost(w) = [w EXCEPT !.done = TRUE, !.current = NoSlot, !.table = u]
    BY <1>3 DEF lost
  <2>2. QED
    BY <2>1 DEF WalkOK
<1>8. QED
  BY <1>4, <1>5, <1>6, <1>7 DEF WalkOK

\* The next inode is taken before the current one is released.
LEMMA DescendOK ==
    ASSUME view \in StoreType, GoodTable(inode_table), NEW w, WalkOK(w), w.current # NoSlot,
           NEW rest, NEW n \in Inums
    PROVE  WalkOK(descend(w, rest, n))
<1>1. w.current \in Slots /\ GoodTable(w.table)
  BY DEF WalkOK
<1>2. w.table[w.current].refcnt > 0
  BY <1>1 DEF WalkOK, OneMore, GoodTable, TableType
<1>3. PICK g : g = get_inode(w.table, n)
  OBVIOUS
<1>4. PICK u : u = put_inode(g.table, w.current)
  OBVIOUS
<1>5. descend(w, rest, n) = [rest |-> rest, current |-> g.slot, table |-> u, last |-> w.last,
                             done |-> g.slot = NoSlot]
  <2>1. descend(w, rest, n) = [w EXCEPT !.rest = rest, !.current = g.slot, !.table = u,
                                        !.done = g.slot = NoSlot]
    BY <1>3, <1>4 DEF descend
  <2>2. QED
    BY <2>1 DEF WalkOK
<1>6. /\ g.slot \in Slots \cup {NoSlot} /\ GoodTable(g.table)
      /\ OneMore(w.table, g.table, g.slot) /\ KeepsInodes(w.table, g.table)
  <2>1. CASE g = got(w.table, NoSlot)
    <3>1. g.table = w.table /\ g.slot = NoSlot
      BY <2>1 DEF got
    <3>2. QED
      BY <1>1, <3>1, SlotFacts DEF OneMore, KeepsInodes, GoodTable, TableType
  <2>2. QED
    BY <1>1, <1>3, <2>1, GetInode
<1>7. g.table[w.current].refcnt > 0
  BY <1>1, <1>2, <1>6 DEF OneMore, GoodTable, TableType
<1>8. /\ GoodTable(u) /\ OneMore(u, g.table, w.current)
      /\ \A x \in Slots : u[x].refcnt > 0 => u[x].number = g.table[x].number /\ u[x].size = g.table[x].size
  BY <1>1, <1>4, <1>6, <1>7, PutInode
<1>9. /\ \A x \in Slots : /\ inode_table[x].refcnt \in Nat /\ w.table[x].refcnt \in Nat
                          /\ g.table[x].refcnt \in Nat /\ u[x].refcnt \in Nat
  BY <1>1, <1>6, <1>8 DEF GoodTable, TableType
<1>10. \A x \in Slots : /\ w.table[x].refcnt = inode_table[x].refcnt + IF x = w.current THEN 1 ELSE 0
                        /\ g.table[x].refcnt = w.table[x].refcnt + IF x = g.slot THEN 1 ELSE 0
                        /\ g.table[x].refcnt = u[x].refcnt + IF x = w.current THEN 1 ELSE 0
  BY <1>6, <1>8 DEF WalkOK, OneMore
<1>11. OneMore(inode_table, u, g.slot)
  BY <1>9, <1>10 DEF OneMore
<1>12. KeepsInodes(inode_table, u)
  <2>1. SUFFICES ASSUME NEW x \in Slots
                 PROVE  /\ inode_table[x].refcnt > 0 => u[x].number = inode_table[x].number
                                                        /\ u[x].size = inode_table[x].size
                        /\ inode_table[x].refcnt = 0 /\ u[x].refcnt > 0
                             => u[x].size = view.size[u[x].number]
    BY DEF KeepsInodes
  <2>2. /\ inode_table[x].refcnt > 0 => w.table[x].refcnt > 0 /\ u[x].refcnt > 0
        /\ u[x].refcnt > 0 => g.table[x].refcnt > 0
    BY <1>9, <1>10
  <2>3. /\ inode_table[x].refcnt > 0 => w.table[x].number = inode_table[x].number
                                        /\ w.table[x].size = inode_table[x].size
        /\ inode_table[x].refcnt = 0 /\ w.table[x].refcnt > 0
             => w.table[x].size = view.size[w.table[x].number]
    BY DEF WalkOK, KeepsInodes
  <2>4. /\ w.table[x].refcnt > 0 => g.table[x].number = w.table[x].number
                                    /\ g.table[x].size = w.table[x].size
        /\ w.table[x].refcnt = 0 /\ g.table[x].refcnt > 0
             => g.table[x].size = view.size[g.table[x].number]
    BY <1>6 DEF KeepsInodes
  <2>5. u[x].refcnt > 0 => u[x].number = g.table[x].number /\ u[x].size = g.table[x].size
    BY <1>8
  <2>6. w.table[x].refcnt = 0 \/ w.table[x].refcnt > 0
    BY <1>9
  <2>7. QED
    BY <2>2, <2>3, <2>4, <2>5, <2>6
<1>13. PICK v : v = descend(w, rest, n)
  OBVIOUS
<1>14. v.rest = rest /\ v.current = g.slot /\ v.table = u /\ v.last = w.last /\ v.done = (g.slot = NoSlot)
  BY <1>5, <1>13
<1>15. v.done \in BOOLEAN /\ (v.current = NoSlot => v.done)
  BY <1>14
<1>16. v = [rest |-> v.rest, current |-> v.current, table |-> v.table, last |-> v.last, done |-> v.done]
  BY <1>5, <1>13, <1>14
<1>17. WalkOK(v)
  BY <1>6, <1>8, <1>11, <1>12, <1>14, <1>15, <1>16 DEF WalkOK
<1>18. QED
  BY <1>13, <1>17

\* directory_lookup() finds an inode or nothing.
LEMMA LookupType ==
    ASSUME NEW type, NEW data \in [Entries -> EntryType], NEW size \in 0 .. MaxEntries, NEW name
    PROVE  directory_lookup(type, data, size, name) \in Inums \cup {0}
<1>1. Named(data, size, name) \subseteq Nat
  BY DEF Named
<1>2. ASSUME Named(data, size, name) # {}
      PROVE  Min(Named(data, size, name)) \in Entries
  <2>1. Min(Named(data, size, name)) \in 0 .. size - 1
    BY <1>1, <1>2, MinIsFirst DEF Named
  <2>2. QED
    BY <2>1, EntryFacts
<1>3. QED
  BY <1>2 DEF directory_lookup, EntryType

\* One round of the loop.
LEMMA WalkStepOK ==
    ASSUME view \in StoreType, GoodTable(inode_table), NEW w, WalkOK(w), NEW stop \in BOOLEAN
    PROVE  WalkOK(walk_step(w, stop))
<1>1. CASE w.done
  BY <1>1 DEF walk_step
<1>2. CASE ~w.done
  <2>1. w.current \in Slots /\ w.current # NoSlot
    BY <1>2 DEF WalkOK
  <2>2. PICK here : here = w.table[w.current]
    OBVIOUS
  <2>3. PICK next : next = next_component(w.rest)
    OBVIOUS
  <2>4. PICK found : found = directory_lookup(Type[here.number], view.data[here.number], here.size,
                                              next.name)
    OBVIOUS
  <2>5. here.number \in Inums /\ here.size \in 0 .. MaxEntries
    BY <2>1, <2>2 DEF WalkOK, OneMore, GoodTable, TableType
  <2>6. view.data[here.number] \in [Entries -> EntryType]
    BY <2>5 DEF StoreType
  <2>7. found \in Inums \cup {0}
    BY <2>4, <2>5, <2>6, LookupType
  <2>8. \/ walk_step(w, stop) = [w EXCEPT !.done = TRUE]
        \/ walk_step(w, stop) = [w EXCEPT !.done = TRUE, !.last = next.name]
        \/ walk_step(w, stop) = lost(w)
        \/ found # 0 /\ walk_step(w, stop) = descend(w, next.rest, found)
    BY <1>2, <2>2, <2>3, <2>4 DEF walk_step
  <2>9. ASSUME NEW v, v = [w EXCEPT !.done = TRUE] \/ v = [w EXCEPT !.done = TRUE, !.last = next.name]
        PROVE  WalkOK(v)
    <3>1. \E last : v = [rest |-> w.rest, current |-> w.current, table |-> w.table, last |-> last,
                         done |-> TRUE]
      BY <2>9 DEF WalkOK
    <3>2. QED
      BY <3>1 DEF WalkOK
  <2>11. QED
    BY <2>1, <2>7, <2>8, <2>9, LostOK, DescendOK
<1>3. QED
  BY <1>1, <1>2 DEF WalkOK

\* walk() comes back with one reference or with none.
LEMMA WalkResult ==
    ASSUME view \in StoreType, GoodTable(inode_table), NEW path \in Seq(Characters), NEW stop \in BOOLEAN
    PROVE  LET w == walk(path, stop)
           IN  /\ w.current \in Slots \cup {NoSlot}
               /\ GoodTable(w.table)
               /\ OneMore(inode_table, w.table, w.current)
               /\ KeepsInodes(inode_table, w.table)
<1>1. PICK root : root = get_inode(inode_table, ROOT_INODE)
  OBVIOUS
<1>2. PICK start : start = [rest |-> path, current |-> root.slot, table |-> root.table,
                            last |-> <<>>, done |-> root.slot = NoSlot]
  OBVIOUS
<1>3. PICK N : N = Len(path)
  OBVIOUS
<1>4. N \in Nat
  BY <1>3
<1> DEFINE loop == CHOOSE f : f = [k \in 0 .. N |-> IF k = 0 THEN start
                                                   ELSE walk_step(f[k - 1], stop)]
<1>5. IsLoop(loop, start, stop, N)
  <2>0. \E f : IsLoop(f, start, stop, N)
    BY <1>4, LoopExists
  <2>1. \E f : f = [k \in 0 .. N |-> IF k = 0 THEN start ELSE walk_step(f[k - 1], stop)]
    BY <2>0, Zenon DEF IsLoop
  <2>2. loop = [k \in 0 .. N |-> IF k = 0 THEN start ELSE walk_step(loop[k - 1], stop)]
    BY <2>1, Zenon
  <2>3. QED
    BY <2>2 DEF IsLoop
<1>6. walk(path, stop) = IF path = <<>> THEN [start EXCEPT !.current = NoSlot, !.table = inode_table]
                         ELSE IF stop /\ loop[N].last = <<>> /\ loop[N].current # NoSlot
                         THEN lost(loop[N]) ELSE loop[N]
  BY <1>1, <1>2, <1>3 DEF walk
<1> HIDE DEF loop
<1>7. WalkOK(start)
  <2>1. ROOT_INODE \in Inums
    BY DirectoryConstants
  <2>2. CASE root = got(inode_table, NoSlot)
    <3>1. root.table = inode_table /\ root.slot = NoSlot
      BY <2>2 DEF got
    <3>2. OneMore(inode_table, inode_table, NoSlot) /\ KeepsInodes(inode_table, inode_table)
      BY SlotFacts DEF OneMore, KeepsInodes, GoodTable, TableType
    <3>3. QED
      BY <1>2, <3>1, <3>2 DEF WalkOK
  <2>3. CASE /\ root.slot \in Slots /\ GoodTable(root.table)
             /\ OneMore(inode_table, root.table, root.slot) /\ KeepsInodes(inode_table, root.table)
    BY <1>2, <2>3 DEF WalkOK
  <2>4. QED
    BY <1>1, <2>1, <2>2, <2>3, GetInode
<1>8. \A k \in 0 .. N : WalkOK(loop[k])
  <2> DEFINE Bad == {k \in 0 .. N : ~WalkOK(loop[k])}
             Less == OpToRel(<, Nat)
  <2>1. SUFFICES ASSUME Bad # {}
                 PROVE  FALSE
    OBVIOUS
  <2>2. Bad \subseteq Nat
    OBVIOUS
  <2>3. PICK m \in Bad : \A y \in Bad : ~ (<<y, m>> \in Less)
    BY <2>1, <2>2, NatLessThanWellFounded, WFMin
  <2>4. m # 0
    BY <1>4, <1>5, <1>7 DEF IsLoop
  <2>5. m - 1 \in 0 .. N /\ m \in 0 .. N
    BY <1>4, <2>4
  <2>6. m - 1 \notin Bad
    <3>1. m - 1 \in Nat /\ <<m - 1, m>> \in Less
      BY <1>4, <2>5 DEF OpToRel
    <3>2. QED
      BY <2>3, <3>1
  <2>7. WalkOK(loop[m - 1])
    BY <2>5, <2>6
  <2>8. loop[m] = walk_step(loop[m - 1], stop)
    BY <1>5, <2>4, <2>5 DEF IsLoop
  <2>9. QED
    BY <2>7, <2>8, WalkStepOK
<1>9. WalkOK(loop[N])
  BY <1>4, <1>8
<1>10. CASE path = <<>>
  <2>1. walk(path, stop) = [rest |-> path, current |-> NoSlot, table |-> inode_table,
                            last |-> <<>>, done |-> root.slot = NoSlot]
    BY <1>2, <1>6, <1>10
  <2>2. QED
    BY <2>1, SlotFacts DEF OneMore, KeepsInodes, GoodTable, TableType
<1>11. CASE path # <<>>
  BY <1>6, <1>9, <1>11, LostOK DEF WalkOK
<1>12. QED
  BY <1>10, <1>11

-----------------------------------------------------------------------------
(* Names *)

\* A name in an entry is filled up with zeros.
NulTerminated(e) ==
    \A j, k \in 1 .. DIRECTORY_NAME_SIZE : j < k /\ e[j] = Nul => e[k] = Nul

LEMMA PaddedName ==
    ASSUME NEW name, IsText(name)
    PROVE  /\ Padded(name) \in [1 .. DIRECTORY_NAME_SIZE -> Characters]
           /\ NulTerminated(Padded(name))
<1>1. DIRECTORY_NAME_SIZE \in Nat
  BY DirectoryConstants
<1>2. Len(name) \in Nat /\ DOMAIN name = 1 .. Len(name) /\ \A k \in 1 .. Len(name) : name[k] \in Characters
  BY DEF IsText
<1>3. Nul \in Characters
  BY DirectoryConstants
<1>4. Padded(name) \in [1 .. DIRECTORY_NAME_SIZE -> Characters]
  BY <1>1, <1>2, <1>3 DEF Padded
<1>5. NulTerminated(Padded(name))
  <2>1. SUFFICES ASSUME NEW j \in 1 .. DIRECTORY_NAME_SIZE, NEW k \in 1 .. DIRECTORY_NAME_SIZE,
                        j < k, Padded(name)[j] = Nul
                 PROVE  Padded(name)[k] = Nul
    BY DEF NulTerminated
  <2>2. ~(j <= Len(name))
    BY <1>1, <1>2, <2>1 DEF Padded, IsText
  <2>3. ~(k <= Len(name))
    BY <1>1, <1>2, <2>1, <2>2
  <2>4. QED
    BY <2>3 DEF Padded
<1>6. QED
  BY <1>4, <1>5

\* is_name_equal() compares with the name as directory_link() stores it.
LEMMA NameEqual ==
    ASSUME NEW e \in [1 .. DIRECTORY_NAME_SIZE -> Characters], NulTerminated(e),
           NEW name, IsText(name), is_valid_name(name)
    PROVE  is_name_equal(e, name) <=> e = Padded(name)
<1>0. DIRECTORY_NAME_SIZE \in Nat
  BY DirectoryConstants
<1>1. PICK size : size = DIRECTORY_NAME_SIZE /\ size \in Nat
  BY <1>0
<1>2. PICK n : n = Len(name) /\ n \in Nat /\ DOMAIN name = 1 .. n /\ n <= size
  BY <1>1 DEF IsText, is_valid_name
<1>3. PICK p : p = Padded(name)
  OBVIOUS
<1>4. p = [k \in 1 .. size |-> IF k <= n THEN name[k] ELSE Nul]
  BY <1>1, <1>2, <1>3 DEF Padded
<1>5. is_name_equal(e, name) <=> (\A k \in 1 .. n : e[k] = name[k]) /\ (n = size \/ e[n + 1] = Nul)
  BY <1>1, <1>2 DEF is_name_equal
<1>6. e \in [1 .. size -> Characters] /\ \A j, k \in 1 .. size : j < k /\ e[j] = Nul => e[k] = Nul
  BY <1>1 DEF NulTerminated
<1>7. ASSUME \A k \in 1 .. n : e[k] = name[k], n = size \/ e[n + 1] = Nul
      PROVE  e = p
  <2>1. ASSUME NEW k \in 1 .. size
        PROVE  e[k] = p[k]
    <3>1. CASE k <= n
      BY <1>1, <1>2, <1>4, <1>7, <3>1
    <3>2. CASE k > n
      <4>1. n + 1 \in 1 .. size /\ n # size /\ (k = n + 1 \/ n + 1 < k)
        BY <1>1, <1>2, <3>2
      <4>2. e[k] = Nul
        BY <1>6, <1>7, <4>1
      <4>3. QED
        BY <1>1, <1>2, <1>4, <3>2, <4>2
    <3>3. QED
      BY <1>1, <1>2, <3>1, <3>2
  <2>2. QED
    BY <1>4, <1>6, <2>1
<1>8. ASSUME e = p
      PROVE  (\A k \in 1 .. n : e[k] = name[k]) /\ (n = size \/ e[n + 1] = Nul)
  <2>1. \A k \in 1 .. n : k \in 1 .. size /\ k <= n
    BY <1>1, <1>2
  <2>2. n # size => n + 1 \in 1 .. size /\ ~(n + 1 <= n)
    BY <1>1, <1>2
  <2>3. QED
    BY <1>4, <1>8, <2>1, <2>2
<1>9. QED
  BY <1>3, <1>5, <1>7, <1>8

-----------------------------------------------------------------------------
(* Entries, in the cache and on the device *)

\* A link that was reported.
IsLink(l) == /\ l[1] \in Inums /\ l[3] \in Inums
             /\ IsText(l[2]) /\ is_valid_name(l[2])

\* d is the device, v the cache, size[n] the size of n for its holders and L the links reported.
\* The device is behind the cache: in sizes, and where it does not have an entry of the cache
\* it has a free one.  A reported link is in both.
SizesOrdered(d, v, size) ==
    \A n \in Inums : d.size[n] <= v.size[n] /\ v.size[n] <= size[n]
DeviceBehind(d, v, size) ==
    \A n \in Inums : \A k \in 0 .. size[n] - 1 :
        d.data[n][k] = v.data[n][k] \/ d.data[n][k].inode_number = 0
Unique(v, size) ==
    \A n \in Inums : \A j, k \in 0 .. size[n] - 1 :
        /\ v.data[n][j].inode_number # 0 /\ v.data[n][k].inode_number # 0
        /\ v.data[n][j].name = v.data[n][k].name
        => j = k
Terminated(s) == \A n \in Inums, k \in Entries : NulTerminated(s.data[n][k].name)
LinkIn(d, v, l) ==
    \E k \in 0 .. d.size[l[1]] - 1 : /\ d.data[l[1]][k] = Entry(l[2], l[3])
                                     /\ v.data[l[1]][k] = Entry(l[2], l[3])
StoreInv(d, v, size, L) ==
    /\ d \in StoreType /\ v \in StoreType /\ size \in [Inums -> 0 .. MaxEntries]
    /\ SizesOrdered(d, v, size)
    /\ DeviceBehind(d, v, size)
    /\ Unique(v, size)
    /\ Terminated(d) /\ Terminated(v)
    /\ \A l \in L : IsLink(l) /\ LinkIn(d, v, l)

Sizes == [n \in Inums |-> SizeNow(n)]

\* The inductive invariant.
DirInv ==
    /\ TypeOK
    /\ GoodTable(inode_table)
    /\ \A s \in Slots : inode_table[s].refcnt = Cardinality({r \in Refs : ref[r] = s})
    /\ StoreInv(disk, view, Sizes, linked)

\* Where the cache goes back to the device, or a holder's size is forgotten, nothing is lost
\* that was reported.
LEMMA Reverted ==
    ASSUME NEW d, NEW v, NEW size, NEW L, StoreInv(d, v, size, L),
           NEW v2 \in StoreType, NEW size2 \in [Inums -> 0 .. MaxEntries],
           \A n \in Inums : d.size[n] <= v2.size[n] /\ v2.size[n] <= size2[n] /\ size2[n] <= size[n],
           \A n \in Inums, k \in Entries : v2.data[n][k] \in {v.data[n][k], d.data[n][k]}
    PROVE  StoreInv(d, v2, size2, L)
<1>1. \A n \in Inums : /\ size[n] \in 0 .. MaxEntries /\ size2[n] \in 0 .. MaxEntries
                       /\ d.size[n] \in 0 .. MaxEntries /\ v.size[n] \in 0 .. MaxEntries
  BY DEF StoreInv, StoreType
<1>2. ASSUME NEW n \in Inums, NEW k \in 0 .. size2[n] - 1
      PROVE  k \in 0 .. size[n] - 1 /\ k \in Entries
  BY <1>1, <1>2, EntryFacts
<1>3. SizesOrdered(d, v2, size2)
  BY DEF SizesOrdered
<1>4. DeviceBehind(d, v2, size2)
  BY <1>2 DEF StoreInv, DeviceBehind
<1>5. ASSUME NEW n \in Inums, NEW k \in 0 .. size2[n] - 1, v2.data[n][k].inode_number # 0
      PROVE  v2.data[n][k] = v.data[n][k]
  BY <1>2, <1>5 DEF StoreInv, DeviceBehind
<1>6. Unique(v2, size2)
  <2>1. SUFFICES ASSUME NEW n \in Inums, NEW j \in 0 .. size2[n] - 1, NEW k \in 0 .. size2[n] - 1,
                        v2.data[n][j].inode_number # 0, v2.data[n][k].inode_number # 0,
                        v2.data[n][j].name = v2.data[n][k].name
                 PROVE  j = k
    BY DEF Unique
  <2>2. v2.data[n][j] = v.data[n][j] /\ v2.data[n][k] = v.data[n][k]
    BY <1>5, <2>1
  <2>3. j \in 0 .. size[n] - 1 /\ k \in 0 .. size[n] - 1
    BY <1>2
  <2>4. QED
    BY <2>1, <2>2, <2>3 DEF StoreInv, Unique
<1>7. Terminated(v2)
  <2>1. ASSUME NEW n \in Inums, NEW k \in Entries
        PROVE  NulTerminated(v2.data[n][k].name)
    <3>1. NulTerminated(v.data[n][k].name) /\ NulTerminated(d.data[n][k].name)
      BY DEF StoreInv, Terminated
    <3>2. v2.data[n][k] = v.data[n][k] \/ v2.data[n][k] = d.data[n][k]
      OBVIOUS
    <3>3. QED
      BY <3>1, <3>2
  <2>2. QED
    BY <2>1 DEF Terminated
<1>8. ASSUME NEW l \in L
      PROVE  IsLink(l) /\ LinkIn(d, v2, l)
  <2>1. IsLink(l) /\ l[1] \in Inums /\ LinkIn(d, v, l)
    BY DEF StoreInv, IsLink
  <2>2. PICK k \in 0 .. d.size[l[1]] - 1 : /\ d.data[l[1]][k] = Entry(l[2], l[3])
                                           /\ v.data[l[1]][k] = Entry(l[2], l[3])
    BY <2>1 DEF LinkIn
  <2>3. k \in Entries
    BY <1>1, <2>1, EntryFacts
  <2>4. v2.data[l[1]][k] = Entry(l[2], l[3])
    BY <2>1, <2>2, <2>3
  <2>5. QED
    BY <2>1, <2>2, <2>4 DEF LinkIn
<1>9. QED
  BY <1>3, <1>4, <1>6, <1>7, <1>8 DEF StoreInv

\* The stores after write_data() of the entry e at offset k of the directory n.
Sized(size, n, k, o)    == IF o = "written" /\ k = size[n] THEN k + 1 ELSE size[n]
ViewAfter(v, size, n, k, e, o, u) ==
    [size |-> IF u = "read_error" THEN v.size ELSE [v.size EXCEPT ![n] = Sized(size, n, k, o)],
     data |-> IF o = "read_error" THEN v.data ELSE [v.data EXCEPT ![n] = [v.data[n] EXCEPT ![k] = e]]]
DiskAfter(d, v, size, n, k, e, o, u) ==
    [size |-> IF u = "written" THEN [v.size EXCEPT ![n] = Sized(size, n, k, o)] ELSE d.size,
     data |-> IF o # "written" THEN d.data
              ELSE [d.data EXCEPT ![n] = Merge(d.data[n], [v.data[n] EXCEPT ![k] = e], Block(k))]]

\* An entry may be written over a free one or at the end, with a new name, or with a device that
\* works; L2 are links that it does not touch.
CanWrite(d, v, size, L, n, k, e, o, u, L2) ==
    /\ StoreInv(d, v, size, L)
    /\ n \in Inums /\ k \in Entries /\ k <= size[n] /\ o \in Outcomes /\ u \in Outcomes
    /\ e \in EntryType /\ NulTerminated(e.name)
    /\ \/ k = size[n] \/ v.data[n][k].inode_number = 0
       \/ o = "written" /\ u = "written"
    /\ e.inode_number # 0 => \A j \in 0 .. size[n] - 1 :
           v.data[n][j].inode_number # 0 => v.data[n][j].name # e.name
    /\ \A l \in L2 : /\ l \in L
                     /\ l[1] = n /\ k < size[n] => v.data[n][k] # Entry(l[2], l[3])

\* The stores and the sizes before and after.
Writes(d, v, size, L, n, k, e, o, u, L2, d2, v2, size2) ==
    /\ CanWrite(d, v, size, L, n, k, e, o, u, L2)
    /\ d2 = DiskAfter(d, v, size, n, k, e, o, u)
    /\ v2 = ViewAfter(v, size, n, k, e, o, u)
    /\ size2 = [size EXCEPT ![n] = Sized(size, n, k, o)]

LEMMA EntryWritten ==
    ASSUME NEW d, NEW v, NEW size, NEW L, NEW n, NEW k, NEW e, NEW o, NEW u, NEW L2,
           NEW d2, NEW v2, NEW size2, Writes(d, v, size, L, n, k, e, o, u, L2, d2, v2, size2)
    PROVE  /\ StoreInv(d2, v2, size2, L2)
           /\ o = "written" /\ u = "written" =>
                k < d2.size[n] /\ d2.data[n][k] = e /\ v2.data[n][k] = e
<1> SUFFICES ASSUME StoreInv(d, v, size, L), n \in Inums, k \in Entries, k <= size[n],
                    o \in Outcomes, u \in Outcomes, e \in EntryType, NulTerminated(e.name),
                    k = size[n] \/ v.data[n][k].inode_number = 0 \/ (o = "written" /\ u = "written"),
                    e.inode_number # 0 => \A j \in 0 .. size[n] - 1 :
                        v.data[n][j].inode_number # 0 => v.data[n][j].name # e.name,
                    \A l \in L2 : /\ l \in L
                                  /\ l[1] = n /\ k < size[n] => v.data[n][k] # Entry(l[2], l[3]),
                    d2 = DiskAfter(d, v, size, n, k, e, o, u),
                    v2 = ViewAfter(v, size, n, k, e, o, u),
                    size2 = [size EXCEPT ![n] = Sized(size, n, k, o)]
             PROVE  /\ StoreInv(d2, v2, size2, L2)
                    /\ o = "written" /\ u = "written" =>
                         k < d2.size[n] /\ d2.data[n][k] = e /\ v2.data[n][k] = e
  BY DEF Writes, CanWrite
<1>0. /\ d \in StoreType /\ v \in StoreType /\ size \in [Inums -> 0 .. MaxEntries]
      /\ SizesOrdered(d, v, size) /\ DeviceBehind(d, v, size) /\ Unique(v, size)
      /\ Terminated(d) /\ Terminated(v)
  BY DEF StoreInv
<1>1. \A m \in Inums : /\ size[m] \in 0 .. MaxEntries /\ d.size[m] \in 0 .. MaxEntries
                       /\ v.size[m] \in 0 .. MaxEntries
  BY <1>0 DEF StoreType
<1>2. PICK z : z = Sized(size, n, k, o)
  OBVIOUS
<1>3. /\ z \in 0 .. MaxEntries /\ size[n] <= z
      /\ o = "written" => k < z
      /\ o # "written" => z = size[n]
      /\ z = size[n] \/ (o = "written" /\ k = size[n] /\ z = k + 1)
  BY <1>1, <1>2, EntryFacts DEF Sized, Entries
<1>4. /\ size2 \in [Inums -> 0 .. MaxEntries] /\ size2[n] = z
      /\ \A m \in Inums : m # n => size2[m] = size[m]
  BY <1>0, <1>2, <1>3
<1>5. PICK data : data = [v.data[n] EXCEPT ![k] = e]
  OBVIOUS
<1>6. /\ v.data[n] \in [Entries -> EntryType] /\ d.data[n] \in [Entries -> EntryType]
      /\ v.size \in [Inums -> 0 .. MaxEntries] /\ d.size \in [Inums -> 0 .. MaxEntries]
      /\ v.data \in [Inums -> [Entries -> EntryType]] /\ d.data \in [Inums -> [Entries -> EntryType]]
  BY <1>0 DEF StoreType
<1>7. /\ data \in [Entries -> EntryType] /\ data[k] = e
      /\ \A j \in Entries : j # k => data[j] = v.data[n][j]
  BY <1>5, <1>6
<1>8. PICK merged : merged = Merge(d.data[n], data, Block(k))
  OBVIOUS
<1>9. k \in Block(k)
  BY DEF Block
<1>10. /\ merged \in [Entries -> EntryType] /\ merged[k] = e
       /\ \A j \in Entries : merged[j] = data[j] \/ (j # k /\ merged[j] = d.data[n][j])
  BY <1>6, <1>7, <1>8, <1>9 DEF Merge
<1>11. /\ v2.size = IF u = "read_error" THEN v.size ELSE [v.size EXCEPT ![n] = z]
       /\ v2.data = IF o = "read_error" THEN v.data ELSE [v.data EXCEPT ![n] = data]
       /\ d2.size = IF u = "written" THEN [v.size EXCEPT ![n] = z] ELSE d.size
       /\ d2.data = IF o # "written" THEN d.data ELSE [d.data EXCEPT ![n] = merged]
       /\ v2 = [size |-> v2.size, data |-> v2.data] /\ d2 = [size |-> d2.size, data |-> d2.data]
  BY <1>2, <1>5, <1>8 DEF ViewAfter, DiskAfter
<1>12. /\ v2.size \in [Inums -> 0 .. MaxEntries] /\ d2.size \in [Inums -> 0 .. MaxEntries]
       /\ v2.data \in [Inums -> [Entries -> EntryType]] /\ d2.data \in [Inums -> [Entries -> EntryType]]
  BY <1>3, <1>6, <1>7, <1>10, <1>11
<1>13. v2 \in StoreType /\ d2 \in StoreType
  BY <1>11, <1>12 DEF StoreType
<1>14. SizesOrdered(d2, v2, size2)
  <2>1. SUFFICES ASSUME NEW m \in Inums
                 PROVE  d2.size[m] <= v2.size[m] /\ v2.size[m] <= size2[m]
    BY DEF SizesOrdered
  <2>2. d.size[m] <= v.size[m] /\ v.size[m] <= size[m]
    BY <1>0 DEF SizesOrdered
  <2>3. CASE m = n
    BY <1>1, <1>3, <1>4, <1>6, <1>11, <2>2, <2>3
  <2>4. CASE m # n
    BY <1>1, <1>3, <1>4, <1>6, <1>11, <2>2, <2>4
  <2>5. QED
    BY <2>3, <2>4
<1>15. /\ \A m \in Inums : m # n => d2.data[m] = d.data[m] /\ v2.data[m] = v.data[m]
       /\ o = "read_error"  => d2.data[n] = d.data[n] /\ v2.data[n] = v.data[n]
       /\ o = "write_error" => d2.data[n] = d.data[n] /\ v2.data[n] = data
       /\ o = "written"     => d2.data[n] = merged /\ v2.data[n] = data
       /\ o = "read_error" \/ o = "write_error" \/ o = "written"
  BY <1>6, <1>11 DEF Outcomes
<1>16. ASSUME NEW j \in 0 .. z - 1
       PROVE  j \in Entries /\ (j # k => j \in 0 .. size[n] - 1)
  BY <1>1, <1>3, <1>16, EntryFacts
<1>17. DeviceBehind(d2, v2, size2)
  <2>1. SUFFICES ASSUME NEW m \in Inums, NEW j \in 0 .. size2[m] - 1
                 PROVE  d2.data[m][j] = v2.data[m][j] \/ d2.data[m][j].inode_number = 0
    BY DEF DeviceBehind
  <2>2. CASE m # n
    BY <1>0, <1>4, <1>15, <2>1, <2>2 DEF DeviceBehind
  <2>3. CASE m = n
    <3>1. j \in 0 .. z - 1 /\ j \in Entries
      BY <1>4, <1>16, <2>1, <2>3
    <3>2. j \in 0 .. size[n] - 1 => d.data[n][j] = v.data[n][j] \/ d.data[n][j].inode_number = 0
      BY <1>0 DEF DeviceBehind
    <3>3. CASE o = "read_error"
      BY <1>3, <1>15, <2>3, <3>1, <3>2, <3>3
    <3>4. CASE o = "write_error"
      <4>1. j \in 0 .. size[n] - 1
        BY <1>3, <3>1, <3>4
      <4>2. CASE j = k
        <5>1. v.data[n][k].inode_number = 0
          BY <1>1, <3>4, <4>1, <4>2
        <5>2. d.data[n][k].inode_number = 0
          BY <3>2, <4>1, <4>2, <5>1
        <5>3. QED
          BY <1>15, <2>3, <3>4, <4>2, <5>2
      <4>3. CASE j # k
        BY <1>7, <1>15, <2>3, <3>1, <3>2, <3>4, <4>1, <4>3
      <4>4. QED
        BY <4>2, <4>3
    <3>5. CASE o = "written"
      <4>1. merged[j] = data[j] \/ (j # k /\ merged[j] = d.data[n][j] /\ data[j] = v.data[n][j])
        BY <1>7, <1>10, <3>1
      <4>2. j # k => j \in 0 .. size[n] - 1
        BY <1>16, <3>1
      <4>3. QED
        BY <1>15, <2>3, <3>2, <3>5, <4>1, <4>2
    <3>6. QED
      BY <1>15, <3>3, <3>4, <3>5
  <2>4. QED
    BY <2>2, <2>3
<1>18. Unique(v2, size2)
  <2>1. SUFFICES ASSUME NEW m \in Inums, NEW i \in 0 .. size2[m] - 1, NEW j \in 0 .. size2[m] - 1,
                        v2.data[m][i].inode_number # 0, v2.data[m][j].inode_number # 0,
                        v2.data[m][i].name = v2.data[m][j].name
                 PROVE  i = j
    BY DEF Unique
  <2>2. CASE m # n
    BY <1>0, <1>4, <1>15, <2>1, <2>2 DEF Unique
  <2>3. CASE m = n /\ o = "read_error"
    BY <1>0, <1>3, <1>4, <1>15, <2>1, <2>3 DEF Unique
  <2>4. CASE m = n /\ o # "read_error"
    <3>1. /\ i \in Entries /\ (i # k => i \in 0 .. size[n] - 1 /\ data[i] = v.data[n][i])
          /\ j \in Entries /\ (j # k => j \in 0 .. size[n] - 1 /\ data[j] = v.data[n][j])
      BY <1>4, <1>7, <1>16, <2>1, <2>4
    <3>2. data[i].inode_number # 0 /\ data[j].inode_number # 0 /\ data[i].name = data[j].name
      BY <1>15, <2>1, <2>4
    <3>3. CASE i # k /\ j # k
      BY <1>0, <3>1, <3>2, <3>3 DEF Unique
    <3>4. CASE i = k /\ j # k
      BY <1>7, <3>1, <3>2, <3>4
    <3>5. CASE i # k /\ j = k
      BY <1>7, <3>1, <3>2, <3>5
    <3>6. QED
      BY <3>3, <3>4, <3>5
  <2>5. QED
    BY <2>2, <2>3, <2>4
<1>19. Terminated(d2) /\ Terminated(v2)
  <2>1. ASSUME NEW m \in Inums, NEW j \in Entries
        PROVE  /\ d2.data[m][j] \in {d.data[m][j], v.data[m][j], e}
               /\ v2.data[m][j] \in {v.data[m][j], e}
    <3>1. CASE m # n
      BY <1>15, <3>1
    <3>2. CASE m = n
      <4>1. data[j] = e \/ data[j] = v.data[n][j]
        BY <1>7
      <4>2. merged[j] = data[j] \/ merged[j] = d.data[n][j]
        BY <1>10
      <4>3. QED
        BY <1>15, <3>2, <4>1, <4>2
    <3>3. QED
      BY <3>1, <3>2
  <2>2. \A m \in Inums, j \in Entries : /\ NulTerminated(d.data[m][j].name)
                                        /\ NulTerminated(v.data[m][j].name)
    BY <1>0 DEF Terminated
  <2>3. QED
    BY <2>1, <2>2 DEF Terminated
<1>20. ASSUME NEW l \in L2
       PROVE  IsLink(l) /\ LinkIn(d2, v2, l)
  <2>1. l \in L /\ IsLink(l) /\ l[1] \in Inums /\ LinkIn(d, v, l)
    BY DEF StoreInv, IsLink
  <2>2. PICK j \in 0 .. d.size[l[1]] - 1 : /\ d.data[l[1]][j] = Entry(l[2], l[3])
                                           /\ v.data[l[1]][j] = Entry(l[2], l[3])
    BY <2>1 DEF LinkIn
  <2>3. d.size[l[1]] <= v.size[l[1]] /\ v.size[l[1]] <= size[l[1]]
    BY <1>0, <2>1 DEF SizesOrdered
  <2>4. j \in 0 .. d2.size[l[1]] - 1
    BY <1>1, <1>3, <1>6, <1>11, <2>1, <2>2, <2>3
  <2>5. j \in Entries
    BY <1>1, <2>1, <2>2, EntryFacts
  <2>6. d2.data[l[1]][j] = Entry(l[2], l[3]) /\ v2.data[l[1]][j] = Entry(l[2], l[3])
    <3>1. CASE l[1] # n
      BY <1>15, <2>1, <2>2, <3>1
    <3>2. CASE l[1] = n
      <4>1. j # k
        <5>1. SUFFICES ASSUME j = k
                       PROVE  FALSE
          OBVIOUS
        <5>2. k < size[n]
          BY <1>1, <2>1, <2>2, <2>3, <3>2, <5>1
        <5>3. QED
          BY <2>2, <3>2, <5>1, <5>2
      <4>2. data[j] = Entry(l[2], l[3]) /\ merged[j] = Entry(l[2], l[3])
        BY <1>7, <1>10, <2>2, <2>5, <3>2, <4>1
      <4>3. QED
        BY <1>15, <2>2, <3>2, <4>2
    <3>3. QED
      BY <3>1, <3>2
  <2>7. QED
    BY <2>1, <2>4, <2>6 DEF LinkIn
<1>21. ASSUME o = "written", u = "written"
       PROVE  k < d2.size[n] /\ d2.data[n][k] = e /\ v2.data[n][k] = e
  BY <1>3, <1>6, <1>7, <1>10, <1>11, <1>15, <1>21
<1>22. QED
  BY <1>4, <1>13, <1>14, <1>17, <1>18, <1>19, <1>20, <1>21 DEF StoreInv

-----------------------------------------------------------------------------
(* Sizes and references *)

\* SizeNow, for any table and cache.
SizeIn(t, v, n) == IF Held(t, n) = {} THEN v.size[n] ELSE t[Min(Held(t, n))].size

LEMMA SizesAreSizeIn ==
    /\ Sizes  = [n \in Inums |-> SizeIn(inode_table, view, n)]
    /\ Sizes' = [n \in Inums |-> SizeIn(inode_table', view', n)]
BY DEF Sizes, SizeNow, SizeIn, Held

\* The size is that of the one slot that holds the inode, or else what the cache shows.
LEMMA SizeCases ==
    ASSUME NEW t, GoodTable(t), NEW v, NEW n
    PROVE  /\ \A s \in Slots : t[s].refcnt > 0 /\ t[s].number = n => SizeIn(t, v, n) = t[s].size
           /\ (\A s \in Slots : ~(t[s].refcnt > 0 /\ t[s].number = n)) => SizeIn(t, v, n) = v.size[n]
<1>1. ASSUME NEW s \in Slots, t[s].refcnt > 0, t[s].number = n
      PROVE  SizeIn(t, v, n) = t[s].size
  <2>1. Held(t, n) \subseteq Nat /\ s \in Held(t, n)
    BY <1>1, SlotFacts DEF Held
  <2>2. Min(Held(t, n)) \in Held(t, n)
    BY <2>1, MinIsFirst
  <2>3. Min(Held(t, n)) = s
    BY <1>1, <2>2 DEF Held, GoodTable
  <2>4. QED
    BY <2>1, <2>3 DEF SizeIn
<1>2. ASSUME \A s \in Slots : ~(t[s].refcnt > 0 /\ t[s].number = n)
      PROVE  SizeIn(t, v, n) = v.size[n]
  <2>1. Held(t, n) = {}
    BY <1>2 DEF Held
  <2>2. QED
    BY <2>1 DEF SizeIn
<1>3. QED
  BY <1>1, <1>2

\* What an InodeRef refers to is in use.
LEMMA RefHolds ==
    ASSUME DirInv, NEW r \in Refs, ref[r] # NoSlot
    PROVE  ref[r] \in Slots /\ inode_table[ref[r]].refcnt > 0 /\ inode_table[ref[r]].number \in Inums
<1>1. ref[r] \in Slots
  BY DEF DirInv, TypeOK
<1>2. PICK S : S = {q \in Refs : ref[q] = ref[r]}
  OBVIOUS
<1>3. IsFiniteSet(Refs)
  BY DirectoryConstants
<1>4. IsFiniteSet(S) /\ r \in S
  BY <1>2, <1>3, FS_Subset
<1>5. Cardinality(S) \in Nat /\ Cardinality(S) # 0
  BY <1>4, FS_EmptySet, FS_CardinalityType
<1>6. inode_table[ref[r]].refcnt = Cardinality(S)
  BY <1>1, <1>2 DEF DirInv
<1>7. inode_table[ref[r]].refcnt > 0
  BY <1>5, <1>6
<1>8. QED
  BY <1>1, <1>7 DEF DirInv, GoodTable

\* The number of InodeRefs that refer to a slot.
Count(rf, s) == Cardinality({r \in Refs : rf[r] = s})

\* An InodeRef that was empty refers to the slot c.
LEMMA CountUp ==
    ASSUME NEW rf \in [Refs -> Slots \cup {NoSlot}], NEW r \in Refs, rf[r] = NoSlot,
           NEW c \in Slots \cup {NoSlot}, NEW s \in Slots
    PROVE  /\ Count(rf, s) \in Nat
           /\ Count([rf EXCEPT ![r] = c], s) = Count(rf, s) + IF s = c THEN 1 ELSE 0
<1>1. PICK S : S = {q \in Refs : rf[q] = s}
  OBVIOUS
<1>2. IsFiniteSet(Refs)
  BY DirectoryConstants
<1>3. IsFiniteSet(S) /\ r \notin S
  BY <1>1, <1>2, FS_Subset, SlotFacts
<1>4. {q \in Refs : [rf EXCEPT ![r] = c][q] = s} = IF s = c THEN S \cup {r} ELSE S
  BY <1>1, SlotFacts
<1>5. Cardinality(S) \in Nat /\ Cardinality(S \cup {r}) = Cardinality(S) + 1
  BY <1>3, FS_AddElement, FS_CardinalityType
<1>6. QED
  BY <1>1, <1>4, <1>5 DEF Count

\* An InodeRef gives its slot back.
LEMMA CountDown ==
    ASSUME NEW rf \in [Refs -> Slots \cup {NoSlot}], NEW r \in Refs, NEW s \in Slots
    PROVE  /\ Count(rf, s) \in Nat
           /\ Count([rf EXCEPT ![r] = NoSlot], s) = Count(rf, s) - IF s = rf[r] THEN 1 ELSE 0
<1>1. PICK S : S = {q \in Refs : rf[q] = s}
  OBVIOUS
<1>2. IsFiniteSet(Refs)
  BY DirectoryConstants
<1>3. IsFiniteSet(S) /\ (r \in S <=> s = rf[r])
  BY <1>1, <1>2, FS_Subset
<1>4. {q \in Refs : [rf EXCEPT ![r] = NoSlot][q] = s} = S \ {r}
  BY <1>1, SlotFacts
<1>5. Cardinality(S) \in Nat /\ Cardinality(S \ {r}) = Cardinality(S) - IF r \in S THEN 1 ELSE 0
  BY <1>3, FS_RemoveElement, FS_CardinalityType
<1>6. QED
  BY <1>1, <1>3, <1>4, <1>5 DEF Count

-----------------------------------------------------------------------------
(* The steps *)

\* resolve_path() and resolve_parent().
LEMMA WalkToInv ==
    ASSUME DirInv, NEW r \in Refs, NEW path \in Paths, NEW stop \in BOOLEAN, walk_to(r, path, stop)
    PROVE  DirInv'
<1>1. PICK w : w = walk(path, stop)
  OBVIOUS
<1>2. path \in Seq(Characters) /\ view \in StoreType /\ GoodTable(inode_table)
  <2>1. path \in Seq(Characters)
    BY PathTexts DEF IsText
  <2>2. QED
    BY <2>1 DEF DirInv, TypeOK
<1>3. /\ w.current \in Slots \cup {NoSlot} /\ GoodTable(w.table)
      /\ OneMore(inode_table, w.table, w.current) /\ KeepsInodes(inode_table, w.table)
  BY <1>1, <1>2, WalkResult
<1>4. /\ ref[r] = NoSlot /\ inode_table' = w.table /\ ref' = [ref EXCEPT ![r] = w.current]
      /\ UNCHANGED <<disk, view, linked>>
  BY <1>1 DEF walk_to, storeVars
<1>5. TypeOK'
  BY <1>3, <1>4 DEF DirInv, TypeOK, GoodTable
<1>6. GoodTable(inode_table')
  BY <1>3, <1>4
<1>7. \A s \in Slots : inode_table'[s].refcnt = Cardinality({q \in Refs : ref'[q] = s})
  <2>1. ref \in [Refs -> Slots \cup {NoSlot}]
    BY DEF DirInv, TypeOK
  <2>2. \A s \in Slots : inode_table[s].refcnt = Count(ref, s)
    BY DEF DirInv, Count
  <2>3. PICK rf, c : rf = ref /\ c = w.current
    OBVIOUS
  <2>4. rf \in [Refs -> Slots \cup {NoSlot}] /\ c \in Slots \cup {NoSlot} /\ rf[r] = NoSlot
    BY <1>3, <1>4, <2>1, <2>3
  <2>5. ASSUME NEW s \in Slots
        PROVE  Count([rf EXCEPT ![r] = c], s) = Count(rf, s) + IF s = c THEN 1 ELSE 0
    <3>1. PICK F : F = [Refs -> Slots \cup {NoSlot}]
      OBVIOUS
    <3>2. rf \in F /\ c \in Slots \cup {NoSlot} /\ rf[r] = NoSlot
      BY <2>4, <3>1
    <3>3. \A f \in F : \A d \in Slots \cup {NoSlot} : f[r] = NoSlot =>
              Count([f EXCEPT ![r] = d], s) = Count(f, s) + IF s = d THEN 1 ELSE 0
      BY <3>1, CountUp
    <3>4. QED
      BY <3>2, <3>3
  <2>6. ref' = [rf EXCEPT ![r] = c]
    BY <1>4, <2>3
  <2>7. ASSUME NEW s \in Slots
        PROVE  inode_table'[s].refcnt = Count(ref', s)
    <3>1. inode_table'[s].refcnt = inode_table[s].refcnt + IF s = c THEN 1 ELSE 0
      BY <1>3, <1>4, <2>3 DEF OneMore
    <3>2. inode_table[s].refcnt = Count(rf, s)
      BY <2>2, <2>3
    <3>3. Count(ref', s) = Count(rf, s) + IF s = c THEN 1 ELSE 0
      BY <2>5, <2>6
    <3>4. QED
      BY <3>1, <3>2, <3>3
  <2>8. QED
    BY <2>7 DEF Count
<1>8. ASSUME NEW n \in Inums
      PROVE  SizeIn(inode_table', view', n) = SizeIn(inode_table, view, n)
  <2>1. \A s \in Slots : inode_table[s].refcnt \in Nat /\ inode_table'[s].refcnt \in Nat
    BY <1>2, <1>6 DEF GoodTable, TableType
  <2>2. CASE \E s \in Slots : inode_table[s].refcnt > 0 /\ inode_table[s].number = n
    <3>1. PICK s \in Slots : inode_table[s].refcnt > 0 /\ inode_table[s].number = n
      BY <2>2
    <3>2. inode_table'[s].refcnt > 0 /\ inode_table'[s].number = n
          /\ inode_table'[s].size = inode_table[s].size
      BY <1>3, <1>4, <2>1, <3>1 DEF OneMore, KeepsInodes
    <3>3. QED
      BY <1>2, <1>6, <3>1, <3>2, SizeCases
  <2>3. CASE \A s \in Slots : ~(inode_table[s].refcnt > 0 /\ inode_table[s].number = n)
    <3>1. \A s \in Slots : inode_table'[s].refcnt > 0 /\ inode_table'[s].number = n
            => inode_table'[s].size = view.size[n]
      BY <1>3, <1>4, <2>1, <2>3 DEF KeepsInodes
    <3>2. SizeIn(inode_table, view, n) = view.size[n]
      BY <1>2, <2>3, SizeCases
    <3>3. SizeIn(inode_table', view', n) = view'.size[n] \/
          \E s \in Slots : /\ inode_table'[s].refcnt > 0 /\ inode_table'[s].number = n
                           /\ SizeIn(inode_table', view', n) = inode_table'[s].size
      BY <1>6, SizeCases
    <3>4. QED
      BY <1>4, <3>1, <3>2, <3>3
  <2>4. QED
    BY <2>2, <2>3
<1>9. Sizes' = Sizes
  BY <1>8, SizesAreSizeIn
<1>10. StoreInv(disk', view', Sizes', linked')
  BY <1>4, <1>9 DEF DirInv
<1>11. QED
  BY <1>5, <1>6, <1>7, <1>10 DEF DirInv

\* The end of an InodeRef.
LEMMA ReleaseInv ==
    ASSUME DirInv, NEW r \in Refs, release(r)
    PROVE  DirInv'
<1>1. PICK s : s = ref[r]
  OBVIOUS
<1>2. /\ s # NoSlot /\ inode_table' = put_inode(inode_table, s) /\ ref' = [ref EXCEPT ![r] = NoSlot]
      /\ UNCHANGED <<disk, view, linked>>
  BY <1>1 DEF release, storeVars
<1>3. s \in Slots /\ inode_table[s].refcnt > 0 /\ GoodTable(inode_table)
  BY <1>1, <1>2, RefHolds DEF DirInv
<1>4. /\ GoodTable(inode_table') /\ OneMore(inode_table', inode_table, s)
      /\ \A x \in Slots : inode_table'[x].refcnt > 0 => inode_table'[x].number = inode_table[x].number
                                                        /\ inode_table'[x].size = inode_table[x].size
  BY <1>2, <1>3, PutInode
<1>5. TypeOK'
  BY <1>2, <1>4 DEF DirInv, TypeOK, GoodTable
<1>6. \A x \in Slots : inode_table[x].refcnt \in Nat /\ inode_table'[x].refcnt \in Nat
  BY <1>3, <1>4 DEF GoodTable, TableType
<1>7. \A x \in Slots : inode_table'[x].refcnt = Cardinality({q \in Refs : ref'[q] = x})
  <2>1. ref \in [Refs -> Slots \cup {NoSlot}]
    BY DEF DirInv, TypeOK
  <2>2. \A x \in Slots : inode_table[x].refcnt = Count(ref, x)
    BY DEF DirInv, Count
  <2>3. \A x \in Slots : Count(ref', x) = Count(ref, x) - IF x = s THEN 1 ELSE 0
    BY <1>1, <1>2, <2>1, CountDown
  <2>4. \A x \in Slots : inode_table[x].refcnt = inode_table'[x].refcnt + IF x = s THEN 1 ELSE 0
    BY <1>4 DEF OneMore
  <2>5. \A x \in Slots : inode_table'[x].refcnt = Count(ref', x)
    BY <1>6, <2>2, <2>3, <2>4
  <2>6. QED
    BY <2>5 DEF Count
<1>8. /\ view \in StoreType /\ Sizes \in [Inums -> 0 .. MaxEntries] /\ SizesOrdered(disk, view, Sizes)
  BY DEF DirInv, StoreInv
<1>9. ASSUME NEW n \in Inums
      PROVE  Sizes'[n] = Sizes[n] \/ Sizes'[n] = view.size[n]
  <2>1. Sizes[n] = SizeIn(inode_table, view, n) /\ Sizes'[n] = SizeIn(inode_table', view', n)
    BY SizesAreSizeIn
  <2>2. CASE \E x \in Slots : inode_table'[x].refcnt > 0 /\ inode_table'[x].number = n
    <3>1. PICK x \in Slots : inode_table'[x].refcnt > 0 /\ inode_table'[x].number = n
      BY <2>2
    <3>2. inode_table[x].refcnt > 0 /\ inode_table[x].number = n
          /\ inode_table'[x].size = inode_table[x].size
      BY <1>4, <1>6, <3>1 DEF OneMore
    <3>3. QED
      BY <1>3, <1>4, <2>1, <3>1, <3>2, SizeCases
  <2>3. CASE \A x \in Slots : ~(inode_table'[x].refcnt > 0 /\ inode_table'[x].number = n)
    BY <1>2, <1>4, <2>1, <2>3, SizeCases
  <2>4. QED
    BY <2>2, <2>3
<1>10. Sizes' \in [Inums -> 0 .. MaxEntries]
  <2>1. \A n \in Inums : Sizes'[n] \in 0 .. MaxEntries
    BY <1>8, <1>9 DEF StoreType
  <2>2. QED
    BY <2>1, SizesAreSizeIn
<1>11. \A n \in Inums : disk.size[n] <= view.size[n] /\ view.size[n] <= Sizes'[n] /\ Sizes'[n] <= Sizes[n]
  <2>1. \A n \in Inums : Sizes[n] \in Nat /\ view.size[n] \in Nat /\ disk.size[n] <= view.size[n]
                         /\ view.size[n] <= Sizes[n]
    BY <1>8, EntryFacts DEF SizesOrdered, StoreType
  <2>2. QED
    BY <1>9, <2>1
<1>12. StoreInv(disk, view, Sizes', linked)
  <2>1. StoreInv(disk, view, Sizes, linked)
    BY DEF DirInv
  <2>2. \A n \in Inums, k \in Entries : view.data[n][k] \in {view.data[n][k], disk.data[n][k]}
    OBVIOUS
  <2>3. QED
    BY <1>8, <1>10, <1>11, <2>1, <2>2, Reverted
<1>13. QED
  BY <1>2, <1>4, <1>5, <1>7, <1>12 DEF DirInv

\* A crash, or a buffer that is recycled, in either of its forms.
LEMMA FaultInv ==
    ASSUME DirInv, recycle \/ crash
    PROVE  DirInv'
<1>1. /\ disk \in StoreType /\ view \in StoreType /\ Sizes \in [Inums -> 0 .. MaxEntries]
      /\ SizesOrdered(disk, view, Sizes) /\ StoreInv(disk, view, Sizes, linked)
      /\ GoodTable(inode_table) /\ ref \in [Refs -> Slots \cup {NoSlot}]
  BY DEF DirInv, StoreInv, TypeOK
<1>2. \A n \in Inums : /\ disk.size[n] \in Nat /\ view.size[n] \in Nat /\ Sizes[n] \in Nat
                       /\ disk.size[n] <= view.size[n] /\ view.size[n] <= Sizes[n]
  BY <1>1, EntryFacts DEF SizesOrdered, StoreType
<1>3. CASE recycle
  <2>1. UNCHANGED <<disk, inode_table, ref, linked>>
    BY <1>3 DEF recycle
  <2>2. /\ view' \in StoreType
        /\ \A n \in Inums : view'.size[n] = view.size[n] \/ view'.size[n] = disk.size[n]
        /\ \A n \in Inums, k \in Entries : view'.data[n][k] \in {view.data[n][k], disk.data[n][k]}
    <3>1. CASE view' = [view EXCEPT !.size = disk.size]
      <4>1. view'.size = disk.size /\ view'.data = view.data /\ view' \in StoreType
        BY <1>1, <3>1 DEF StoreType
      <4>2. QED
        BY <4>1
    <3>2. ASSUME NEW n \in Inums, NEW k \in Entries,
                 view' = [view EXCEPT !.data[n] = Merge(@, disk.data[n], Block(k))]
          PROVE  /\ view' \in StoreType
                 /\ \A m \in Inums : view'.size[m] = view.size[m] \/ view'.size[m] = disk.size[m]
                 /\ \A m \in Inums, j \in Entries : view'.data[m][j] \in {view.data[m][j], disk.data[m][j]}
      <4>1. PICK merged : merged = Merge(view.data[n], disk.data[n], Block(k))
        OBVIOUS
      <4>2. view.data[n] \in [Entries -> EntryType] /\ disk.data[n] \in [Entries -> EntryType]
        BY <1>1 DEF StoreType
      <4>3. /\ merged \in [Entries -> EntryType]
            /\ \A j \in Entries : merged[j] \in {view.data[n][j], disk.data[n][j]}
        BY <4>1, <4>2 DEF Merge
      <4>4. view'.size = view.size /\ view'.data = [view.data EXCEPT ![n] = merged] /\ view' \in StoreType
        BY <1>1, <3>2, <4>1, <4>3 DEF StoreType
      <4>5. view.data \in [Inums -> [Entries -> EntryType]]
        BY <1>1 DEF StoreType
      <4>6. QED
        BY <4>3, <4>4, <4>5
    <3>3. QED
      BY <1>3, <3>1, <3>2 DEF recycle
  <2>3. ASSUME NEW n \in Inums
        PROVE  Sizes'[n] = Sizes[n] \/ (Sizes'[n] = view'.size[n] /\ Sizes[n] = view.size[n])
    <3>1. Sizes[n] = SizeIn(inode_table, view, n) /\ Sizes'[n] = SizeIn(inode_table, view', n)
      BY <2>1, SizesAreSizeIn
    <3>2. QED
      BY <1>1, <3>1, SizeCases
  <2>4. \A n \in Inums : disk.size[n] <= view'.size[n] /\ view'.size[n] <= Sizes'[n] /\ Sizes'[n] <= Sizes[n]
    BY <1>2, <2>2, <2>3
  <2>5. Sizes' \in [Inums -> 0 .. MaxEntries]
    <3>1. \A n \in Inums : Sizes'[n] \in 0 .. MaxEntries
      BY <1>1, <2>2, <2>3 DEF StoreType
    <3>2. QED
      BY <3>1, SizesAreSizeIn
  <2>6. StoreInv(disk, view', Sizes', linked)
    BY <1>1, <2>2, <2>4, <2>5, Reverted
  <2>7. QED
    BY <1>1, <2>1, <2>2, <2>6 DEF DirInv, TypeOK, GoodTable
<1>4. CASE crash
  <2>1. /\ view' = disk /\ inode_table' = [s \in Slots |-> EmptySlot] /\ ref' = [r \in Refs |-> NoSlot]
        /\ UNCHANGED <<disk, linked>>
    BY <1>4 DEF crash
  <2>2. EmptySlot \in [number : Inums \cup {0}, refcnt : Nat, size : 0 .. MaxEntries]
        /\ EmptySlot.refcnt = 0
    BY EntryFacts DEF EmptySlot
  <2>3. GoodTable(inode_table')
    BY <2>1, <2>2 DEF GoodTable, TableType
  <2>4. TypeOK'
    BY <1>1, <2>1, <2>3 DEF TypeOK, GoodTable
  <2>5. \A s \in Slots : inode_table'[s].refcnt = Cardinality({r \in Refs : ref'[r] = s})
    <3>1. ASSUME NEW s \in Slots
          PROVE  {r \in Refs : ref'[r] = s} = {}
      BY <2>1, SlotFacts
    <3>2. \A s \in Slots : inode_table'[s].refcnt = 0
      BY <2>1, <2>2
    <3>3. QED
      BY <3>1, <3>2, FS_EmptySet
  <2>6. \A n \in Inums : Sizes'[n] = disk.size[n]
    <3>1. \A n \in Inums : Sizes'[n] = SizeIn(inode_table', view', n)
      BY SizesAreSizeIn
    <3>2. \A s \in Slots : ~(inode_table'[s].refcnt > 0)
      BY <2>1, <2>2
    <3>3. QED
      BY <2>1, <2>3, <3>1, <3>2, SizeCases
  <2>7. Sizes' \in [Inums -> 0 .. MaxEntries]
    <3>1. \A n \in Inums : Sizes'[n] \in 0 .. MaxEntries
      BY <1>1, <2>6 DEF StoreType
    <3>2. QED
      BY <3>1, SizesAreSizeIn
  <2>8. \A n \in Inums : disk.size[n] <= disk.size[n] /\ disk.size[n] <= Sizes'[n] /\ Sizes'[n] <= Sizes[n]
    BY <1>2, <2>6
  <2>9. \A n \in Inums, k \in Entries : disk.data[n][k] \in {view.data[n][k], disk.data[n][k]}
    OBVIOUS
  <2>10. StoreInv(disk, disk, Sizes', linked)
    BY <1>1, <2>7, <2>8, <2>9, Reverted
  <2>11. QED
    BY <2>1, <2>3, <2>4, <2>5, <2>10 DEF DirInv
<1>5. QED
  BY <1>3, <1>4

\* write_data() of one entry, at an offset and with a name that directory_link() chooses, or with a
\* device that works; L2 are links that it does not touch.
WritesEntry(s, n, k, e, o, u, L2) ==
    /\ s \in Slots /\ inode_table[s].refcnt > 0 /\ n = inode_table[s].number
    /\ k \in Entries /\ k <= inode_table[s].size
    /\ e \in EntryType /\ NulTerminated(e.name)
    /\ o \in Outcomes /\ u \in Outcomes
    /\ \/ k = inode_table[s].size \/ view.data[n][k].inode_number = 0
       \/ o = "written" /\ u = "written"
    /\ e.inode_number # 0 => \A j \in 0 .. inode_table[s].size - 1 :
           view.data[n][j].inode_number # 0 => view.data[n][j].name # e.name
    /\ \A l \in L2 : /\ l \in linked
                     /\ l[1] = n /\ k < inode_table[s].size => view.data[n][k] # Entry(l[2], l[3])
    /\ write_entry(s, k, e, o, u) /\ UNCHANGED ref

LEMMA WriteEntryInv ==
    ASSUME DirInv, NEW s, NEW n, NEW k, NEW e, NEW o, NEW u, NEW L2, WritesEntry(s, n, k, e, o, u, L2)
    PROVE  /\ TypeOK' /\ GoodTable(inode_table')
           /\ \A x \in Slots : inode_table'[x].refcnt = Cardinality({r \in Refs : ref'[r] = x})
           /\ StoreInv(disk', view', Sizes', L2)
           /\ o = "written" /\ u = "written" =>
                k < disk'.size[n] /\ disk'.data[n][k] = e /\ view'.data[n][k] = e
<1>0. /\ s \in Slots /\ inode_table[s].refcnt > 0 /\ n = inode_table[s].number
      /\ k \in Entries /\ k <= inode_table[s].size
      /\ write_entry(s, k, e, o, u) /\ UNCHANGED ref
  BY DEF WritesEntry
<1>1. /\ StoreInv(disk, view, Sizes, linked) /\ GoodTable(inode_table) /\ inode_table \in TableType
      /\ n \in Inums /\ ref \in [Refs -> Slots \cup {NoSlot}] /\ Sizes \in [Inums -> 0 .. MaxEntries]
      /\ view \in StoreType
  BY <1>0 DEF DirInv, GoodTable, TypeOK, StoreInv
<1>2. Sizes[n] = inode_table[s].size
  BY <1>0, <1>1, SizesAreSizeIn, SizeCases
<1>3. PICK z : z = Sized(Sizes, n, k, o)
  OBVIOUS
<1>4. view' = ViewAfter(view, Sizes, n, k, e, o, u)
  BY <1>0, <1>2 DEF write_entry, ViewAfter, Sized
<1>5. disk' = DiskAfter(disk, view, Sizes, n, k, e, o, u)
  BY <1>0, <1>2 DEF write_entry, DiskAfter, Sized
<1>6. inode_table' = [inode_table EXCEPT ![s].size = z]
  BY <1>0, <1>2, <1>3 DEF write_entry, Sized
<1>7. z \in 0 .. MaxEntries
  BY <1>0, <1>1, <1>3, EntryFacts DEF Sized, Entries
<1>8. /\ inode_table' \in TableType /\ inode_table'[s].size = z
      /\ \A x \in Slots : /\ inode_table'[x].refcnt = inode_table[x].refcnt
                          /\ inode_table'[x].number = inode_table[x].number
                          /\ x # s => inode_table'[x].size = inode_table[x].size
  BY <1>0, <1>1, <1>6, <1>7 DEF TableType
<1>9. GoodTable(inode_table')
  BY <1>1, <1>8 DEF GoodTable
<1>10. Sizes' = [Sizes EXCEPT ![n] = z]
  <2>1. ASSUME NEW m \in Inums
        PROVE  Sizes'[m] = IF m = n THEN z ELSE Sizes[m]
    <3>1. Sizes[m] = SizeIn(inode_table, view, m) /\ Sizes'[m] = SizeIn(inode_table', view', m)
      BY SizesAreSizeIn
    <3>2. CASE m = n
      <4>1. SizeIn(inode_table', view', n) = inode_table'[s].size
        BY <1>0, <1>8, <1>9, SizeCases
      <4>2. QED
        BY <1>0, <1>8, <3>1, <3>2, <4>1
    <3>3. CASE m # n /\ \E x \in Slots : inode_table[x].refcnt > 0 /\ inode_table[x].number = m
      <4>1. PICK x \in Slots : inode_table[x].refcnt > 0 /\ inode_table[x].number = m
        BY <3>3
      <4>2. x # s
        BY <1>0, <3>3, <4>1
      <4>3. SizeIn(inode_table, view, m) = inode_table[x].size
        BY <1>1, <4>1, SizeCases
      <4>4. SizeIn(inode_table', view', m) = inode_table'[x].size
        BY <1>8, <1>9, <4>1, SizeCases
      <4>5. QED
        BY <1>8, <3>1, <3>3, <4>2, <4>3, <4>4
    <3>4. CASE m # n /\ \A x \in Slots : ~(inode_table[x].refcnt > 0 /\ inode_table[x].number = m)
      <4>1. SizeIn(inode_table, view, m) = view.size[m]
        BY <1>1, <3>4, SizeCases
      <4>2. SizeIn(inode_table', view', m) = view'.size[m]
        BY <1>0, <1>8, <1>9, <3>4, SizeCases
      <4>3. view'.size[m] = view.size[m]
        BY <1>1, <1>4, <3>4 DEF ViewAfter, StoreType
      <4>4. QED
        BY <3>1, <3>4, <4>1, <4>2, <4>3
    <3>5. QED
      BY <3>2, <3>3, <3>4
  <2>2. QED
    BY <1>1, <2>1, SizesAreSizeIn
<1>11. /\ StoreInv(disk', view', Sizes', L2)
       /\ o = "written" /\ u = "written" =>
            k < disk'.size[n] /\ disk'.data[n][k] = e /\ view'.data[n][k] = e
  <2>1. PICK size : size = Sizes
    OBVIOUS
  <2>2. PICK size2 : size2 = Sizes'
    OBVIOUS
  <2>3. PICK d2 : d2 = disk'
    OBVIOUS
  <2>4. PICK v2 : v2 = view'
    OBVIOUS
  <2>5. CanWrite(disk, view, size, linked, n, k, e, o, u, L2)
    BY <1>1, <1>2, <2>1 DEF CanWrite, WritesEntry
  <2>6. /\ d2 = DiskAfter(disk, view, size, n, k, e, o, u) /\ v2 = ViewAfter(view, size, n, k, e, o, u)
        /\ size2 = [size EXCEPT ![n] = Sized(size, n, k, o)]
    BY <1>3, <1>4, <1>5, <1>10, <2>1, <2>2, <2>3, <2>4
  <2>7. /\ StoreInv(d2, v2, size2, L2)
        /\ o = "written" /\ u = "written" =>
             k < d2.size[n] /\ d2.data[n][k] = e /\ v2.data[n][k] = e
    <3>1. Writes(disk, view, size, linked, n, k, e, o, u, L2, d2, v2, size2)
      BY <2>5, <2>6 DEF Writes
    <3>2. QED
      BY <3>1, EntryWritten
  <2>8. QED
    BY <2>2, <2>3, <2>4, <2>7
<1>12. TypeOK'
  BY <1>0, <1>1, <1>8, <1>11 DEF TypeOK, StoreInv
<1>13. \A x \in Slots : inode_table'[x].refcnt = Cardinality({r \in Refs : ref'[r] = x})
  BY <1>0, <1>8 DEF DirInv
<1>14. QED
  BY <1>9, <1>11, <1>12, <1>13

\* An entry with a name and a number, or without.
LEMMA EntryIsEntry ==
    ASSUME NEW name, IsText(name), NEW m \in Inums \cup {0}
    PROVE  /\ Entry(name, m) \in EntryType /\ NulTerminated(Entry(name, m).name)
           /\ Entry(name, m).name = Padded(name) /\ Entry(name, m).inode_number = m
BY PaddedName DEF Entry, EntryType

LEMMA FreeIsEntry ==
    /\ Free \in EntryType /\ NulTerminated(Free.name) /\ Free.inode_number = 0
    /\ 0 \notin Inums
<1>1. IsText(<<>>)
  BY DEF IsText
<1>2. Inums \subseteq 1 .. MaxInum
  BY DirectoryConstants
<1>3. 0 \in Inums \cup {0}
  OBVIOUS
<1>4. Entry(<<>>, 0) \in EntryType /\ NulTerminated(Entry(<<>>, 0).name)
  BY <1>1, <1>3, EntryIsEntry
<1>5. 0 \notin Inums
  BY <1>2
<1>6. Entry(<<>>, 0).inode_number = 0
  BY DEF Entry
<1>7. QED
  BY <1>4, <1>5, <1>6, Zenon DEF Free

\* directory_link()
LEMMA LinkInv ==
    ASSUME DirInv, NEW r \in Refs, NEW link \in Links, directory_link(r, link[1], link[2])
    PROVE  DirInv'
<1>1. PICK name, m : name = link[1] /\ m = link[2] /\ IsText(name) /\ m \in Inums
  BY LinkTexts
<1>2. PICK s : s = ref[r]
  OBVIOUS
<1>3. PICK k : k = free_offset(s)
  OBVIOUS
<1>4. PICK o \in Outcomes, u \in Outcomes :
        /\ write_entry(s, k, Entry(name, m), o, u)
        /\ linked' = IF all_written(o, u) THEN linked \cup {<<inode_table[s].number, name, m>>}
                     ELSE linked
  BY <1>1, <1>2, <1>3 DEF directory_link
<1>5. /\ s # NoSlot /\ is_valid_name(name) /\ ~name_taken(s, name) /\ k < MaxEntries /\ UNCHANGED ref
  BY <1>1, <1>2, <1>3 DEF directory_link
<1>6. s \in Slots /\ inode_table[s].refcnt > 0
  BY <1>2, <1>5, RefHolds
<1>7. PICK n : n = inode_table[s].number /\ n \in Inums
  BY <1>2, <1>5, RefHolds
<1>8. PICK size : size = inode_table[s].size /\ size \in 0 .. MaxEntries
  BY <1>6 DEF DirInv, TypeOK, TableType
<1>9. PICK data : data = view.data[n] /\ data \in [Entries -> EntryType]
  BY <1>7 DEF DirInv, TypeOK, StoreType
<1>10. MaxEntries \in Nat /\ 0 .. size - 1 \subseteq Entries
  BY <1>8, EntryFacts
<1>11. /\ k \in Entries /\ k <= size
       /\ k = size \/ data[k].inode_number = 0
  <2>1. PICK S : S = {j \in 0 .. size - 1 : data[j].inode_number = 0} \cup {size}
    OBVIOUS
  <2>2. S \subseteq Nat /\ S # {}
    BY <1>8, <1>10, <2>1
  <2>3. k = Min(S)
    BY <1>3, <1>7, <1>8, <1>9, <2>1 DEF free_offset
  <2>4. k \in S
    BY <2>2, <2>3, MinIsFirst
  <2>5. QED
    BY <1>5, <1>8, <1>10, <2>1, <2>4 DEF Entries
<1>12. PICK e : e = Entry(name, m)
  OBVIOUS
<1>13. e \in EntryType /\ NulTerminated(e.name) /\ e.name = Padded(name) /\ e.inode_number = m
  BY <1>1, <1>12, EntryIsEntry
<1>14. ASSUME NEW j \in 0 .. size - 1, data[j].inode_number # 0
       PROVE  data[j].name # e.name
  <2>1. ~is_name_equal(data[j].name, name)
    BY <1>5, <1>7, <1>8, <1>9, <1>14 DEF name_taken, Named
  <2>2. data[j].name \in [1 .. DIRECTORY_NAME_SIZE -> Characters]
    BY <1>9, <1>10 DEF EntryType
  <2>3. NulTerminated(data[j].name)
    BY <1>7, <1>9, <1>10 DEF DirInv, StoreInv, Terminated
  <2>4. QED
    BY <1>1, <1>5, <1>13, <2>1, <2>2, <2>3, NameEqual
<1>15. ASSUME NEW l \in linked, l[1] = n, k < size
       PROVE  data[k] # Entry(l[2], l[3])
  <2>1. l[3] \in Inums /\ 0 \notin Inums
    BY FreeIsEntry DEF DirInv, StoreInv, IsLink
  <2>2. data[k].inode_number = 0
    BY <1>8, <1>10, <1>11, <1>15
  <2>3. Entry(l[2], l[3]).inode_number = l[3]
    BY DEF Entry
  <2>4. QED
    BY <2>1, <2>2, <2>3
<1>16. /\ TypeOK' /\ GoodTable(inode_table')
       /\ \A x \in Slots : inode_table'[x].refcnt = Cardinality({q \in Refs : ref'[q] = x})
       /\ StoreInv(disk', view', Sizes', linked)
       /\ o = "written" /\ u = "written" =>
            k < disk'.size[n] /\ disk'.data[n][k] = e /\ view'.data[n][k] = e
  <2>1. WritesEntry(s, n, k, e, o, u, linked)
    BY <1>4, <1>5, <1>6, <1>7, <1>8, <1>9, <1>11, <1>12, <1>13, <1>14, <1>15 DEF WritesEntry
  <2>2. PICK L : L = linked
    OBVIOUS
  <2>3. WritesEntry(s, n, k, e, o, u, L)
    BY <2>1, <2>2
  <2>4. QED
    BY <2>2, <2>3, WriteEntryInv
<1>17. CASE ~all_written(o, u)
  BY <1>4, <1>16, <1>17 DEF DirInv
<1>18. CASE all_written(o, u)
  <2>1. PICK new : new = <<n, name, m>>
    OBVIOUS
  <2>2. new[1] = n /\ new[2] = name /\ new[3] = m
    BY <2>1
  <2>3. linked' = linked \cup {new}
    BY <1>4, <1>7, <1>18, <2>1
  <2>4. IsLink(new)
    BY <1>1, <1>5, <1>7, <2>2 DEF IsLink
  <2>5. disk'.size[n] \in 0 .. MaxEntries
    BY <1>7, <1>16 DEF StoreInv, StoreType
  <2>6. k \in 0 .. disk'.size[n] - 1
    BY <1>10, <1>11, <1>16, <1>18, <2>5 DEF all_written, Entries
  <2>7. LinkIn(disk', view', new)
    BY <1>12, <1>16, <1>18, <2>2, <2>6 DEF LinkIn, all_written
  <2>8. StoreInv(disk', view', Sizes', linked')
    BY <1>16, <2>3, <2>4, <2>7 DEF StoreInv
  <2>9. QED
    BY <1>16, <2>8 DEF DirInv
<1>19. QED
  BY <1>17, <1>18

\* An entry that is cleared, with a device that works.
LEMMA ClearInv ==
    ASSUME DirInv, NEW r \in Refs, NEW k \in Entries, clear_entry(r, k)
    PROVE  DirInv'
<1>1. PICK s : s = ref[r]
  OBVIOUS
<1>2. /\ s # NoSlot /\ k < inode_table[s].size /\ UNCHANGED ref
      /\ write_entry(s, k, Free, "written", "written")
      /\ linked' = {l \in linked : \/ l[1] # inode_table[s].number
                                   \/ Padded(l[2]) # view.data[inode_table[s].number][k].name}
  BY <1>1 DEF clear_entry
<1>3. s \in Slots /\ inode_table[s].refcnt > 0
  BY <1>1, <1>2, RefHolds
<1>4. PICK n : n = inode_table[s].number
  OBVIOUS
<1>5. PICK e : e = Free
  OBVIOUS
<1>6. e \in EntryType /\ NulTerminated(e.name) /\ e.inode_number = 0
  BY <1>5, FreeIsEntry
<1>7. \A l \in linked' : /\ l \in linked
                         /\ l[1] = n /\ k < inode_table[s].size => view.data[n][k] # Entry(l[2], l[3])
  BY <1>2, <1>4 DEF Entry
<1>8. k <= inode_table[s].size
  BY <1>2, <1>3, EntryFacts DEF DirInv, TypeOK, TableType
<1>9. PICK L2 : L2 = linked'
  OBVIOUS
<1>10. PICK o, u : o = "written" /\ u = "written" /\ o \in Outcomes /\ u \in Outcomes
  BY DEF Outcomes
<1>11. /\ TypeOK' /\ GoodTable(inode_table')
       /\ \A x \in Slots : inode_table'[x].refcnt = Cardinality({q \in Refs : ref'[q] = x})
       /\ StoreInv(disk', view', Sizes', L2)
  <2>1. WritesEntry(s, n, k, e, o, u, L2)
    BY <1>2, <1>3, <1>4, <1>5, <1>6, <1>7, <1>8, <1>9, <1>10 DEF WritesEntry
  <2>2. QED
    BY <2>1, WriteEntryInv
<1>12. QED
  BY <1>9, <1>11 DEF DirInv

-----------------------------------------------------------------------------
(* The specification *)

\* format() leaves a root directory with its two names.
LEMMA InitInv ==
    ASSUME Init
    PROVE  DirInv
<1>1. /\ DIRECTORY_NAME_SIZE \in Nat /\ DIRECTORY_NAME_SIZE >= 2
  BY DirectoryConstants
<1>2. MaxEntries \in Nat /\ MaxEntries >= 2
  BY DirectoryConstants
<1>3. 1 \in Inums
  BY DirectoryConstants DEF ROOT_INODE
<1>4. "." \in Characters
  BY DirectoryConstants
<1>5. "." # Nul /\ "." # Slash
  BY DEF Nul, Slash
<1>6. PICK dot, dots : dot = <<".">> /\ dots = <<".", ".">>
  OBVIOUS
<1>7. /\ dot \in Seq(Characters) /\ Len(dot) = 1 /\ DOMAIN dot = 1 .. 1 /\ dot[1] = "."
      /\ dots \in Seq(Characters) /\ Len(dots) = 2 /\ DOMAIN dots = 1 .. 2
      /\ dots[1] = "." /\ dots[2] = "."
  BY <1>4, <1>6
<1>8. /\ \A k \in DOMAIN dot : dot[k] = "."
      /\ \A k \in DOMAIN dots : dots[k] = "."
  BY <1>7
<1>9. IsText(dot) /\ IsText(dots)
  BY <1>5, <1>7, <1>8 DEF IsText
<1>10. is_valid_name(dot) /\ is_valid_name(dots)
  <2>1. dot # <<>> /\ dots # <<>>
    BY <1>7
  <2>2. Len(dot) <= DIRECTORY_NAME_SIZE /\ Len(dots) <= DIRECTORY_NAME_SIZE
    BY <1>1, <1>7
  <2>3. (\A k \in DOMAIN dot : dot[k] # Slash) /\ (\A k \in DOMAIN dots : dots[k] # Slash)
    BY <1>5, <1>8
  <2>4. QED
    BY <2>1, <2>2, <2>3 DEF is_valid_name
<1>11. PICK e0, e1 : e0 = Entry(dot, 1) /\ e1 = Entry(dots, 1)
  OBVIOUS
<1>12. /\ e0 \in EntryType /\ NulTerminated(e0.name) /\ e0.name = Padded(dot) /\ e0.inode_number = 1
       /\ e1 \in EntryType /\ NulTerminated(e1.name) /\ e1.name = Padded(dots) /\ e1.inode_number = 1
  BY <1>3, <1>9, <1>11, EntryIsEntry
<1>13. e0.name # e1.name
  <2>1. 2 \in 1 .. DIRECTORY_NAME_SIZE
    BY <1>1
  <2>2. Padded(dot)[2] = Nul /\ Padded(dots)[2] = "."
    BY <1>7, <2>1 DEF Padded
  <2>3. QED
    BY <1>5, <1>12, <2>2
<1>14. PICK z : z = Free
  OBVIOUS
<1>15. z \in EntryType /\ NulTerminated(z.name) /\ z.inode_number = 0
  BY <1>14, FreeIsEntry
<1>16. PICK f : f = Formatted
  OBVIOUS
<1>17. /\ f = [size |-> f.size, data |-> f.data]
       /\ f.size = [n \in Inums |-> f.size[n]] /\ f.data = [n \in Inums |-> f.data[n]]
       /\ \A n \in Inums : f.data[n] = [k \in Entries |-> f.data[n][k]]
       /\ \A n \in Inums : f.size[n] = IF n = 1 THEN 2 ELSE 0
  BY <1>16 DEF Formatted, ROOT_INODE
<1>18. /\ \A n \in Inums, k \in Entries :
            f.data[n][k] = IF n = 1 /\ k = 0 THEN e0 ELSE IF n = 1 /\ k = 1 THEN e1 ELSE z
       /\ \A n \in Inums : f.size[n] = IF n = 1 THEN 2 ELSE 0
       /\ f \in StoreType
  <2>1. ASSUME NEW n \in Inums, NEW k \in Entries
        PROVE  f.data[n][k] = IF n = 1 /\ k = 0 THEN e0 ELSE IF n = 1 /\ k = 1 THEN e1 ELSE z
    <3>1. f.data[n][k] = CASE n = 1 /\ k = 0 -> Entry(<<".">>, 1)
                           [] n = 1 /\ k = 1 -> Entry(<<".", ".">>, 1)
                           [] OTHER          -> Free
      BY <1>16 DEF Formatted, ROOT_INODE
    <3>2. QED
      BY <1>6, <1>11, <1>14, <3>1
  <2>2. \A n \in Inums : f.data[n] \in [Entries -> EntryType]
    BY <1>12, <1>15, <1>17, <2>1
  <2>3. f.data \in [Inums -> [Entries -> EntryType]]
    BY <1>17, <2>2
  <2>4. f.size \in [Inums -> 0 .. MaxEntries]
    BY <1>2, <1>17
  <2>5. QED
    BY <1>17, <2>1, <2>3, <2>4 DEF StoreType
<1>19. PICK size : size = Sizes
  OBVIOUS
<1>20. /\ disk = f /\ view = f /\ inode_table = [s \in Slots |-> EmptySlot]
       /\ ref = [r \in Refs |-> NoSlot] /\ linked = {<<1, dot, 1>>, <<1, dots, 1>>}
  BY <1>6, <1>16 DEF Init, ROOT_INODE
<1>21. /\ inode_table \in TableType
       /\ \A s \in Slots : inode_table[s].refcnt = 0
  BY <1>2, <1>20 DEF TableType, EmptySlot
<1>22. GoodTable(inode_table)
  BY <1>21 DEF GoodTable
<1>23. ref \in [Refs -> Slots \cup {NoSlot}]
  BY <1>20
<1>24. \A n \in Inums : size[n] = f.size[n]
  BY <1>19, <1>20, <1>21, <1>22, SizesAreSizeIn, SizeCases
<1>25. size \in [Inums -> 0 .. MaxEntries]
  BY <1>18, <1>19, <1>24, SizesAreSizeIn DEF StoreType
<1>26. StoreInv(f, f, size, linked)
  <2>1. SizesOrdered(f, f, size)
    BY <1>2, <1>18, <1>24 DEF SizesOrdered
  <2>2. DeviceBehind(f, f, size)
    BY DEF DeviceBehind
  <2>3. Unique(f, size)
    <3>1. SUFFICES ASSUME NEW n \in Inums, NEW j \in 0 .. size[n] - 1, NEW k \in 0 .. size[n] - 1,
                          f.data[n][j].name = f.data[n][k].name
                   PROVE  j = k
      BY DEF Unique
    <3>2. n = 1 /\ j \in {0, 1} /\ k \in {0, 1} /\ j \in Entries /\ k \in Entries
      BY <1>2, <1>18, <1>24 DEF Entries
    <3>3. QED
      BY <1>13, <1>18, <3>1, <3>2
  <2>4. Terminated(f)
    BY <1>12, <1>15, <1>18 DEF Terminated
  <2>5. ASSUME NEW l \in linked
        PROVE  IsLink(l) /\ LinkIn(f, f, l)
    <3>1. 0 \in Entries /\ 1 \in Entries /\ 0 \in 0 .. f.size[1] - 1 /\ 1 \in 0 .. f.size[1] - 1
      BY <1>2, <1>3, <1>18 DEF Entries
    <3>2. f.data[1][0] = e0 /\ f.data[1][1] = e1
      BY <1>3, <1>18, <3>1
    <3>3. CASE l[1] = 1 /\ l[2] = dot /\ l[3] = 1
      BY <1>3, <1>9, <1>10, <1>11, <3>1, <3>2, <3>3 DEF IsLink, LinkIn
    <3>4. CASE l[1] = 1 /\ l[2] = dots /\ l[3] = 1
      BY <1>3, <1>9, <1>10, <1>11, <3>1, <3>2, <3>4 DEF IsLink, LinkIn
    <3>5. QED
      BY <1>20, <3>3, <3>4
  <2>6. QED
    BY <1>18, <1>25, <2>1, <2>2, <2>3, <2>4, <2>5 DEF StoreInv
<1>27. ASSUME NEW s \in Slots
       PROVE  inode_table[s].refcnt = Cardinality({r \in Refs : ref[r] = s})
  <2>1. {r \in Refs : ref[r] = s} = {}
    BY <1>20, SlotFacts
  <2>2. QED
    BY <1>21, <2>1, FS_EmptySet
<1>28. TypeOK
  BY <1>18, <1>20, <1>21, <1>23 DEF TypeOK
<1>29. QED
  BY <1>19, <1>20, <1>22, <1>26, <1>27, <1>28 DEF DirInv

\* Every call and every fault.
LEMMA DirInductive ==
    ASSUME DirInv, [Next]_vars
    PROVE  DirInv'
<1>1. CASE recycle \/ crash
  BY <1>1, FaultInv
<1>2. CASE \E r \in Refs : release(r)
  BY <1>2, ReleaseInv
<1>3. CASE \E r \in Refs : \E path \in Paths : resolve_path(r, path) \/ resolve_parent(r, path)
  <2>1. PICK r \in Refs, path \in Paths : walk_to(r, path, FALSE) \/ walk_to(r, path, TRUE)
    BY <1>3 DEF resolve_path, resolve_parent
  <2>2. TRUE \in BOOLEAN /\ FALSE \in BOOLEAN
    OBVIOUS
  <2>3. QED
    BY <2>1, <2>2, WalkToInv
<1>4. CASE \E r \in Refs : \E l \in Links : directory_link(r, l[1], l[2])
  BY <1>4, LinkInv
<1>5. CASE \E r \in Refs : \E k \in Entries : clear_entry(r, k)
  BY <1>5, ClearInv
<1>6. CASE UNCHANGED vars
  BY <1>6, SizesAreSizeIn DEF vars, storeVars, DirInv, TypeOK, SizeIn
<1>7. QED
  BY <1>1, <1>2, <1>3, <1>4, <1>5, <1>6 DEF Next

\* What the calls, the recycled buffers and the crashes keep: an inode has one slot, whose count is
\* that of the InodeRefs; the device is behind the cache; a reported link is in both.
THEOREM DirectoryInvariant == Spec => []DirInv
<1>1. Init => DirInv
  BY InitInv
<1>2. DirInv /\ [Next]_vars => DirInv'
  BY DirInductive
<1>3. QED
  BY <1>1, <1>2, PTL DEF Spec

\* walk(), get_inode() and put_inode(): the InodeRefs are the references that the table counts,
\* and an inode in use has one slot.
THEOREM RefsAreExact == Spec => []RefsExact
<1>1. ASSUME DirInv
      PROVE  RefsExact
  <2>1. ASSUME NEW n \in Inums
        PROVE  Cardinality(Held(inode_table, n)) <= 1
    <3>1. \A s, u \in Held(inode_table, n) : s = u
      BY <1>1 DEF DirInv, GoodTable, Held
    <3>2. CASE Held(inode_table, n) = {}
      <4>1. Cardinality(Held(inode_table, n)) = 0
        BY <3>2, FS_EmptySet
      <4>2. QED
        BY <4>1
    <3>3. CASE Held(inode_table, n) # {}
      <4>1. PICK s : Held(inode_table, n) = {s}
        BY <3>1, <3>3
      <4>2. Cardinality({s}) = 1
        BY FS_Singleton
      <4>3. QED
        BY <4>1, <4>2
    <3>4. QED
      BY <3>2, <3>3
  <2>2. QED
    BY <1>1, <2>1 DEF DirInv, RefsExact
<1>2. QED
  BY <1>1, DirectoryInvariant, PTL

\* directory_link(): no two entries of a directory have the same name, for its holders and on the
\* device, whatever writes fail and whatever buffers are recycled.
THEOREM NamesStayUnique == Spec => []NamesUnique
<1>1. ASSUME DirInv
      PROVE  NamesUnique
  <2>1. /\ Unique(view, Sizes) /\ DeviceBehind(disk, view, Sizes) /\ SizesOrdered(disk, view, Sizes)
        /\ disk \in StoreType /\ view \in StoreType /\ Sizes \in [Inums -> 0 .. MaxEntries] /\ TypeOK
    BY <1>1 DEF DirInv, StoreInv
  <2>2. ASSUME NEW n \in Directories, NEW p \in {<<SizeNow(n), view.data[n]>>, <<disk.size[n], disk.data[n]>>},
               NEW j \in 0 .. p[1] - 1, NEW k \in 0 .. p[1] - 1,
               p[2][j].inode_number # 0, p[2][k].inode_number # 0, p[2][j].name = p[2][k].name
        PROVE  j = k
    <3>1. n \in Inums /\ SizeNow(n) = Sizes[n]
      BY DEF Directories, Sizes
    <3>2. CASE p = <<SizeNow(n), view.data[n]>>
      <4>1. p[1] = Sizes[n] /\ p[2] = view.data[n]
        BY <3>1, <3>2
      <4>2. QED
        BY <2>1, <2>2, <3>1, <4>1 DEF Unique
    <3>3. CASE p = <<disk.size[n], disk.data[n]>>
      <4>1. p[1] = disk.size[n] /\ p[2] = disk.data[n]
        BY <3>3
      <4>2. /\ disk.size[n] \in 0 .. MaxEntries /\ view.size[n] \in 0 .. MaxEntries
            /\ Sizes[n] \in 0 .. MaxEntries /\ disk.size[n] <= view.size[n] /\ view.size[n] <= Sizes[n]
        BY <2>1, <3>1 DEF StoreType, SizesOrdered
      <4>3. j \in 0 .. Sizes[n] - 1 /\ k \in 0 .. Sizes[n] - 1
        BY <4>1, <4>2, EntryFacts
      <4>4. disk.data[n][j] = view.data[n][j] /\ disk.data[n][k] = view.data[n][k]
        BY <2>1, <2>2, <3>1, <4>1, <4>3 DEF DeviceBehind
      <4>5. QED
        BY <2>1, <2>2, <3>1, <4>1, <4>3, <4>4 DEF Unique
    <3>4. QED
      BY <3>2, <3>3
  <2>3. QED
    BY <2>1, <2>2 DEF NamesUnique
<1>2. QED
  BY <1>1, DirectoryInvariant, PTL

\* A directory without two entries of a name, and with one of this name.
Has(data, size, l) ==
    /\ data \in [Entries -> EntryType] /\ size \in 0 .. MaxEntries /\ IsLink(l)
    /\ \A k \in 0 .. size - 1 : NulTerminated(data[k].name)
    /\ \A j, k \in 0 .. size - 1 :
        /\ data[j].inode_number # 0 /\ data[k].inode_number # 0 /\ data[j].name = data[k].name
        => j = k
    /\ \E k \in 0 .. size - 1 : data[k] = Entry(l[2], l[3])

LEMMA LookupFinds ==
    ASSUME NEW data, NEW size, NEW l, Has(data, size, l)
    PROVE  directory_lookup("kDirectory", data, size, l[2]) = l[3]
<1>1. PICK name, m : name = l[2] /\ m = l[3] /\ m \in Inums /\ IsText(name) /\ is_valid_name(name)
  BY DEF Has, IsLink
<1>2. PICK k \in 0 .. size - 1 : data[k] = Entry(name, m)
  BY <1>1 DEF Has
<1>3. data[k].name = Padded(name) /\ data[k].inode_number = m /\ m # 0
  BY <1>1, <1>2, EntryIsEntry, FreeIsEntry
<1>4. \A j \in 0 .. size - 1 : /\ data[j].name \in [1 .. DIRECTORY_NAME_SIZE -> Characters]
                               /\ NulTerminated(data[j].name)
  BY EntryFacts DEF Has, EntryType
<1>5. \A j \in 0 .. size - 1 : is_name_equal(data[j].name, name) <=> data[j].name = Padded(name)
  BY <1>1, <1>4, NameEqual
<1>6. PICK S : S = Named(data, size, name)
  OBVIOUS
<1>7. S = {k}
  <2>1. k \in S
    BY <1>3, <1>5, <1>6 DEF Named
  <2>2. ASSUME NEW j \in S
        PROVE  j = k
    <3>1. j \in 0 .. size - 1 /\ data[j].inode_number # 0 /\ data[j].name = Padded(name)
      BY <1>5, <1>6 DEF Named
    <3>2. QED
      BY <1>3, <3>1 DEF Has
  <2>3. QED
    BY <2>1, <2>2
<1>8. Min(S) = k
  <2>1. S \subseteq Nat /\ S # {}
    BY <1>7, EntryFacts DEF Has
  <2>2. QED
    BY <1>7, <2>1, MinIsFirst
<1>9. QED
  BY <1>1, <1>3, <1>6, <1>7, <1>8 DEF directory_lookup

\* directory_link() and directory_lookup(): a name whose link was reported is found, by every
\* holder and after a power failure.
THEOREM LinksAreFound == Spec => []LinkedFound
<1>1. ASSUME DirInv
      PROVE  LinkedFound
  <2>1. SUFFICES ASSUME NEW l \in linked
                 PROVE  /\ directory_lookup("kDirectory", view.data[l[1]], SizeNow(l[1]), l[2]) = l[3]
                        /\ directory_lookup("kDirectory", disk.data[l[1]], disk.size[l[1]], l[2]) = l[3]
    BY DEF LinkedFound
  <2>2. /\ Unique(view, Sizes) /\ DeviceBehind(disk, view, Sizes) /\ SizesOrdered(disk, view, Sizes)
        /\ disk \in StoreType /\ view \in StoreType /\ Sizes \in [Inums -> 0 .. MaxEntries]
        /\ Terminated(disk) /\ Terminated(view) /\ IsLink(l) /\ LinkIn(disk, view, l)
    BY <1>1 DEF DirInv, StoreInv
  <2>3. PICK n : n = l[1] /\ n \in Inums /\ SizeNow(n) = Sizes[n]
    BY <2>2 DEF IsLink, Sizes
  <2>4. /\ disk.size[n] \in 0 .. MaxEntries /\ view.size[n] \in 0 .. MaxEntries
        /\ Sizes[n] \in 0 .. MaxEntries /\ disk.size[n] <= view.size[n] /\ view.size[n] <= Sizes[n]
        /\ disk.data[n] \in [Entries -> EntryType] /\ view.data[n] \in [Entries -> EntryType]
    BY <2>2, <2>3 DEF StoreType, SizesOrdered
  <2>5. \A k \in 0 .. disk.size[n] - 1 : k \in 0 .. Sizes[n] - 1 /\ k \in Entries
    BY <2>4, EntryFacts
  <2>6. \A k \in 0 .. Sizes[n] - 1 : k \in Entries
    BY <2>4, EntryFacts
  <2>7. Has(view.data[n], Sizes[n], l)
    BY <2>2, <2>3, <2>4, <2>5, <2>6 DEF Has, Unique, Terminated, LinkIn
  <2>8. Has(disk.data[n], disk.size[n], l)
    <3>1. ASSUME NEW j \in 0 .. disk.size[n] - 1, disk.data[n][j].inode_number # 0
          PROVE  disk.data[n][j] = view.data[n][j] /\ j \in 0 .. Sizes[n] - 1
      BY <2>2, <2>3, <2>5, <3>1 DEF DeviceBehind
    <3>2. ASSUME NEW j \in 0 .. disk.size[n] - 1, NEW k \in 0 .. disk.size[n] - 1,
                 disk.data[n][j].inode_number # 0, disk.data[n][k].inode_number # 0,
                 disk.data[n][j].name = disk.data[n][k].name
          PROVE  j = k
      <4>1. /\ disk.data[n][j] = view.data[n][j] /\ j \in 0 .. Sizes[n] - 1
            /\ disk.data[n][k] = view.data[n][k] /\ k \in 0 .. Sizes[n] - 1
        BY <3>1, <3>2
      <4>2. QED
        BY <2>2, <2>3, <3>2, <4>1 DEF Unique
    <3>3. \A k \in 0 .. disk.size[n] - 1 : NulTerminated(disk.data[n][k].name)
      BY <2>2, <2>3, <2>5 DEF Terminated
    <3>4. \E k \in 0 .. disk.size[n] - 1 : disk.data[n][k] = Entry(l[2], l[3])
      BY <2>2, <2>3 DEF LinkIn
    <3>5. QED
      BY <2>2, <2>4, <3>2, <3>3, <3>4 DEF Has
  <2>9. QED
    BY <2>3, <2>7, <2>8, LookupFinds
<1>2. QED
  BY <1>1, DirectoryInvariant, PTL
=============================================================================
