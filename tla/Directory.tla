----------------------------- MODULE Directory -----------------------------
(***************************************************************************)
(* Directories and paths (include/directory.cpp, path.cpp) on top of the   *)
(* inode table.                                                            *)
(*                                                                         *)
(* Calls do not interleave, so each is one step.  What module FileSystem   *)
(* shows of write_data() is taken from there: a directory is a sequence of *)
(* entries in blocks, and device errors leave the cache (view) ahead of    *)
(* the device (disk), in a data block or in the block of the inodes.       *)
(* Offsets and sizes count entries.  A call that is refused, or that a     *)
(* read error ends, changes nothing and is not a step.                     *)
(***************************************************************************)
EXTENDS Integers, Sequences, FiniteSetsExt, TLC

CONSTANTS DIRECTORY_NAME_SIZE,
          NUM_INODE,         \* slots of inode_table
          EntriesPerBlock,
          MaxEntries,        \* bound: entries of a directory, in its direct blocks
          Type,              \* the types of the inodes
          Characters,        \* of names and paths
          Refs,              \* InodeRef objects of clients
          Links,             \* bound: the names and inodes that clients link, <<name, number>>
          Paths              \* bound: the paths that clients resolve

Slash == "/"
Nul   == "\\0"

Inums      == DOMAIN Type
ROOT_INODE == 1
MaxInum    == 65535       \* of an entry's inode_number, a uint16_t
Slots      == 0 .. NUM_INODE - 1
NoSlot     == -1
Entries    == 0 .. MaxEntries - 1

ASSUME DirectoryConstants ==
    /\ DIRECTORY_NAME_SIZE \in Nat /\ DIRECTORY_NAME_SIZE >= 2
    /\ NUM_INODE \in Nat \ {0}
    /\ EntriesPerBlock \in Nat \ {0} /\ MaxEntries \in Nat /\ MaxEntries >= 2
    /\ Type \in [Inums -> {"kUnused", "kDirectory", "kFile"}]
    /\ Inums \subseteq 1 .. MaxInum /\ ROOT_INODE \in Inums /\ Type[ROOT_INODE] = "kDirectory"
    /\ {Slash, Nul, "."} \subseteq Characters
    /\ IsFiniteSet(Refs)

\* Clients' names and paths end before the first zero.
IsText(s) == s \in Seq(Characters) /\ \A k \in DOMAIN s : s[k] # Nul
ASSUME LinkTexts == \A l \in Links : IsText(l[1]) /\ l[2] \in Inums
ASSUME PathTexts == \A p \in Paths : IsText(p)

VARIABLES
    disk, view,     \* what the device holds, and what the cache shows: sizes and entries
    inode_table,    \* a slot that nobody refers to is EmptySlot
    ref,            \* the slot an InodeRef points to
    linked          \* history: <<directory, name, number>> that directory_link() reported

storeVars == <<disk, view>>
vars == <<storeVars, inode_table, ref, linked>>

-----------------------------------------------------------------------------
(* Names and entries *)

\* The name as the entry has it: filled up with zeros, without one if it is as long as the field.
Padded(name) == [k \in 1 .. DIRECTORY_NAME_SIZE |-> IF k <= Len(name) THEN name[k] ELSE Nul]
Entry(name, n) == [name |-> Padded(name), inode_number |-> n]
Free == Entry(<<>>, 0)

is_valid_name(name) ==
    /\ name # <<>> /\ Len(name) <= DIRECTORY_NAME_SIZE
    /\ \A k \in DOMAIN name : name[k] # Slash

is_name_equal(entry_name, name) ==
    /\ Len(name) <= DIRECTORY_NAME_SIZE
    /\ \A k \in DOMAIN name : entry_name[k] = name[k]
    /\ Len(name) = DIRECTORY_NAME_SIZE \/ entry_name[Len(name) + 1] = Nul

Named(data, size, name) ==
    {k \in 0 .. size - 1 : data[k].inode_number # 0 /\ is_name_equal(data[k].name, name)}

\* The number of the first entry with that name, 0 if there is none.
directory_lookup(type, data, size, name) ==
    IF type # "kDirectory" \/ ~is_valid_name(name) \/ Named(data, size, name) = {} THEN 0
    ELSE data[Min(Named(data, size, name))].inode_number

-----------------------------------------------------------------------------
(* The inode table, as get_inode() and put_inode() change it *)

EmptySlot  == [number |-> 0, refcnt |-> 0, size |-> 0]
Unused(table) == {s \in Slots : table[s].refcnt = 0}
Held(table, n) == {s \in Slots : table[s].refcnt > 0 /\ table[s].number = n}

got(table, s) == [table |-> table, slot |-> s]
get_inode(table, n) ==
    IF Held(table, n) # {}
    THEN LET s == Min(Held(table, n)) IN got([table EXCEPT ![s].refcnt = @ + 1], s)
    ELSE IF Unused(table) # {}
    THEN LET s == Min(Unused(table))
         IN  got([table EXCEPT ![s] = [number |-> n, refcnt |-> 1, size |-> view.size[n]]], s)
    ELSE got(table, NoSlot)

put_inode(table, s) ==
    LET node == table[s]
    IN  [table EXCEPT ![s] = IF node.refcnt > 1 THEN [node EXCEPT !.refcnt = node.refcnt - 1]
                             ELSE EmptySlot]

-----------------------------------------------------------------------------
(* Paths *)

\* The next name and what is behind it; the name is empty if there is none.
next_component(rest) ==
    LET begin == Min({k \in 1 .. Len(rest) : rest[k] # Slash} \cup {Len(rest) + 1})
        end   == Min({k \in begin .. Len(rest) : rest[k] = Slash} \cup {Len(rest) + 1})
    IN  [name |-> SubSeq(rest, begin, end - 1), rest |-> SubSeq(rest, end, Len(rest))]

\* A test that takes a slash at the end for a component.
has_component_any(rest) == rest # <<>>
has_component(rest) == \E k \in DOMAIN rest : rest[k] # Slash

\* walk() forgets to release the inode it has come to.
lost_kept(w) == [w EXCEPT !.done = TRUE, !.current = NoSlot]
\* walk() returns an empty InodeRef; the destructor releases the inode it has come to.
lost(w) == [w EXCEPT !.done = TRUE, !.current = NoSlot, !.table = put_inode(@, w.current)]

\* The next inode is taken before the current one is released.
descend(w, rest, n) ==
    LET g == get_inode(w.table, n)
    IN  [w EXCEPT !.rest = rest, !.current = g.slot, !.table = put_inode(g.table, w.current),
                  !.done = g.slot = NoSlot]

\* One round of the loop in walk().
walk_step(w, stop_before_last) ==
    LET here  == w.table[w.current]
        next  == next_component(w.rest)
        found == directory_lookup(Type[here.number], view.data[here.number], here.size, next.name)
    IN  IF w.done THEN w
        ELSE IF next.name = <<>> THEN [w EXCEPT !.done = TRUE]
        ELSE IF stop_before_last /\ ~has_component(next.rest)
        THEN IF Type[here.number] = "kDirectory"
             THEN [w EXCEPT !.done = TRUE, !.last = next.name] ELSE lost(w)
        ELSE IF found = 0 THEN lost(w)
        ELSE descend(w, next.rest, found)

\* walk(): current is the slot that the result refers to in table.
walk(path, stop_before_last) ==
    LET root  == get_inode(inode_table, ROOT_INODE)
        start == [rest |-> path, current |-> root.slot, table |-> root.table, last |-> <<>>,
                  done |-> root.slot = NoSlot]
        loop[k \in 0 .. Len(path)] ==
            IF k = 0 THEN start ELSE walk_step(loop[k - 1], stop_before_last)
        end   == loop[Len(path)]
    IN  IF path = <<>> THEN [start EXCEPT !.current = NoSlot, !.table = inode_table]
        ELSE IF stop_before_last /\ end.last = <<>> /\ end.current # NoSlot THEN lost(end)
        ELSE end

walk_to(r, path, stop_before_last) ==
    /\ ref[r] = NoSlot
    /\ LET w == walk(path, stop_before_last)
       IN  inode_table' = w.table /\ ref' = [ref EXCEPT ![r] = w.current]
    /\ UNCHANGED <<storeVars, linked>>

resolve_path(r, path)   == walk_to(r, path, FALSE)
resolve_parent(r, path) == walk_to(r, path, TRUE)

\* The end of an InodeRef.
release(r) ==
    /\ ref[r] # NoSlot
    /\ inode_table' = put_inode(inode_table, ref[r])
    /\ ref' = [ref EXCEPT ![r] = NoSlot]
    /\ UNCHANGED <<storeVars, linked>>

-----------------------------------------------------------------------------
(* directory_link() *)

Outcomes == {"written", "write_error", "read_error"}

Block(k)     == {j \in Entries : j \div EntriesPerBlock = k \div EntriesPerBlock}
Merge(old, new, part) == [x \in DOMAIN old |-> IF x \in part THEN new[x] ELSE old[x]]

\* write_data() of one entry, which lies in one block: the block, then the inode.  Without a
\* block, or if the device refuses it, no entry is written and the size stays.
write_entry(s, offset, entry, d, u) ==
    LET n    == inode_table[s].number
        data == [view.data[n] EXCEPT ![offset] = entry]
        size == IF d = "written" /\ offset = inode_table[s].size THEN offset + 1
                ELSE inode_table[s].size
        sizes == [view.size EXCEPT ![n] = size]
    IN  /\ view' = [size |-> IF u = "read_error" THEN view.size ELSE sizes,
                    data |-> IF d = "read_error" THEN view.data
                             ELSE [view.data EXCEPT ![n] = data]]
        /\ disk' = [size |-> IF u = "written" THEN sizes ELSE disk.size,
                    data |-> IF d # "written" THEN disk.data
                             ELSE [disk.data EXCEPT ![n] = Merge(@, data, Block(offset))]]
        /\ inode_table' = [inode_table EXCEPT ![s].size = size]

\* The first free entry of the directory in slot s, or its end.
free_offset(s) ==
    LET node == inode_table[s]
    IN  Min({k \in 0 .. node.size - 1 : view.data[node.number][k].inode_number = 0}
            \cup {node.size})

\* A directory_link() that stops looking for the name at the first free entry.
name_taken_before_free(s, name) ==
    Named(view.data[inode_table[s].number], free_offset(s), name) # {}
\* Does the directory have the name?
name_taken(s, name) ==
    Named(view.data[inode_table[s].number], inode_table[s].size, name) # {}

\* A write_data() that does not look at the result of update_inode().
all_written_but_inode(d, u) == d = "written"
\* write_data() returns the size of the entry.
all_written(d, u) == d = "written" /\ u = "written"

directory_link(r, name, n) ==
    LET s == ref[r]
    IN  /\ s # NoSlot
        /\ Type[inode_table[s].number] = "kDirectory" /\ is_valid_name(name)
        /\ ~name_taken(s, name)
        /\ free_offset(s) < MaxEntries
        /\ \E d, u \in Outcomes :
            /\ write_entry(s, free_offset(s), Entry(name, n), d, u)
            /\ linked' = IF all_written(d, u)
                         THEN linked \cup {<<inode_table[s].number, name, n>>} ELSE linked
        /\ UNCHANGED ref

\* How the tests remove an entry, with a device that works: there is no unlink yet.
clear_entry(r, k) ==
    LET s == ref[r]
        number == inode_table[s].number
    IN  /\ s # NoSlot /\ k < inode_table[s].size
        /\ Type[number] = "kDirectory"
        /\ \E l \in Links : view.data[number][k] = Entry(l[1], l[2])
        /\ write_entry(s, k, Free, "written", "written")
        /\ linked' = {l \in linked : l[1] # number \/ Padded(l[2]) # view.data[number][k].name}
        /\ UNCHANGED ref

-----------------------------------------------------------------------------
(* Faults *)

\* A buffer is recycled: a change that the device refused is forgotten.
recycle ==
    /\ \/ /\ view.size # disk.size
          /\ view' = [view EXCEPT !.size = disk.size]
       \/ \E n \in Inums, k \in Entries :
            /\ \E j \in Block(k) : view.data[n][j] # disk.data[n][j]
            /\ k % EntriesPerBlock = 0
            /\ view' = [view EXCEPT !.data[n] = Merge(@, disk.data[n], Block(k))]
    /\ UNCHANGED <<disk, inode_table, ref, linked>>

\* The machine stops and boots again.
crash ==
    /\ view' = disk
    /\ inode_table' = [s \in Slots |-> EmptySlot]
    /\ ref' = [r \in Refs |-> NoSlot]
    /\ UNCHANGED <<disk, linked>>

-----------------------------------------------------------------------------
\* format() has made a root with "." and ".."; other directories are empty.
Formatted ==
    [size |-> [n \in Inums |-> IF n = ROOT_INODE THEN 2 ELSE 0],
     data |-> [n \in Inums |-> [k \in Entries |->
         CASE n = ROOT_INODE /\ k = 0 -> Entry(<<".">>, ROOT_INODE)
           [] n = ROOT_INODE /\ k = 1 -> Entry(<<".", ".">>, ROOT_INODE)
           [] OTHER                   -> Free]]]

Init ==
    /\ disk = Formatted /\ view = Formatted
    /\ inode_table = [s \in Slots |-> EmptySlot]
    /\ ref = [r \in Refs |-> NoSlot]
    /\ linked = {<<ROOT_INODE, <<".">>, ROOT_INODE>>, <<ROOT_INODE, <<".", ".">>, ROOT_INODE>>}

Next ==
    \/ recycle \/ crash
    \/ \E r \in Refs :
        \/ release(r)
        \/ \E path \in Paths : resolve_path(r, path) \/ resolve_parent(r, path)
        \/ \E l \in Links : directory_link(r, l[1], l[2])
        \/ \E k \in Entries : clear_entry(r, k)

Spec == Init /\ [][Next]_vars

\* InodeRefs are interchangeable.
RefSymmetry == Permutations(Refs)

-----------------------------------------------------------------------------
(* Properties *)

\* The directory n as its holders see it, or else the next one to take it.
SizeNow(n) == IF Held(inode_table, n) = {} THEN view.size[n]
              ELSE inode_table[Min(Held(inode_table, n))].size
Directories == {n \in Inums : Type[n] = "kDirectory"}

EntryType == [name : [1 .. DIRECTORY_NAME_SIZE -> Characters], inode_number : Inums \cup {0}]
StoreType == [size : [Inums -> 0 .. MaxEntries], data : [Inums -> [Entries -> EntryType]]]
TableType == [Slots -> [number : Inums \cup {0}, refcnt : Nat, size : 0 .. MaxEntries]]

TypeOK ==
    /\ disk \in StoreType /\ view \in StoreType
    /\ inode_table \in TableType
    /\ ref \in [Refs -> Slots \cup {NoSlot}]

\* The type invariant, and directory_link(): no two entries of a directory have the same
\* name, for its holders and on the device, although one scan looks for the name and for a
\* free entry, and although a link that failed may have left its entry.
NamesUnique ==
    /\ TypeOK
    /\ \A n \in Directories :
        \A size_data \in {<<SizeNow(n), view.data[n]>>, <<disk.size[n], disk.data[n]>>} :
            \A j, k \in 0 .. size_data[1] - 1 :
                LET e == size_data[2][j]
                    f == size_data[2][k]
                IN  e.inode_number # 0 /\ f.inode_number # 0 /\ e.name = f.name => j = k

\* directory_link() and directory_lookup(): a name whose link was reported is found, with its
\* number, by every holder, and would be after a power failure, whatever links failed since,
\* or before, and whatever buffers were recycled.
LinkedFound ==
    \A l \in linked :
        /\ directory_lookup("kDirectory", view.data[l[1]], SizeNow(l[1]), l[2]) = l[3]
        /\ directory_lookup("kDirectory", disk.data[l[1]], disk.size[l[1]], l[2]) = l[3]

\* The names of a path, and where they lead from the root; 0 is nowhere.
Components(path) ==
    LET starts == {k \in 1 .. Len(path) : path[k] # Slash /\ (k = 1 \/ path[k - 1] = Slash)}
        ends   == {k \in 1 .. Len(path) : path[k] # Slash /\ (k = Len(path) \/ path[k + 1] = Slash)}
        nth(S, i) == CHOOSE k \in S : Cardinality({j \in S : j <= k}) = i
    IN  [i \in 1 .. Cardinality(starts) |-> SubSeq(path, nth(starts, i), nth(ends, i))]
Child(n, name) ==
    LET with == {k \in 0 .. SizeNow(n) - 1 :
                    /\ view.data[n][k].inode_number # 0
                    /\ SelectSeq(view.data[n][k].name, LAMBDA c : c # Nul) = name}
    IN  IF n \notin Directories \/ with = {} THEN 0
        ELSE view.data[n][CHOOSE k \in with : TRUE].inode_number
Target(names) ==
    LET after[k \in 0 .. Len(names)] == IF k = 0 THEN ROOT_INODE ELSE Child(after[k - 1], names[k])
    IN  after[Len(names)]

\* resolve_path() and resolve_parent(): a path leads where its names lead, slashes more or
\* less (path.hpp:14); the parent of a path and its last name are those of the names.  Two empty
\* slots are enough for any path, and with fewer the walk may only come back empty-handed.
PathsResolve ==
    \A path \in Paths :
        LET names   == Components(path)
            n       == Len(names)
            to      == walk(path, FALSE)
            parent  == walk(path, TRUE)
            number(w) == IF w.current = NoSlot THEN 0 ELSE w.table[w.current].number
            room    == Cardinality(Unused(inode_table)) >= 2
            whole   == IF path = <<>> THEN 0 ELSE Target(names)
            before  == IF n = 0 THEN 0 ELSE Target(SubSeq(names, 1, n - 1))
        IN  /\ number(to) \in {whole} \cup IF room THEN {} ELSE {0}
            /\ number(parent) \in {IF before \in Directories THEN before ELSE 0}
                                  \cup IF room THEN {} ELSE {0}
            /\ number(parent) # 0 => parent.last = names[n]

\* walk(): the inode it returns is the only one it still refers to, and none if it fails; an inode
\* in use has one slot.
RefsExact ==
    /\ \A s \in Slots : inode_table[s].refcnt = Cardinality({r \in Refs : ref[r] = s})
    /\ \A n \in Inums : Cardinality(Held(inode_table, n)) <= 1
=============================================================================
