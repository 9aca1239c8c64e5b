----------------------------- MODULE VmmProofs -----------------------------
(***************************************************************************)
(* Proofs about module Vmm.                                                *)
(*                                                                         *)
(* The user half of an address space is a tree.  A place in it has a       *)
(* number: 1 is the PML4, and entry i of the table at place n leads to     *)
(* place 2 * n + i, so that the pages of the user are at 16 .. 23.  The    *)
(* proofs speak of nd[s][n], the page at place n of process s, or None.    *)
(* The state says all about the pages that the properties need once these  *)
(* are known to be different pages, and the memory is changed by a few     *)
(* elementary steps: a page is taken, scratched, hung into a tree, dropped.*)
(***************************************************************************)
EXTENDS Vmm, WellFoundedInduction, TLAPS

Inner  == {1, 2, 4, 5} \cup 8 .. 11
Leaves == 16 .. 23
Places == Inner \cup Leaves
Slot(n, i) == n \in Inner /\ i \in Index /\ (n = 1 => i = 0)

\* The place of a page of the user half.
Key(va) == 16 + 4 * va[2] + 2 * va[3] + va[4]

\* The entry that leads to page q: in the user half all have the User bit.
Leading(q) == IF q = None THEN None ELSE [page |-> q, user |-> TRUE]
TableSet(P) == [Index -> [page : P, user : BOOLEAN] \cup {None}]

\* Pages are numbers of bitmap_; the kernel image is among them.
Numbers(P) == P \subseteq 0 .. MAX_PAGES - 1
Sizes(P, bm, tab) ==
    /\ P \subseteq 0 .. MAX_PAGES - 1 /\ KernelPages \subseteq P
    /\ bm \subseteq 0 .. MAX_PAGES - 1
    /\ tab \in [P -> TableSet(P)]

\* The tables and the trees agree.
Tree(P, tab, sp, nd) ==
    /\ sp \in [Procs -> P \cup {None}]
    /\ nd \in [Procs -> [Places -> P \cup {None}]]
    /\ \A s \in Procs : nd[s][1] = sp[s]
    /\ \A s \in Procs : \A n, i :
        Slot(n, i) => IF nd[s][n] = None THEN nd[s][2 * n + i] = None
                      ELSE tab[nd[s][n]][i] = Leading(nd[s][2 * n + i])

\* Each page is at one place, the kernel's (K) and those in hand (H) at none, and what is
\* marked used is at a place, the kernel's or in hand.
Once(P, bm, nd, K, H) ==
    /\ KernelPages \subseteq K /\ K \subseteq P /\ H \subseteq P /\ K \cap H = {}
    /\ \A s, t \in Procs : \A n, k \in Places :
        nd[s][n] = nd[t][k] /\ nd[s][n] # None => s = t /\ n = k
    /\ \A s \in Procs : \A n \in Places : nd[s][n] \notin K /\ nd[s][n] \notin H
    /\ \A x \in P : x \in bm <=> x \in K \/ x \in H \/ \E s \in Procs : \E n \in Places : nd[s][n] = x

World(P, bm, tab, sp, nd, K, H) == Sizes(P, bm, tab) /\ Tree(P, tab, sp, nd) /\ Once(P, bm, nd, K, H)

\* The kernel half: the same tables below entry 1 of every space.
To(e, p) == Present(e) /\ e.page = p
Kern(tab, sp, K, hp) ==
    /\ To(tab[KPML4][1], KPDPT) /\ \A s \in Procs : sp[s] # None => To(tab[sp[s]][1], KPDPT)
    /\ To(tab[KPDPT][1], KPD) /\ To(tab[KPD][0], KPT) /\ To(tab[KPT][0], KUSER)
    /\ Present(tab[KPD][1]) => tab[KPD][1].page \in K \ KernelPages
    /\ \A k \in DOMAIN hp : hp[k].mapped => /\ Present(tab[KPD][1])
                                            /\ To(tab[tab[KPD][1].page][k - 1], hp[k].page)

\* What a step leaves alone when it works on the user half only.
KernSame(K, sp, tab, tab2) ==
    /\ \A x \in K : tab2[x] = tab[x]
    /\ \A s \in Procs : sp[s] # None => tab2[sp[s]][1] = tab[sp[s]][1]

-----------------------------------------------------------------------------
(* Places and entries *)

LEMMA SlotPlaces ==
    ASSUME NEW n, NEW i, Slot(n, i)
    PROVE  /\ n \in Places /\ 2 * n + i \in Places /\ 2 * n + i # 1 /\ n \in Nat /\ i \in Nat
           /\ 2 * n + i \notin Leaves => Slot(2 * n + i, 0) /\ Slot(2 * n + i, 1)
<1>1. \/ (n = 1 /\ i = 0) \/ n = 2 \/ n = 4 \/ n = 5 \/ n = 8 \/ n = 9 \/ n = 10 \/ n = 11
  BY DEF Slot, Inner
<1>2. i = 0 \/ i = 1
  BY DEF Slot, Index
<1>3. QED
  BY <1>1, <1>2 DEF Slot, Inner, Leaves, Places, Index

LEMMA SlotsDiffer ==
    ASSUME NEW n, NEW i, NEW k, NEW j, Slot(n, i), Slot(k, j), 2 * n + i = 2 * k + j
    PROVE  n = k /\ i = j
<1>1. n \in Int /\ k \in Int
  BY SlotPlaces
<1>2. (i = 0 \/ i = 1) /\ (j = 0 \/ j = 1)
  BY DEF Slot, Index
<1>3. QED
  BY <1>1, <1>2

\* None is neither a page nor an entry.
LEMMA NoneIsNone ==
    ASSUME NEW P, P \subseteq 0 .. MAX_PAGES - 1
    PROVE  /\ None \notin P
           /\ \A p \in P, u \in BOOLEAN : [page |-> p, user |-> u] # None
<1>1. P \subseteq Nat
  BY PmmConstants
<1>2. ASSUME NEW p \in P, NEW u \in BOOLEAN
      PROVE  [page |-> p, user |-> u] # None
  <2>1. [page |-> p, user |-> u] \in [page : 0 .. MAX_PAGES - 1, user : BOOLEAN]
    OBVIOUS
  <2>2. QED
    BY <2>1, VmmConstants
<1>3. None \notin P
  BY <1>1, VmmConstants
<1>4. QED
  BY <1>2, <1>3

\* A nonempty set of numbers has a least element.
LEMMA LeastExists ==
    ASSUME NEW S, S \subseteq Nat, S # {}
    PROVE  \E x \in S : \A y \in S : x <= y
<1> DEFINE Less == OpToRel(<, Nat)
<1>1. \E x \in S : \A y \in S : ~ (<<y, x>> \in Less)
  BY NatLessThanWellFounded, WFMin
<1>2. PICK x \in S : \A y \in S : ~ (<<y, x>> \in Less)
  BY <1>1
<1>3. \A y \in S : x <= y
  <2>1. SUFFICES ASSUME NEW y \in S, ~ (x <= y)
                 PROVE  FALSE
    OBVIOUS
  <2>2. x \in Nat /\ y \in Nat /\ y < x
    BY <2>1
  <2>3. <<y, x>> \in Less
    BY <2>2 DEF OpToRel
  <2>4. QED
    BY <1>2, <2>3
<1>4. QED
  BY <1>3

\* allocate() finds a page that is not marked.
LEMMA AllocatedFree ==
    ASSUME NEW P, P \subseteq Nat, P = Pages, NEW bm, can_allocate(bm)
    PROVE  allocated(bm) \in P /\ allocated(bm) \notin bm
<1>1. PICK S : S = free_pages(bm)
  OBVIOUS
<1>2. S \subseteq Nat /\ S # {} /\ S \subseteq P /\ S \cap bm = {}
  BY <1>1 DEF can_allocate, free_pages
<1>3. \E x \in S : \A y \in S : x <= y
  BY <1>2, LeastExists
<1>4. Min(S) \in S
  BY <1>3 DEF Min
<1>5. QED
  BY <1>1, <1>2, <1>4 DEF allocated

-----------------------------------------------------------------------------
(* Elementary steps *)

\* Only the entries that hold the trees together matter to them.
LEMMA TreeFrame ==
    ASSUME NEW P, NEW tab, NEW tab2, NEW sp, NEW nd, Tree(P, tab, sp, nd),
           \A s \in Procs : \A n, i :
               Slot(n, i) /\ nd[s][n] # None => tab2[nd[s][n]][i] = tab[nd[s][n]][i]
    PROVE  Tree(P, tab2, sp, nd)
  BY DEF Tree

\* A page that is not marked is taken in hand.
LEMMA WorldTake ==
    ASSUME NEW P, NEW bm, NEW tab, NEW sp, NEW nd, NEW K, NEW H, World(P, bm, tab, sp, nd, K, H),
           NEW y \in P, y \notin bm
    PROVE  World(P, bm \cup {y}, tab, sp, nd, K, H \cup {y})
<1>1. Sizes(P, bm \cup {y}, tab)
  BY DEF World, Sizes
<1>2. Once(P, bm \cup {y}, nd, K, H \cup {y})
  BY DEF World, Once
<1>3. QED
  BY <1>1, <1>2 DEF World

\* What is read or written in a page in hand concerns nobody else.
LEMMA WorldScratch ==
    ASSUME NEW P, NEW bm, NEW tab, NEW sp, NEW nd, NEW K, NEW H, World(P, bm, tab, sp, nd, K, H),
           NEW y \in H, NEW tab2 \in [P -> TableSet(P)], \A x \in P : x # y => tab2[x] = tab[x]
    PROVE  World(P, bm, tab2, sp, nd, K, H) /\ KernSame(K, sp, tab, tab2)
<1>1. \A s \in Procs : \A n \in Places : nd[s][n] # y /\ (nd[s][n] # None => nd[s][n] \in P)
  BY DEF World, Once, Tree
<1>2. \A s \in Procs : \A n, i : Slot(n, i) /\ nd[s][n] # None => tab2[nd[s][n]][i] = tab[nd[s][n]][i]
  BY <1>1, SlotPlaces
<1>3. Tree(P, tab2, sp, nd)
  BY <1>2, TreeFrame DEF World
<1>4. 1 \in Places /\ \A s \in Procs : nd[s][1] = sp[s]
  BY DEF World, Tree, Places, Inner
<1>5. KernSame(K, sp, tab, tab2)
  BY <1>1, <1>4 DEF KernSame, World, Once
<1>6. QED
  BY <1>3, <1>5 DEF World, Sizes

\* Page y is hung into the tree of process s, where nothing was; a table is empty.
Hung(P, tab, tab2, nd, nd2, s, n, i, y) ==
    /\ s \in Procs /\ Slot(n, i) /\ nd[s][n] # None /\ nd[s][2 * n + i] = None
    /\ 2 * n + i \notin Leaves => tab[y][0] = None /\ tab[y][1] = None
    /\ tab2 \in [P -> TableSet(P)]
    /\ \A x \in P : \A j \in Index :
        tab2[x][j] = IF x = nd[s][n] /\ j = i THEN [page |-> y, user |-> TRUE] ELSE tab[x][j]
    /\ nd2 \in [Procs -> [Places -> P \cup {None}]]
    /\ \A t \in Procs : \A k \in Places :
        nd2[t][k] = IF t = s /\ k = 2 * n + i THEN y ELSE nd[t][k]

\* Only a page in hand can be hung in.
LEMMA WorldLink ==
    ASSUME NEW P, NEW bm, NEW tab, NEW sp, NEW nd, NEW K, NEW H, World(P, bm, tab, sp, nd, K, H),
           NEW s, NEW n, NEW i, NEW y \in H, NEW tab2, NEW nd2,
           Hung(P, tab, tab2, nd, nd2, s, n, i, y)
    PROVE  World(P, bm, tab2, sp, nd2, K, H \ {y}) /\ KernSame(K, sp, tab, tab2)
<1> DEFINE c == 2 * n + i
<1> USE DEF Hung
<1>1. n \in Places /\ c \in Places /\ c # 1 /\ 1 \in Places
  BY SlotPlaces DEF Places, Inner
<1>2. y \in P /\ None \notin P /\ y # None
  <2>1. y \in P /\ P \subseteq 0 .. MAX_PAGES - 1
    BY DEF World, Once, Sizes
  <2>2. QED
    BY <2>1, NoneIsNone
<1>3. \A t \in Procs : \A k \in Places : nd[t][k] # y /\ nd[t][k] \in P \cup {None}
  BY DEF World, Once, Tree
<1>4. Tree(P, tab2, sp, nd2)
  <2>1. \A t \in Procs : nd2[t][1] = sp[t]
    BY <1>1 DEF World, Tree
  <2>2. ASSUME NEW t \in Procs, NEW m, NEW j, Slot(m, j)
        PROVE  IF nd2[t][m] = None THEN nd2[t][2 * m + j] = None
               ELSE tab2[nd2[t][m]][j] = Leading(nd2[t][2 * m + j])
    <3>1. m \in Places /\ 2 * m + j \in Places /\ j \in Index
      BY <2>2, SlotPlaces DEF Slot
    <3>2. IF nd[t][m] = None THEN nd[t][2 * m + j] = None
          ELSE tab[nd[t][m]][j] = Leading(nd[t][2 * m + j])
      BY <2>2 DEF World, Tree
    <3>3. CASE t = s /\ m = n /\ j = i
      <4>1. c # n
        BY SlotPlaces DEF Slot, Inner, Index
      <4>2. nd2[t][m] = nd[s][n] /\ nd2[t][2 * m + j] = y
        BY <3>3, <1>1, <4>1
      <4>3. tab2[nd[s][n]][i] = [page |-> y, user |-> TRUE]
        BY <3>1, <3>3, <1>1, <1>3
      <4>4. QED
        BY <4>2, <4>3, <3>3, <1>2 DEF Leading
    <3>4. CASE t = s /\ m = c
      <4>1. 2 * m + j # c
        <5>1. m \in Nat /\ j \in Nat
          BY <2>2, SlotPlaces
        <5>2. m # 0
          BY <2>2 DEF Slot, Inner
        <5>3. QED
          BY <5>1, <5>2, <3>4
      <4>2. nd2[t][m] = y /\ nd2[t][2 * m + j] = nd[s][2 * m + j]
        BY <3>4, <3>1, <4>1
      <4>3. nd[s][2 * m + j] = None
        BY <3>2, <3>4
      <4>4. c \notin Leaves
        BY <2>2, <3>4 DEF Slot, Leaves, Inner
      <4>5. tab[y][j] = None
        BY <4>4, <3>1 DEF Index
      <4>6. tab2[y][j] = tab[y][j]
        BY <3>1, <1>1, <1>2, <1>3
      <4>7. QED
        BY <4>2, <4>3, <4>5, <4>6, <1>2 DEF Leading
    <3>5. CASE ~(t = s /\ m = n /\ j = i) /\ ~(t = s /\ m = c)
      <4>1. ~(t = s /\ 2 * m + j = c)
        BY <3>5, <2>2, SlotsDiffer
      <4>2. nd2[t][m] = nd[t][m] /\ nd2[t][2 * m + j] = nd[t][2 * m + j]
        BY <3>5, <3>1, <4>1
      <4>3. CASE nd[t][m] = None
        BY <4>2, <4>3, <3>2
      <4>4. CASE nd[t][m] # None
        <5>1. ~(nd[t][m] = nd[s][n] /\ j = i)
          <6>1. nd[t][m] = nd[s][n] => t = s /\ m = n
            BY <4>4, <3>1, <1>1 DEF World, Once
          <6>2. QED
            BY <6>1, <3>5
        <5>2. nd[t][m] \in P
          BY <3>1, <4>4, <1>3
        <5>3. tab2[nd[t][m]][j] = tab[nd[t][m]][j]
          BY <5>1, <5>2, <3>1
        <5>4. QED
          BY <5>3, <4>2, <4>4, <3>2
      <4>5. QED
        BY <4>3, <4>4
    <3>6. QED
      BY <3>3, <3>4, <3>5
  <2>3. QED
    BY <2>1, <2>2 DEF Tree, World
<1>5. Once(P, bm, nd2, K, H \ {y})
  <2>1. \A t, u \in Procs : \A m, k \in Places :
            nd2[t][m] = nd2[u][k] /\ nd2[t][m] # None => t = u /\ m = k
    BY <1>1, <1>3 DEF World, Once
  <2>2. \A t \in Procs : \A k \in Places : nd2[t][k] \notin K /\ nd2[t][k] \notin H \ {y}
    BY <1>1, <1>3 DEF World, Once
  <2>3. ASSUME NEW x \in P
        PROVE  x \in bm <=> \/ x \in K \/ x \in H \ {y}
                            \/ \E t \in Procs : \E k \in Places : nd2[t][k] = x
    <3>1. x \in bm <=> x \in K \/ x \in H \/ \E t \in Procs : \E k \in Places : nd[t][k] = x
      BY DEF World, Once
    <3>2. CASE x = y
      BY <3>1, <3>2, <1>1
    <3>3. CASE x # y
      <4>1. \A t \in Procs : \A k \in Places : nd2[t][k] = x <=> nd[t][k] = x
        BY <3>3, <1>1, <1>2
      <4>2. QED
        BY <3>1, <3>3, <4>1
    <3>4. QED
      BY <3>2, <3>3
  <2>4. QED
    BY <2>1, <2>2, <2>3 DEF World, Once
<1>6. KernSame(K, sp, tab, tab2)
  <2>1. ASSUME NEW x \in K
        PROVE  tab2[x] = tab[x]
    <3>1. x \in P /\ x # nd[s][n]
      BY <1>1 DEF World, Once
    <3>2. \A j \in Index : tab2[x][j] = tab[x][j]
      BY <3>1
    <3>3. tab2[x] \in TableSet(P) /\ tab[x] \in TableSet(P)
      BY <3>1 DEF World, Sizes
    <3>4. QED
      BY <3>2, <3>3 DEF TableSet
  <2>2. ASSUME NEW t \in Procs, sp[t] # None
        PROVE  tab2[sp[t]][1] = tab[sp[t]][1]
    <3>1. sp[t] = nd[t][1] /\ sp[t] \in P
      BY <2>2 DEF World, Tree
    <3>2. nd[t][1] = nd[s][n] => n = 1
      BY <2>2, <3>1, <1>1 DEF World, Once
    <3>3. ~(sp[t] = nd[s][n] /\ 1 = i)
      BY <3>1, <3>2 DEF Slot
    <3>4. QED
      BY <3>1, <3>3 DEF Index
  <2>3. QED
    BY <2>1, <2>2 DEF KernSame
<1>7. QED
  BY <1>4, <1>5, <1>6 DEF World, Sizes

\* A page in hand is given back.
LEMMA WorldDrop ==
    ASSUME NEW P, NEW bm, NEW tab, NEW sp, NEW nd, NEW K, NEW H, World(P, bm, tab, sp, nd, K, H),
           NEW y \in H, NEW tab2 \in [P -> TableSet(P)], \A x \in P : x # y => tab2[x] = tab[x]
    PROVE  World(P, bm \ {y}, tab2, sp, nd, K, H \ {y}) /\ KernSame(K, sp, tab, tab2)
<1>1. World(P, bm, tab2, sp, nd, K, H) /\ KernSame(K, sp, tab, tab2)
  BY WorldScratch
<1>2. Sizes(P, bm \ {y}, tab2)
  BY <1>1 DEF World, Sizes
<1>3. Once(P, bm \ {y}, nd, K, H \ {y})
  BY <1>1 DEF World, Once
<1>4. QED
  BY <1>1, <1>2, <1>3 DEF World

\* Without a PML4 there is nothing in the tree.
LEMMA NoRoot ==
    ASSUME NEW P, NEW tab, NEW sp, NEW nd, Tree(P, tab, sp, nd), NEW s \in Procs, sp[s] = None
    PROVE  \A n \in Places : nd[s][n] = None
<1>1. ASSUME NEW n, NEW i, Slot(n, i), nd[s][n] = None
      PROVE  nd[s][2 * n + i] = None
  BY <1>1 DEF Tree
<1>2. nd[s][1] = None
  BY DEF Tree
<1>3. /\ Slot(1, 0) /\ Slot(2, 0) /\ Slot(2, 1) /\ Slot(4, 0) /\ Slot(4, 1) /\ Slot(5, 0) /\ Slot(5, 1)
      /\ \A k \in 8 .. 11 : Slot(k, 0) /\ Slot(k, 1)
  BY DEF Slot, Inner, Index
<1>4. nd[s][2] = None
  <2>1. nd[s][2 * 1 + 0] = None
    BY <1>1, <1>2, <1>3
  <2>2. QED
    BY <2>1
<1>5. nd[s][4] = None /\ nd[s][5] = None
  <2>1. nd[s][2 * 2 + 0] = None /\ nd[s][2 * 2 + 1] = None
    BY <1>1, <1>4, <1>3
  <2>2. QED
    BY <2>1
<1>6. nd[s][8] = None /\ nd[s][9] = None /\ nd[s][10] = None /\ nd[s][11] = None
  <2>1. nd[s][2 * 4 + 0] = None /\ nd[s][2 * 4 + 1] = None /\ nd[s][2 * 5 + 0] = None /\ nd[s][2 * 5 + 1] = None
    BY <1>1, <1>5, <1>3
  <2>2. QED
    BY <2>1
<1>7. \A k \in 8 .. 11 : nd[s][k] = None
  <2>1. \A k \in 8 .. 11 : k = 8 \/ k = 9 \/ k = 10 \/ k = 11
    OBVIOUS
  <2>2. QED
    BY <2>1, <1>6
<1>8. \A k \in 8 .. 11 : nd[s][2 * k + 0] = None /\ nd[s][2 * k + 1] = None
  BY <1>1, <1>3, <1>7
<1>9. \A n \in Leaves : nd[s][n] = None
  <2>1. SUFFICES ASSUME NEW n \in Leaves
                 PROVE  nd[s][n] = None
    OBVIOUS
  <2>2. \E k \in 8 .. 11 : n = 2 * k + 0 \/ n = 2 * k + 1
    <3>1. \/ n = 2 * 8 + 0 \/ n = 2 * 8 + 1 \/ n = 2 * 9 + 0 \/ n = 2 * 9 + 1
          \/ n = 2 * 10 + 0 \/ n = 2 * 10 + 1 \/ n = 2 * 11 + 0 \/ n = 2 * 11 + 1
      BY DEF Leaves
    <3>2. 8 \in 8 .. 11 /\ 9 \in 8 .. 11 /\ 10 \in 8 .. 11 /\ 11 \in 8 .. 11
      OBVIOUS
    <3>3. QED
      BY <3>1, <3>2, Zenon
  <2>3. QED
    BY <2>2, <1>8
<1>10. QED
  BY <1>2, <1>4, <1>5, <1>7, <1>9 DEF Places, Inner

\* A page in hand becomes the PML4 of a process that had none.
Rooted(P, tab, sp, sp2, nd, nd2, s, y) ==
    /\ s \in Procs /\ sp[s] = None /\ tab[y][0] = None
    /\ sp2 = [sp EXCEPT ![s] = y]
    /\ nd2 \in [Procs -> [Places -> P \cup {None}]]
    /\ \A t \in Procs : \A k \in Places : nd2[t][k] = IF t = s /\ k = 1 THEN y ELSE nd[t][k]

LEMMA WorldRoot ==
    ASSUME NEW P, NEW bm, NEW tab, NEW sp, NEW nd, NEW K, NEW H, World(P, bm, tab, sp, nd, K, H),
           NEW s, NEW y \in H, NEW sp2, NEW nd2, Rooted(P, tab, sp, sp2, nd, nd2, s, y)
    PROVE  World(P, bm, tab, sp2, nd2, K, H \ {y})
<1>0. /\ s \in Procs /\ sp[s] = None /\ tab[y][0] = None
      /\ sp2 = [sp EXCEPT ![s] = y]
      /\ nd2 \in [Procs -> [Places -> P \cup {None}]]
      /\ \A t \in Procs : \A k \in Places : nd2[t][k] = IF t = s /\ k = 1 THEN y ELSE nd[t][k]
  BY DEF Rooted
<1> USE <1>0
<1>1. 1 \in Places
  BY DEF Places, Inner
<1>2. y \in P
  BY DEF World, Once
<1>3. \A n \in Places : nd[s][n] = None
  BY NoRoot DEF World
<1>4. \A t \in Procs : \A k \in Places : nd[t][k] # y /\ nd[t][k] \in P \cup {None}
  BY DEF World, Once, Tree
<1>5. None \notin P
  BY NoneIsNone DEF World, Sizes
<1>6. Tree(P, tab, sp2, nd2)
  <2>1. sp2 \in [Procs -> P \cup {None}] /\ \A t \in Procs : nd2[t][1] = sp2[t]
    BY <1>1, <1>2 DEF World, Tree
  <2>2. ASSUME NEW t \in Procs, NEW m, NEW j, Slot(m, j)
        PROVE  IF nd2[t][m] = None THEN nd2[t][2 * m + j] = None
               ELSE tab[nd2[t][m]][j] = Leading(nd2[t][2 * m + j])
    <3>1. m \in Places /\ 2 * m + j \in Places /\ 2 * m + j # 1
      BY <2>2, SlotPlaces
    <3>2. nd2[t][2 * m + j] = nd[t][2 * m + j]
      BY <3>1
    <3>3. CASE t = s /\ m = 1
      <4>1. j = 0
        BY <2>2, <3>3 DEF Slot
      <4>2. nd2[t][m] = y /\ nd2[t][2 * m + j] = None
        BY <3>1, <3>2, <3>3, <1>3
      <4>3. QED
        BY <4>1, <4>2 DEF Leading
    <3>4. CASE ~(t = s /\ m = 1)
      <4>1. nd2[t][m] = nd[t][m]
        BY <3>1, <3>4
      <4>2. QED
        BY <2>2, <3>2, <4>1 DEF World, Tree
    <3>5. QED
      BY <3>3, <3>4
  <2>3. QED
    BY <2>1, <2>2 DEF Tree
<1>7. Once(P, bm, nd2, K, H \ {y})
  <2>1. \A t, u \in Procs : \A m, k \in Places :
            nd2[t][m] = nd2[u][k] /\ nd2[t][m] # None => t = u /\ m = k
    BY <1>1, <1>4 DEF World, Once
  <2>2. \A t \in Procs : \A k \in Places : nd2[t][k] \notin K /\ nd2[t][k] \notin H \ {y}
    BY <1>1, <1>4 DEF World, Once
  <2>3. ASSUME NEW x \in P
        PROVE  x \in bm <=> \/ x \in K \/ x \in H \ {y}
                            \/ \E t \in Procs : \E k \in Places : nd2[t][k] = x
    <3>1. x \in bm <=> x \in K \/ x \in H \/ \E t \in Procs : \E k \in Places : nd[t][k] = x
      BY DEF World, Once
    <3>2. CASE x = y
      BY <3>1, <3>2, <1>1
    <3>3. CASE x # y
      <4>1. \A t \in Procs : \A k \in Places : nd2[t][k] = x <=> nd[t][k] = x
        BY <3>3, <1>3, <1>5
      <4>2. QED
        BY <3>1, <3>3, <4>1
    <3>4. QED
      BY <3>2, <3>3
  <2>4. QED
    BY <2>1, <2>2, <2>3 DEF World, Once
<1>8. QED
  BY <1>6, <1>7 DEF World

\* All pages of a process are given back.
Uprooted(P, tab, tab2, sp, sp2, nd, nd2, s, R) ==
    /\ R = {nd[s][n] : n \in Places} \ {None}
    /\ tab2 \in [P -> TableSet(P)] /\ \A x \in P : x \notin R => tab2[x] = tab[x]
    /\ sp2 = [sp EXCEPT ![s] = None]
    /\ nd2 \in [Procs -> [Places -> P \cup {None}]]
    /\ \A t \in Procs : \A k \in Places : nd2[t][k] = IF t = s THEN None ELSE nd[t][k]

LEMMA WorldDestroy ==
    ASSUME NEW P, NEW bm, NEW tab, NEW sp, NEW nd, NEW K, NEW H, World(P, bm, tab, sp, nd, K, H),
           NEW s \in Procs, NEW R, NEW tab2, NEW sp2, NEW nd2,
           Uprooted(P, tab, tab2, sp, sp2, nd, nd2, s, R)
    PROVE  World(P, bm \ R, tab2, sp2, nd2, K, H) /\ KernSame(K, sp2, tab, tab2)
<1> USE DEF Uprooted
<1>1. 1 \in Places
  BY DEF Places, Inner
<1>2. \A t \in Procs : \A k \in Places : nd[t][k] \in P \cup {None} /\ (t # s => nd[t][k] \notin R)
  BY DEF World, Once, Tree
<1>3. Tree(P, tab2, sp2, nd2)
  <2>1. sp2 \in [Procs -> P \cup {None}] /\ \A t \in Procs : nd2[t][1] = sp2[t]
    BY <1>1 DEF World, Tree
  <2>2. ASSUME NEW t \in Procs, NEW m, NEW j, Slot(m, j)
        PROVE  IF nd2[t][m] = None THEN nd2[t][2 * m + j] = None
               ELSE tab2[nd2[t][m]][j] = Leading(nd2[t][2 * m + j])
    <3>1. m \in Places /\ 2 * m + j \in Places
      BY <2>2, SlotPlaces
    <3>2. CASE t = s
      BY <3>1, <3>2
    <3>3. CASE t # s
      <4>1. nd2[t][m] = nd[t][m] /\ nd2[t][2 * m + j] = nd[t][2 * m + j]
        BY <3>1, <3>3
      <4>2. nd[t][m] # None => tab2[nd[t][m]] = tab[nd[t][m]]
        BY <3>1, <3>3, <1>2
      <4>3. IF nd[t][m] = None THEN nd[t][2 * m + j] = None
            ELSE tab[nd[t][m]][j] = Leading(nd[t][2 * m + j])
        BY <2>2 DEF World, Tree
      <4>4. QED
        BY <4>1, <4>2, <4>3
    <3>4. QED
      BY <3>2, <3>3
  <2>3. QED
    BY <2>1, <2>2 DEF Tree
<1>4. Once(P, bm \ R, nd2, K, H)
  <2>1. \A t, u \in Procs : \A m, k \in Places :
            nd2[t][m] = nd2[u][k] /\ nd2[t][m] # None => t = u /\ m = k
    BY DEF World, Once
  <2>2. None \notin P /\ K \subseteq P /\ H \subseteq P
    <3>1. P \subseteq 0 .. MAX_PAGES - 1 /\ K \subseteq P /\ H \subseteq P
      BY DEF World, Sizes, Once
    <3>2. QED
      BY <3>1, NoneIsNone
  <2>3. \A t \in Procs : \A k \in Places : nd2[t][k] \notin K /\ nd2[t][k] \notin H
    BY <2>2 DEF World, Once
  <2>4. ASSUME NEW x \in P
        PROVE  x \in bm \ R <=> \/ x \in K \/ x \in H
                                \/ \E t \in Procs : \E k \in Places : nd2[t][k] = x
    <3>1. x \in bm <=> x \in K \/ x \in H \/ \E t \in Procs : \E k \in Places : nd[t][k] = x
      BY DEF World, Once
    <3>2. CASE x \in R
      <4>1. PICK n \in Places : x = nd[s][n] /\ x # None
        BY <3>2
      <4>2. x \notin K /\ x \notin H
        BY <4>1 DEF World, Once
      <4>3. \A t \in Procs : \A k \in Places : nd2[t][k] # x
        BY <4>1 DEF World, Once
      <4>4. QED
        BY <4>2, <4>3, <3>2
    <3>3. CASE x \notin R
      <4>1. \A k \in Places : nd[s][k] # x
        BY <3>3, <2>2
      <4>2. \A t \in Procs : \A k \in Places : nd2[t][k] = x <=> nd[t][k] = x
        BY <4>1, <2>2
      <4>3. QED
        BY <3>1, <3>3, <4>2
    <3>4. QED
      BY <3>2, <3>3
  <2>5. QED
    BY <2>1, <2>3, <2>4 DEF World, Once
<1>5. KernSame(K, sp2, tab, tab2)
  <2>1. \A x \in K : x \in P /\ x \notin R
    BY DEF World, Once
  <2>2. \A t \in Procs : sp2[t] # None => t # s /\ sp2[t] = nd[t][1] /\ sp2[t] \in P
    BY <1>1, <1>2 DEF World, Tree
  <2>3. \A t \in Procs : sp2[t] # None => sp2[t] \notin R
    BY <2>2, <1>1, <1>2
  <2>4. QED
    BY <2>1, <2>2, <2>3 DEF KernSame
<1>6. QED
  BY <1>3, <1>4, <1>5 DEF World, Sizes

\* A change of the kernel's tables, or of entry 1 of a PML4.
LEMMA WorldKernel ==
    ASSUME NEW P, NEW bm, NEW tab, NEW sp, NEW nd, NEW K, NEW H, World(P, bm, tab, sp, nd, K, H),
           NEW tab2 \in [P -> TableSet(P)],
           \A x \in P : \A j \in Index :
               \/ tab2[x][j] = tab[x][j] \/ x \in K
               \/ j = 1 /\ \E s \in Procs : x = sp[s]
    PROVE  World(P, bm, tab2, sp, nd, K, H)
<1>1. 1 \in Places
  BY DEF Places, Inner
<1>2. ASSUME NEW s \in Procs, NEW n, NEW i, Slot(n, i), nd[s][n] # None
      PROVE  tab2[nd[s][n]][i] = tab[nd[s][n]][i]
  <2>1. n \in Places /\ i \in Index
    BY <1>2, SlotPlaces DEF Slot
  <2>2. nd[s][n] \in P /\ nd[s][n] \notin K
    BY <1>2, <2>1 DEF World, Tree, Once
  <2>3. ASSUME NEW t \in Procs, nd[s][n] = sp[t]
        PROVE  i = 0
    <3>1. sp[t] = nd[t][1]
      BY DEF World, Tree
    <3>2. n = 1
      BY <1>1, <1>2, <2>1, <2>3, <3>1 DEF World, Once
    <3>3. QED
      BY <3>2, <1>2 DEF Slot
  <2>4. ~(i = 1 /\ \E t \in Procs : nd[s][n] = sp[t])
    BY <2>3
  <2>5. QED
    BY <2>1, <2>2, <2>4
<1>3. Tree(P, tab2, sp, nd)
  BY <1>2, TreeFrame DEF World
<1>4. QED
  BY <1>3 DEF World, Sizes

-----------------------------------------------------------------------------
(* The operators that take and hang in pages *)

IsMemory(P, m) == m \in [bitmap : SUBSET (0 .. MAX_PAGES - 1), table : [P -> TableSet(P)],
                         data : [P -> Values], at : P \cup {None}]
Mem(P, m, sp, nd, K, H) == IsMemory(P, m) /\ World(P, m.bitmap, m.table, sp, nd, K, H)

\* From m to r only the tree of s has grown, by tables.
Grown(P, m, r, sp, nd, nd2, s, K, H) ==
    /\ Mem(P, r, sp, nd2, K, H)
    /\ r.data = m.data
    /\ KernSame(K, sp, m.table, r.table)
    /\ \A t \in Procs : \A k \in Places : t # s \/ k \in Leaves => nd2[t][k] = nd[t][k]

\* From m to r a page has been taken in hand, or there was none.
Taken(P, m, r, sp, nd, K, H) ==
    /\ r.table = m.table /\ r.data = m.data /\ IsMemory(P, r)
    /\ \/ r.at = None /\ Mem(P, r, sp, nd, K, H)
       \/ /\ r.at \in P /\ r.at # None /\ r.at \notin m.bitmap
          /\ Mem(P, r, sp, nd, K, H \cup {r.at})

\* new_page(): a page in hand, or None and nothing has changed.
LEMMA NewPage ==
    ASSUME NEW P, P = Pages, NEW m, NEW sp, NEW nd, NEW K, NEW H, Mem(P, m, sp, nd, K, H),
           NEW r, r = new_page(m)
    PROVE  Taken(P, m, r, sp, nd, K, H)
<1> USE DEF Taken
<1>1. P \subseteq 0 .. MAX_PAGES - 1 /\ P \subseteq Nat /\ None \notin P
  <2>1. P \subseteq 0 .. MAX_PAGES - 1
    BY DEF Mem, World, Sizes
  <2>2. None \notin P
    BY <2>1, NoneIsNone
  <2>3. QED
    BY <2>1, <2>2, PmmConstants
<1>2. CASE can_allocate(m.bitmap)
  <2>1. PICK y : y = allocated(m.bitmap)
    OBVIOUS
  <2>2. y \in P /\ y \notin m.bitmap
    BY <1>1, <1>2, <2>1, AllocatedFree
  <2>3. r = [m EXCEPT !.at = y, !.bitmap = m.bitmap \cup {y}]
    BY <1>2, <2>1 DEF new_page
  <2>4. /\ r.at = y /\ r.bitmap = m.bitmap \cup {y} /\ r.table = m.table /\ r.data = m.data
        /\ IsMemory(P, r)
    <3>1. m.bitmap \cup {y} \in SUBSET (0 .. MAX_PAGES - 1) /\ y \in P \cup {None}
      BY <1>1, <2>2 DEF IsMemory, Mem
    <3>2. QED
      BY <2>3, <3>1 DEF IsMemory, Mem
  <2>5. World(P, m.bitmap \cup {y}, m.table, sp, nd, K, H \cup {y})
    BY <2>2, WorldTake DEF Mem
  <2>6. QED
    BY <1>1, <2>2, <2>4, <2>5 DEF Mem
<1>3. CASE ~ can_allocate(m.bitmap)
  <2>1. r = [m EXCEPT !.at = None]
    BY <1>3 DEF new_page
  <2>2. r.at = None /\ r.bitmap = m.bitmap /\ r.table = m.table /\ r.data = m.data /\ IsMemory(P, r)
    BY <2>1 DEF IsMemory, Mem
  <2>3. QED
    BY <2>2 DEF Mem
<1>4. QED
  BY <1>2, <1>3

\* The three ways through get_or_create_table().
LEMMA TableCases ==
    ASSUME NEW m, NEW i, NEW u
    PROVE  get_or_create_table(m, i, u) =
               IF m.at = None THEN m
               ELSE IF Present(m.table[m.at][i]) THEN existing_table(m, m.at, i, m.table[m.at][i], u)
               ELSE new_table(new_page(m), m.at, i, u)
  BY DEF get_or_create_table

LEMMA NoTable ==
    ASSUME NEW m, m.at = None, NEW i, NEW u
    PROVE  get_or_create_table(m, i, u) = m
  BY TableCases

LEMMA TableThere ==
    ASSUME NEW m, NEW p, m.at = p, p # None, NEW i, NEW e, m.table[p][i] = e, Present(e), NEW u
    PROVE  get_or_create_table(m, i, u) = existing_table(m, p, i, e, u)
  BY TableCases

LEMMA TableMissing ==
    ASSUME NEW m, NEW p, m.at = p, p # None, NEW i, ~ Present(m.table[p][i]), NEW u
    PROVE  get_or_create_table(m, i, u) = new_table(new_page(m), p, i, u)
  BY TableCases

\* Entry i of the table at place n leads to the table at place c.
Edge(n, i, c) == Slot(n, i) /\ c = 2 * n + i /\ c \notin Leaves

\* The walk from m has reached place n of the tree of s in r, or failed.
Reached(P, m, r, sp, nd, s, n, K, H) ==
    \E nd2 : Grown(P, m, r, sp, nd, nd2, s, K, H) /\ (r.at # None => r.at = nd2[s][n])

\* get_or_create_table(), in the user half: an existing entry has the User bit already, a new
\* table comes cleared.
LEMMA GetTable ==
    ASSUME NEW P, P = Pages, NEW m, NEW sp, NEW nd, NEW K, NEW H, Mem(P, m, sp, nd, K, H),
           NEW s \in Procs, NEW n, NEW i, NEW c, Edge(n, i, c), m.at = nd[s][n], m.at # None
    PROVE  Reached(P, m, get_or_create_table(m, i, TRUE), sp, nd, s, c, K, H)
<1>a. PICK r : r = get_or_create_table(m, i, TRUE)
  OBVIOUS
<1>b. Slot(n, i) /\ c = 2 * n + i /\ c \notin Leaves
  BY DEF Edge
<1> SUFFICES \E nd2 : /\ Grown(P, m, r, sp, nd, nd2, s, K, H)
                      /\ r.at # None => r.at = nd2[s][2 * n + i]
  BY <1>a, <1>b DEF Reached
<1>1. PICK p, e : p = m.at /\ e = m.table[p][i]
  OBVIOUS
<1>2. n \in Places /\ 2 * n + i \in Places /\ i \in Index
  BY <1>b, SlotPlaces DEF Slot
<1>3. PICK q : q = nd[s][2 * n + i]
  OBVIOUS
<1>4. p \in P /\ q \in P \cup {None} /\ e = Leading(q)
  BY <1>1, <1>2, <1>3, <1>b DEF Mem, World, Tree
<1>5. P \subseteq 0 .. MAX_PAGES - 1 /\ None \notin P /\ \A x \in P, u \in BOOLEAN : [page |-> x, user |-> u] # None
  <2>1. P \subseteq 0 .. MAX_PAGES - 1
    BY DEF Mem, World, Sizes
  <2>2. QED
    BY <2>1, NoneIsNone
<1>6. m.table \in [P -> TableSet(P)]
  BY DEF Mem, IsMemory
<1>7. CASE q # None
  <2>1. e = [page |-> q, user |-> TRUE] /\ Present(e) /\ q \in P
    BY <1>4, <1>5, <1>7 DEF Leading, Present
  <2>2. r = [m EXCEPT !.at = e.page, !.table[p][i] = [page |-> e.page, user |-> e.user \/ TRUE]]
    <3>1. r = existing_table(m, p, i, e, TRUE)
      BY <2>1, <1>1, <1>a, TableThere
    <3>2. QED
      BY <3>1 DEF existing_table
  <2>3. [page |-> e.page, user |-> e.user \/ TRUE] = e
    BY <2>1
  <2>4. [m.table EXCEPT ![p][i] = e] = m.table
    BY <1>1, <1>2, <1>4, <1>6 DEF TableSet
  <2>5. r = [m EXCEPT !.at = q, !.table = m.table]
    <3>1. r = [m EXCEPT !.at = q, !.table[p][i] = e]
      BY <2>1, <2>2, <2>3
    <3>2. QED
      BY <3>1, <2>4 DEF Mem, IsMemory
  <2>6. r.at = q /\ r.table = m.table /\ r.bitmap = m.bitmap /\ r.data = m.data /\ IsMemory(P, r)
    BY <2>1, <2>5 DEF Mem, IsMemory
  <2>7. Grown(P, m, r, sp, nd, nd, s, K, H)
    BY <2>6 DEF Grown, Mem, KernSame
  <2>8. QED
    BY <2>6, <2>7, <1>3
<1>8. CASE q = None
  <2>1. e = None /\ ~ Present(e)
    BY <1>4, <1>8 DEF Leading, Present
  <2>2. PICK f : f = new_page(m)
    OBVIOUS
  <2>3. r = IF f.at = None THEN f
            ELSE [f EXCEPT !.table = [f.table EXCEPT ![f.at] = Zeroed, ![p][i] = [page |-> f.at, user |-> TRUE]]]
    <3>1. r = new_table(f, p, i, TRUE)
      <4>1. m.at = p /\ p # None /\ ~ Present(m.table[p][i])
        BY <2>1, <1>1
      <4>2. get_or_create_table(m, i, TRUE) = new_table(new_page(m), p, i, TRUE)
        BY <4>1, TableMissing
      <4>3. QED
        BY <4>2, <1>a, <2>2
    <3>2. QED
      BY <3>1 DEF new_table
  <2>4. /\ f.table = m.table /\ f.data = m.data /\ IsMemory(P, f)
        /\ \/ f.at = None /\ Mem(P, f, sp, nd, K, H)
           \/ f.at \in P /\ f.at # None /\ f.at \notin m.bitmap /\ Mem(P, f, sp, nd, K, H \cup {f.at})
    <3>1. Taken(P, m, f, sp, nd, K, H)
      BY <2>2, NewPage
    <3>2. QED
      BY <3>1 DEF Taken
  <2>5. CASE f.at = None
    <3>1. r = f /\ Mem(P, f, sp, nd, K, H)
      BY <2>3, <2>4, <2>5
    <3>2. Grown(P, m, r, sp, nd, nd, s, K, H)
      BY <3>1, <2>4 DEF Grown, KernSame
    <3>3. QED
      BY <3>1, <3>2, <2>5
  <2>6. CASE f.at # None
    <3>1. PICK y : y = f.at
      OBVIOUS
    <3>2. y \in P /\ y # None /\ y \notin m.bitmap /\ Mem(P, f, sp, nd, K, H \cup {y})
      BY <3>1, <2>4, <2>6
    <3>3. PICK t1 : t1 = [m.table EXCEPT ![y] = Zeroed]
      OBVIOUS
    <3>4. t1 \in [P -> TableSet(P)] /\ t1[y][0] = None /\ t1[y][1] = None /\ \A x \in P : x # y => t1[x] = m.table[x]
      BY <3>2, <3>3, <1>6 DEF TableSet, Zeroed, Index
    <3>5. World(P, f.bitmap, t1, sp, nd, K, H \cup {y}) /\ KernSame(K, sp, m.table, t1)
      <4>1. World(P, f.bitmap, m.table, sp, nd, K, H \cup {y}) /\ y \in H \cup {y}
        BY <3>2, <2>4 DEF Mem
      <4>2. QED
        BY <4>1, <3>4, WorldScratch
    <3>6. PICK t2 : t2 = [t1 EXCEPT ![p][i] = [page |-> y, user |-> TRUE]]
      OBVIOUS
    <3>7. /\ t2 \in [P -> TableSet(P)]
          /\ \A x \in P : \A j \in Index :
                t2[x][j] = IF x = p /\ j = i THEN [page |-> y, user |-> TRUE] ELSE t1[x][j]
      BY <3>2, <3>4, <3>6, <1>2, <1>4 DEF TableSet
    <3>8. PICK nd2 : nd2 = [nd EXCEPT ![s][2 * n + i] = y]
      OBVIOUS
    <3>9. /\ nd2 \in [Procs -> [Places -> P \cup {None}]]
          /\ \A t \in Procs : \A k \in Places : nd2[t][k] = IF t = s /\ k = 2 * n + i THEN y ELSE nd[t][k]
      <4>1. nd \in [Procs -> [Places -> P \cup {None}]]
        BY DEF Mem, World, Tree
      <4>2. QED
        BY <4>1, <3>2, <3>8, <1>2
    <3>10. World(P, f.bitmap, t2, sp, nd2, K, (H \cup {y}) \ {y}) /\ KernSame(K, sp, t1, t2)
      <4>1. nd[s][n] = p /\ nd[s][n] # None /\ nd[s][2 * n + i] = None /\ y \in H \cup {y}
        BY <1>1, <1>3, <1>8
      <4>2. \A x \in P : \A j \in Index :
                t2[x][j] = IF x = nd[s][n] /\ j = i THEN [page |-> y, user |-> TRUE] ELSE t1[x][j]
        BY <3>7, <4>1
      <4>3. Hung(P, t1, t2, nd, nd2, s, n, i, y)
        BY <3>4, <3>7, <3>9, <4>1, <4>2, <1>b DEF Hung
      <4>4. QED
        BY <3>5, <4>1, <4>3, WorldLink
    <3>11. (H \cup {y}) \ {y} = H
      BY <3>2 DEF Mem, World, Once
    <3>12. r = [f EXCEPT !.table = t2]
      <4>1. [f.table EXCEPT ![f.at] = Zeroed, ![p][i] = [page |-> f.at, user |-> TRUE]] = t2
        BY <3>1, <3>3, <3>6, <2>4
      <4>2. QED
        BY <4>1, <2>3, <2>6
    <3>13. r.at = y /\ r.table = t2 /\ r.bitmap = f.bitmap /\ r.data = m.data /\ IsMemory(P, r)
      BY <3>1, <3>7, <3>12, <2>4 DEF IsMemory
    <3>14. KernSame(K, sp, m.table, t2)
      BY <3>5, <3>10 DEF KernSame
    <3>15. Grown(P, m, r, sp, nd, nd2, s, K, H)
      <4>1. \A t \in Procs : \A k \in Places : t # s \/ k \in Leaves => nd2[t][k] = nd[t][k]
        BY <3>9, <1>b
      <4>2. QED
        BY <4>1, <3>10, <3>11, <3>13, <3>14 DEF Grown, Mem
    <3>16. QED
      BY <3>9, <3>13, <3>15, <1>2
  <2>7. QED
    BY <2>5, <2>6
<1>9. QED
  BY <1>7, <1>8

-----------------------------------------------------------------------------
(* The user half: addresses and places *)

\* UserHalf lists the pages in the order of their places.
LEMMA UserHalfKeys ==
    /\ DOMAIN UserHalf = 1 .. 8 /\ Len(UserHalf) = 8
    /\ \A k \in 1 .. 8 : /\ Key(UserHalf[k]) = 15 + k /\ UserHalf[k][1] = 0
                         /\ UserHalf[k][2] \in Index /\ UserHalf[k][3] \in Index /\ UserHalf[k][4] \in Index
<1>1. DOMAIN UserHalf = 1 .. 8 /\ Len(UserHalf) = 8
  BY DEF UserHalf
<1>2. \A k \in 1 .. 8 : k = 1 \/ k = 2 \/ k = 3 \/ k = 4 \/ k = 5 \/ k = 6 \/ k = 7 \/ k = 8
  OBVIOUS
<1>3. /\ UserHalf[1] = <<0, 0, 0, 0>> /\ UserHalf[2] = <<0, 0, 0, 1>>
      /\ UserHalf[3] = <<0, 0, 1, 0>> /\ UserHalf[4] = <<0, 0, 1, 1>>
      /\ UserHalf[5] = <<0, 1, 0, 0>> /\ UserHalf[6] = <<0, 1, 0, 1>>
      /\ UserHalf[7] = <<0, 1, 1, 0>> /\ UserHalf[8] = <<0, 1, 1, 1>>
  BY DEF UserHalf
<1>4. ASSUME NEW a \in 0 .. 1, NEW b \in 0 .. 1, NEW c \in 0 .. 1, NEW va, va = <<0, a, b, c>>
      PROVE  /\ Key(va) = 16 + 4 * a + 2 * b + c /\ va[1] = 0
             /\ va[2] \in Index /\ va[3] \in Index /\ va[4] \in Index
  BY <1>4 DEF Key, Index
<1>5. ASSUME NEW k \in 1 .. 8
      PROVE  /\ Key(UserHalf[k]) = 15 + k /\ UserHalf[k][1] = 0
             /\ UserHalf[k][2] \in Index /\ UserHalf[k][3] \in Index /\ UserHalf[k][4] \in Index
  <2>1. PICK a \in 0 .. 1, b \in 0 .. 1, c \in 0 .. 1 :
            UserHalf[k] = <<0, a, b, c>> /\ 16 + 4 * a + 2 * b + c = 15 + k
    <3>1. 0 \in 0 .. 1 /\ 1 \in 0 .. 1
      OBVIOUS
    <3>2. CASE k = 1
      BY <3>1, <3>2, <1>3
    <3>3. CASE k = 2
      BY <3>1, <3>3, <1>3
    <3>4. CASE k = 3
      BY <3>1, <3>4, <1>3
    <3>5. CASE k = 4
      BY <3>1, <3>5, <1>3
    <3>6. CASE k = 5
      BY <3>1, <3>6, <1>3
    <3>7. CASE k = 6
      BY <3>1, <3>7, <1>3
    <3>8. CASE k = 7
      BY <3>1, <3>8, <1>3
    <3>9. CASE k = 8
      BY <3>1, <3>9, <1>3
    <3>10. QED
      BY <3>2, <3>3, <3>4, <3>5, <3>6, <3>7, <3>8, <3>9, <1>2
  <2>2. QED
    BY <2>1, <1>4
<1>6. QED
  BY <1>1, <1>5

LEMMA UserKeys ==
    /\ \A va \in UserPages : /\ Key(va) \in Leaves /\ va[1] = 0
                             /\ va[2] \in Index /\ va[3] \in Index /\ va[4] \in Index
    /\ \A va, vb \in UserPages : Key(va) = Key(vb) => va = vb
    /\ \A n \in Leaves : \E va \in UserPages : Key(va) = n
    /\ kUserStack \in UserPages
<1>1. \A va \in UserPages : \E k \in 1 .. 8 : va = UserHalf[k]
  BY UserHalfKeys DEF UserPages
<1>2. \A va \in UserPages : /\ Key(va) \in Leaves /\ va[1] = 0
                            /\ va[2] \in Index /\ va[3] \in Index /\ va[4] \in Index
  BY <1>1, UserHalfKeys DEF Leaves
<1>3. ASSUME NEW va \in UserPages, NEW vb \in UserPages, Key(va) = Key(vb)
      PROVE  va = vb
  <2>1. PICK k \in 1 .. 8 : va = UserHalf[k] /\ Key(va) = 15 + k
    BY <1>1, UserHalfKeys
  <2>2. PICK j \in 1 .. 8 : vb = UserHalf[j] /\ Key(vb) = 15 + j
    BY <1>1, UserHalfKeys
  <2>3. k = j
    BY <1>3, <2>1, <2>2
  <2>4. QED
    BY <2>1, <2>2, <2>3
<1>4. ASSUME NEW n \in Leaves
      PROVE  \E va \in UserPages : Key(va) = n
  <2>1. n - 15 \in 1 .. 8 /\ 15 + (n - 15) = n
    BY DEF Leaves
  <2>2. UserHalf[n - 15] \in UserPages
    BY <2>1, UserHalfKeys DEF UserPages
  <2>3. QED
    BY <2>1, <2>2, UserHalfKeys
<1>5. kUserStack \in UserPages
  <2>1. kUserStack = UserHalf[2] /\ 2 \in 1 .. 8
    BY DEF kUserStack, UserHalf
  <2>2. QED
    BY <2>1, UserHalfKeys DEF UserPages
<1>6. QED
  BY <1>2, <1>3, <1>4, <1>5

\* The tables on the way to a page.
LEMMA UserSlots ==
    ASSUME NEW va \in UserPages
    PROVE  /\ Slot(1, va[1]) /\ 2 * 1 + va[1] = 2 /\ Slot(2, va[2]) /\ 2 * 2 + va[2] = 4 + va[2]
           /\ Slot(4 + va[2], va[3]) /\ 2 * (4 + va[2]) + va[3] = 8 + 2 * va[2] + va[3]
           /\ Slot(8 + 2 * va[2] + va[3], va[4]) /\ 2 * (8 + 2 * va[2] + va[3]) + va[4] = Key(va)
           /\ 2 \notin Leaves /\ 4 + va[2] \notin Leaves /\ 8 + 2 * va[2] + va[3] \notin Leaves
<1>1. va[1] = 0 /\ va[2] \in 0 .. 1 /\ va[3] \in 0 .. 1 /\ va[4] \in 0 .. 1
  BY UserKeys DEF Index
<1>2. PICK a \in 0 .. 1, b \in 0 .. 1, c \in 0 .. 1 : va[2] = a /\ va[3] = b /\ va[4] = c
  BY <1>1
<1>3. Slot(1, 0) /\ Slot(2, a)
  BY DEF Slot, Inner, Index
<1>4. Slot(4 + a, b)
  <2>1. 4 + a = 4 \/ 4 + a = 5
    OBVIOUS
  <2>2. QED
    BY <2>1 DEF Slot, Inner, Index
<1>5. Slot(8 + 2 * a + b, c)
  <2>1. 8 + 2 * a + b \in 8 .. 11
    OBVIOUS
  <2>2. QED
    BY <2>1 DEF Slot, Inner, Index
<1>6. QED
  BY <1>1, <1>2, <1>3, <1>4, <1>5 DEF Key, Leaves

\* The walk finds the page at the place of the address, through entries with the User bit.
LEMMA WalkUser ==
    ASSUME NEW P, NEW tab, NEW sp, NEW nd, Tree(P, tab, sp, nd), Numbers(P),
           NEW s \in Procs, sp[s] # None, NEW va \in UserPages
    PROVE  /\ Walk(tab, sp[s], va) = <<Leading(nd[s][2]), Leading(nd[s][4 + va[2]]),
                                       Leading(nd[s][8 + 2 * va[2] + va[3]]), Leading(nd[s][Key(va)])>>
           /\ virtual_to_physical(tab, sp[s], va) = nd[s][Key(va)]
           /\ visits(tab, sp[s], va) <=> nd[s][Key(va)] # None
           /\ nd[s][Key(va)] # None =>
                nd[s][2] # None /\ nd[s][4 + va[2]] # None /\ nd[s][8 + 2 * va[2] + va[3]] # None
<1>1. ASSUME NEW q \in P \cup {None}
      PROVE  /\ Present(Leading(q)) <=> q # None
             /\ Present(Leading(q)) => Leading(q).page = q /\ Leading(q).user
  <2>1. CASE q = None
    BY <2>1 DEF Present, Leading
  <2>2. CASE q # None
    <3>1. Leading(q) = [page |-> q, user |-> TRUE] /\ q \in P
      BY <2>2 DEF Leading
    <3>2. Leading(q) # None
      BY <3>1, NoneIsNone DEF Numbers
    <3>3. QED
      BY <3>1, <3>2, <2>2 DEF Present
  <2>3. QED
    BY <2>1, <2>2
<1>2. ASSUME NEW n, NEW i, Slot(n, i)
      PROVE  /\ nd[s][n] \in P \cup {None} /\ nd[s][2 * n + i] \in P \cup {None}
             /\ nd[s][n] = None => nd[s][2 * n + i] = None /\ Leading(nd[s][2 * n + i]) = None
             /\ nd[s][n] # None => tab[nd[s][n]][i] = Leading(nd[s][2 * n + i])
             /\ (IF Present(Leading(nd[s][n])) THEN tab[Leading(nd[s][n]).page][i] ELSE None) = Leading(nd[s][2 * n + i])
  <2>1. nd[s][n] \in P \cup {None} /\ nd[s][2 * n + i] \in P \cup {None}
    BY <1>2, SlotPlaces DEF Tree
  <2>2. /\ nd[s][n] = None => nd[s][2 * n + i] = None /\ Leading(nd[s][2 * n + i]) = None
        /\ nd[s][n] # None => tab[nd[s][n]][i] = Leading(nd[s][2 * n + i])
    BY <1>2 DEF Tree, Leading
  <2>3. QED
    BY <2>1, <2>2, <1>1
<1>3. PICK e1, e2, e3, e4 : /\ e1 = Leading(nd[s][2]) /\ e2 = Leading(nd[s][4 + va[2]])
                            /\ e3 = Leading(nd[s][8 + 2 * va[2] + va[3]]) /\ e4 = Leading(nd[s][Key(va)])
  OBVIOUS
<1>4. tab[sp[s]][va[1]] = e1
  <2>1. nd[s][1] = sp[s]
    BY DEF Tree
  <2>2. Slot(1, va[1]) /\ 2 * 1 + va[1] = 2
    BY UserSlots
  <2>3. QED
    BY <2>1, <2>2, <1>2, <1>3
<1>5. (IF Present(e1) THEN tab[e1.page][va[2]] ELSE None) = e2
  <2>1. Slot(2, va[2]) /\ 2 * 2 + va[2] = 4 + va[2]
    BY UserSlots
  <2>2. QED
    BY <2>1, <1>2, <1>3
<1>6. (IF Present(e2) THEN tab[e2.page][va[3]] ELSE None) = e3
  <2>1. Slot(4 + va[2], va[3]) /\ 2 * (4 + va[2]) + va[3] = 8 + 2 * va[2] + va[3]
    BY UserSlots
  <2>2. QED
    BY <2>1, <1>2, <1>3
<1>7. (IF Present(e3) THEN tab[e3.page][va[4]] ELSE None) = e4
  <2>1. Slot(8 + 2 * va[2] + va[3], va[4]) /\ 2 * (8 + 2 * va[2] + va[3]) + va[4] = Key(va)
    BY UserSlots
  <2>2. QED
    BY <2>1, <1>2, <1>3
<1>8. Walk(tab, sp[s], va) = <<e1, e2, e3, e4>>
  BY <1>4, <1>5, <1>6, <1>7 DEF Walk
<1>9. nd[s][Key(va)] \in P \cup {None}
  BY UserKeys DEF Tree, Places
<1>10. virtual_to_physical(tab, sp[s], va) = nd[s][Key(va)] /\ (visits(tab, sp[s], va) <=> nd[s][Key(va)] # None)
  <2>1. Walk(tab, sp[s], va)[4] = Leading(nd[s][Key(va)])
    BY <1>8, <1>3
  <2>2. QED
    BY <2>1, <1>9, <1>1 DEF virtual_to_physical, visits
<1>11. nd[s][Key(va)] # None =>
           nd[s][2] # None /\ nd[s][4 + va[2]] # None /\ nd[s][8 + 2 * va[2] + va[3]] # None
  <2>1. nd[s][4 + va[2]] = None => nd[s][8 + 2 * va[2] + va[3]] = None
    BY UserSlots, <1>2
  <2>2. nd[s][8 + 2 * va[2] + va[3]] = None => nd[s][Key(va)] = None
    BY UserSlots, <1>2
  <2>3. nd[s][2] = None => nd[s][4 + va[2]] = None
    BY UserSlots, <1>2
  <2>4. QED
    BY <2>1, <2>2, <2>3
<1>12. QED
  BY <1>3, <1>8, <1>10, <1>11

-----------------------------------------------------------------------------
(* map_page_in(), in the user half *)

\* A step of the walk that may have failed before.
LEMMA NextTable ==
    ASSUME NEW P, P = Pages, NEW m, NEW f, NEW sp, NEW nd, NEW s \in Procs, NEW K, NEW H, NEW n,
           Reached(P, m, f, sp, nd, s, n, K, H), NEW i, NEW c, Edge(n, i, c)
    PROVE  Reached(P, m, get_or_create_table(f, i, TRUE), sp, nd, s, c, K, H)
<1>1. PICK nd1 : Grown(P, m, f, sp, nd, nd1, s, K, H) /\ (f.at # None => f.at = nd1[s][n])
  BY DEF Reached
<1>2. CASE f.at = None
  <2>1. get_or_create_table(f, i, TRUE) = f
    BY <1>2, NoTable
  <2>2. QED
    BY <1>1, <1>2, <2>1 DEF Reached
<1>3. CASE f.at # None
  <2>1. Mem(P, f, sp, nd1, K, H)
    BY <1>1 DEF Grown
  <2>2. PICK r : r = get_or_create_table(f, i, TRUE)
    OBVIOUS
  <2>3. Reached(P, f, r, sp, nd1, s, c, K, H)
    BY <1>1, <1>3, <2>1, <2>2, GetTable
  <2>4. PICK nd2 : Grown(P, f, r, sp, nd1, nd2, s, K, H) /\ (r.at # None => r.at = nd2[s][c])
    BY <2>3 DEF Reached
  <2>5. Grown(P, m, r, sp, nd, nd2, s, K, H)
    BY <1>1, <2>4 DEF Grown, KernSame
  <2>6. QED
    BY <2>2, <2>4, <2>5 DEF Reached
<1>4. QED
  BY <1>2, <1>3

\* From m to r page y was mapped at va in the space of s, or tables were missing.
Mapped(P, m, r, sp, nd, nd2, s, va, y, K, H) ==
    /\ Mem(P, r, sp, nd2, K, IF r.at = None THEN H ELSE H \ {y})
    /\ r.data = m.data
    /\ KernSame(K, sp, m.table, r.table)
    /\ \A t \in Procs : \A k \in Places : t # s \/ (k \in Leaves /\ k # Key(va)) => nd2[t][k] = nd[t][k]
    /\ nd2[s][Key(va)] = IF r.at = None THEN None ELSE y

LEMMA MapUser ==
    ASSUME NEW P, P = Pages, NEW m, NEW sp, NEW nd, NEW K, NEW H, Mem(P, m, sp, nd, K, H),
           NEW s \in Procs, sp[s] # None, NEW va \in UserPages, nd[s][Key(va)] = None, NEW y \in H,
           NEW r, r = map_page_in(m, sp[s], va, y, TRUE)
    PROVE  \E nd2 : Mapped(P, m, r, sp, nd, nd2, s, va, y, K, H)
<1>1. PICK m0 : m0 = [m EXCEPT !.at = sp[s]]
  OBVIOUS
<1>2. PICK f1 : f1 = get_or_create_table(m0, va[1], TRUE)
  OBVIOUS
<1>3. PICK f2 : f2 = get_or_create_table(f1, va[2], TRUE)
  OBVIOUS
<1>4. PICK f3 : f3 = get_or_create_table(f2, va[3], TRUE)
  OBVIOUS
<1>5. r = IF f3.at = None THEN f3 ELSE [f3 EXCEPT !.table[f3.at][va[4]] = [page |-> y, user |-> TRUE]]
  BY <1>1, <1>2, <1>3, <1>4 DEF map_page_in, map_with
<1>6. Grown(P, m, m0, sp, nd, nd, s, K, H) /\ m0.at = nd[s][1]
  <2>1. sp[s] = nd[s][1] /\ sp[s] \in P \cup {None}
    BY DEF Mem, World, Tree
  <2>2. /\ m0.at = sp[s] /\ m0.table = m.table /\ m0.bitmap = m.bitmap /\ m0.data = m.data
        /\ IsMemory(P, m0)
    BY <1>1, <2>1 DEF Mem, IsMemory
  <2>3. QED
    BY <2>1, <2>2 DEF Grown, Mem, KernSame
<1>7. Reached(P, m, m0, sp, nd, s, 1, K, H)
  BY <1>6 DEF Reached
<1>8. /\ Edge(1, va[1], 2) /\ Edge(2, va[2], 4 + va[2])
      /\ Edge(4 + va[2], va[3], 8 + 2 * va[2] + va[3])
  BY UserSlots DEF Edge
<1>9. PICK nd3 : Grown(P, m, f3, sp, nd, nd3, s, K, H) /\ (f3.at # None => f3.at = nd3[s][8 + 2 * va[2] + va[3]])
  <2>1. Reached(P, m, f1, sp, nd, s, 2, K, H)
    BY <1>2, <1>7, <1>8, NextTable
  <2>2. Reached(P, m, f2, sp, nd, s, 4 + va[2], K, H)
    BY <1>3, <1>8, <2>1, NextTable
  <2>3. Reached(P, m, f3, sp, nd, s, 8 + 2 * va[2] + va[3], K, H)
    BY <1>4, <1>8, <2>2, NextTable
  <2>4. QED
    BY <2>3 DEF Reached
<1>10. Key(va) \in Leaves /\ Key(va) \in Places
  BY UserKeys DEF Places
<1>11. nd3[s][Key(va)] = None
  BY <1>9, <1>10 DEF Grown
<1>12. CASE f3.at = None
  <2>1. r = f3
    BY <1>5, <1>12
  <2>2. Mapped(P, m, r, sp, nd, nd3, s, va, y, K, H)
    BY <1>9, <1>11, <1>12, <2>1 DEF Mapped, Grown
  <2>3. QED
    BY <2>2
<1>13. CASE f3.at # None
  <2>1. PICK n, p : n = 8 + 2 * va[2] + va[3] /\ p = f3.at
    OBVIOUS
  <2>2. Slot(n, va[4]) /\ 2 * n + va[4] = Key(va) /\ va[4] \in Index
    BY <2>1, UserSlots, UserKeys
  <2>3. p = nd3[s][n] /\ p # None
    BY <1>9, <1>13, <2>1
  <2>4. /\ f3.table \in [P -> TableSet(P)] /\ y \in P /\ p \in P
        /\ World(P, f3.bitmap, f3.table, sp, nd3, K, H) /\ nd3 \in [Procs -> [Places -> P \cup {None}]]
    <3>1. Mem(P, f3, sp, nd3, K, H) /\ n \in Places
      BY <1>9, <2>2, SlotPlaces DEF Grown
    <3>2. QED
      BY <3>1, <2>3 DEF Mem, World, Once, Sizes, Tree
  <2>5. PICK t2 : t2 = [f3.table EXCEPT ![p][va[4]] = [page |-> y, user |-> TRUE]]
    OBVIOUS
  <2>6. PICK nd4 : nd4 = [nd3 EXCEPT ![s][Key(va)] = y]
    OBVIOUS
  <2>7. /\ t2 \in [P -> TableSet(P)]
        /\ \A x \in P : \A j \in Index :
              t2[x][j] = IF x = p /\ j = va[4] THEN [page |-> y, user |-> TRUE] ELSE f3.table[x][j]
    BY <2>2, <2>4, <2>5 DEF TableSet
  <2>8. /\ nd4 \in [Procs -> [Places -> P \cup {None}]]
        /\ \A t \in Procs : \A k \in Places : nd4[t][k] = IF t = s /\ k = Key(va) THEN y ELSE nd3[t][k]
    BY <2>4, <2>6, <1>10
  <2>9. Hung(P, f3.table, t2, nd3, nd4, s, n, va[4], y)
    <3>1. 2 * n + va[4] \in Leaves
      BY <2>2, <1>10
    <3>2. nd3[s][n] # None /\ nd3[s][2 * n + va[4]] = None
      BY <2>2, <2>3, <1>11
    <3>3. \A x \in P : \A j \in Index :
              t2[x][j] = IF x = nd3[s][n] /\ j = va[4] THEN [page |-> y, user |-> TRUE] ELSE f3.table[x][j]
      <4>1. \A x \in P : \A j \in Index :
              t2[x][j] = IF x = p /\ j = va[4] THEN [page |-> y, user |-> TRUE] ELSE f3.table[x][j]
        BY <2>7
      <4>2. p = nd3[s][n]
        BY <2>3
      <4>3. ASSUME NEW x \in P, NEW j \in Index
            PROVE  t2[x][j] = IF x = nd3[s][n] /\ j = va[4] THEN [page |-> y, user |-> TRUE] ELSE f3.table[x][j]
        <5>1. t2[x][j] = IF x = p /\ j = va[4] THEN [page |-> y, user |-> TRUE] ELSE f3.table[x][j]
          BY <4>1
        <5>2. QED
          BY <5>1, <4>2
      <4>4. QED
        BY <4>3
    <3>4. \A t \in Procs : \A k \in Places :
              nd4[t][k] = IF t = s /\ k = 2 * n + va[4] THEN y ELSE nd3[t][k]
      BY <2>2, <2>8
    <3>5. QED
      BY <2>2, <2>7, <2>8, <3>1, <3>2, <3>3, <3>4 DEF Hung
  <2>10. World(P, f3.bitmap, t2, sp, nd4, K, H \ {y}) /\ KernSame(K, sp, f3.table, t2)
    BY <2>4, <2>9, WorldLink
  <2>11. r = [f3 EXCEPT !.table = t2]
    BY <1>5, <1>13, <2>1, <2>5
  <2>12. r.at = p /\ r.table = t2 /\ r.bitmap = f3.bitmap /\ r.data = f3.data /\ IsMemory(P, r)
    BY <2>1, <2>7, <2>11, <1>9 DEF Grown, Mem, IsMemory
  <2>13. Mapped(P, m, r, sp, nd, nd4, s, va, y, K, H)
    <3>1. Mem(P, r, sp, nd4, K, IF r.at = None THEN H ELSE H \ {y})
      BY <2>3, <2>10, <2>12 DEF Mem
    <3>2. r.data = m.data /\ KernSame(K, sp, m.table, r.table)
      BY <1>9, <2>10, <2>12 DEF Grown, KernSame
    <3>3. \A t \in Procs : \A k \in Places : t # s \/ (k \in Leaves /\ k # Key(va)) => nd4[t][k] = nd[t][k]
      BY <1>9, <2>8 DEF Grown
    <3>4. nd4[s][Key(va)] = y
      BY <2>8, <1>10
    <3>5. QED
      BY <3>1, <3>2, <3>3, <3>4, <2>3, <2>12 DEF Mapped
  <2>14. QED
    BY <2>13
<1>14. QED
  BY <1>12, <1>13

-----------------------------------------------------------------------------
(* Giving back, and the way all callers map a page of their own *)

GivenBack(P, m, r, R) ==
    /\ IsMemory(P, r) /\ r.bitmap = m.bitmap \ R /\ r.at = m.at
    /\ \A x \in P : x \notin R => r.table[x] = m.table[x] /\ r.data[x] = m.data[x]

LEMMA GiveBack ==
    ASSUME NEW P, P = Pages, KernelPages \subseteq P, NEW m, IsMemory(P, m), NEW R
    PROVE  GivenBack(P, m, give_back(m, R), R)
<1>1. Junk \in TableSet(P) /\ 0 \in Values
  <2>1. 1 \in P
    BY DEF KernelPages, KPML4
  <2>2. QED
    BY <2>1, VmmConstants DEF Junk, TableSet
<1>2. PICK t2 : t2 = [p \in P |-> IF p \in R THEN Junk ELSE m.table[p]]
  OBVIOUS
<1>3. PICK d2 : d2 = [p \in P |-> IF p \in R THEN 0 ELSE m.data[p]]
  OBVIOUS
<1>4. t2 \in [P -> TableSet(P)] /\ d2 \in [P -> Values] /\ m.bitmap \ R \in SUBSET (0 .. MAX_PAGES - 1)
  BY <1>1, <1>2, <1>3 DEF IsMemory
<1>5. give_back(m, R) = [m EXCEPT !.bitmap = m.bitmap \ R, !.table = t2, !.data = d2]
  BY <1>2, <1>3 DEF give_back
<1>6. PICK r : r = give_back(m, R)
  OBVIOUS
<1>7. IsMemory(P, r) /\ r.bitmap = m.bitmap \ R /\ r.at = m.at /\ r.table = t2 /\ r.data = d2
  BY <1>4, <1>5, <1>6 DEF IsMemory
<1>8. QED
  BY <1>2, <1>3, <1>6, <1>7 DEF GivenBack

\* The page in hand is given back.
Returned(P, r, q, sp, nd, K, H, y) ==
    /\ Mem(P, q, sp, nd, K, H \ {y}) /\ KernSame(K, sp, r.table, q.table) /\ q.at = r.at
    /\ \A x \in P : x # y => q.data[x] = r.data[x]

LEMMA GiveBackOne ==
    ASSUME NEW P, P = Pages, NEW r, NEW sp, NEW nd, NEW K, NEW H, Mem(P, r, sp, nd, K, H),
           NEW y \in H, NEW q, q = give_back(r, {y})
    PROVE  Returned(P, r, q, sp, nd, K, H, y)
<1>1. GivenBack(P, r, q, {y})
  <2>1. IsMemory(P, r) /\ KernelPages \subseteq P
    BY DEF Mem, World, Sizes
  <2>2. QED
    BY <2>1, GiveBack
<1>2. /\ IsMemory(P, q) /\ q.bitmap = r.bitmap \ {y} /\ q.at = r.at
      /\ \A x \in P : x # y => q.table[x] = r.table[x] /\ q.data[x] = r.data[x]
  BY <1>1 DEF GivenBack
<1>3. World(P, r.bitmap \ {y}, q.table, sp, nd, K, H \ {y}) /\ KernSame(K, sp, r.table, q.table)
  <2>1. World(P, r.bitmap, r.table, sp, nd, K, H)
    BY DEF Mem
  <2>2. PICK t2 : t2 = q.table
    OBVIOUS
  <2>3. t2 \in [P -> TableSet(P)] /\ \A x \in P : x # y => t2[x] = r.table[x]
    BY <1>2, <2>2 DEF IsMemory
  <2>4. World(P, r.bitmap \ {y}, t2, sp, nd, K, H \ {y}) /\ KernSame(K, sp, r.table, t2)
    BY <2>1, <2>3, WorldDrop
  <2>5. QED
    BY <2>2, <2>4
<1>4. QED
  BY <1>2, <1>3 DEF Mem, Returned

LEMMA KernSameTwice ==
    ASSUME NEW K, NEW sp, NEW t1, NEW t2, NEW t3, KernSame(K, sp, t1, t2), KernSame(K, sp, t2, t3)
    PROVE  KernSame(K, sp, t1, t3)
  BY DEF KernSame

\* From m to q page y with contents v was mapped at va in the space of s, or q.at is None and
\* perhaps tables were added; nobody else's pages have changed.
Placed(P, m, q, sp, nd, nd2, s, va, y, v, K, H) ==
    /\ Mem(P, q, sp, nd2, K, H)
    /\ KernSame(K, sp, m.table, q.table)
    /\ \A t \in Procs : \A k \in Places : t # s \/ (k \in Leaves /\ k # Key(va)) => nd2[t][k] = nd[t][k]
    /\ \A t \in Procs : \A k \in Places : nd[t][k] # None => q.data[nd[t][k]] = m.data[nd[t][k]]
    /\ nd2[s][Key(va)] = IF q.at = None THEN None ELSE y
    /\ q.at # None => y # None /\ q.data[y] = v

\* How the code gets there: new_page(), something is written to the page, map_page_in(), and
\* the page is given back if that fails.
Placing(P, m, q, sp, nd, s, va, n, d) ==
    /\ s \in Procs /\ sp[s] # None /\ va \in UserPages /\ nd[s][Key(va)] = None
    /\ n = new_page(m) /\ d \in [P -> Values] /\ \A x \in P : x # n.at => d[x] = m.data[x]
    /\ \E n2 : /\ n.at # None => n2 = [n EXCEPT !.data = d]
               /\ LET r == map_page_in(n2, sp[s], va, n.at, TRUE)
                  IN  q = IF n.at = None THEN n ELSE IF r.at = None THEN give_back(r, {n.at}) ELSE r

LEMMA PlacePage ==
    ASSUME NEW P, P = Pages, NEW m, NEW sp, NEW nd, NEW K, NEW H, Mem(P, m, sp, nd, K, H),
           NEW s, NEW va, NEW n, NEW d, NEW q, Placing(P, m, q, sp, nd, s, va, n, d)
    PROVE  \E nd2 : Placed(P, m, q, sp, nd, nd2, s, va, n.at, d[n.at], K, H)
<1>0. /\ s \in Procs /\ sp[s] # None /\ va \in UserPages /\ nd[s][Key(va)] = None
      /\ n = new_page(m) /\ d \in [P -> Values] /\ \A x \in P : x # n.at => d[x] = m.data[x]
  BY DEF Placing
<1>a. PICK n2, r : /\ n.at # None => n2 = [n EXCEPT !.data = d]
                   /\ r = map_page_in(n2, sp[s], va, n.at, TRUE)
                   /\ q = IF n.at = None THEN n ELSE IF r.at = None THEN give_back(r, {n.at}) ELSE r
  BY DEF Placing
<1> USE <1>0, <1>a
<1>1. Taken(P, m, n, sp, nd, K, H)
  BY NewPage
<1>2. KernelPages \subseteq P
  BY DEF Mem, World, Sizes
<1>3. CASE n.at = None
  <2>1. q = n /\ q.table = m.table /\ q.data = m.data /\ Mem(P, q, sp, nd, K, H)
    BY <1>1, <1>3 DEF Taken
  <2>2. Placed(P, m, q, sp, nd, nd, s, va, n.at, d[n.at], K, H)
    BY <2>1, <1>3 DEF Placed, KernSame
  <2>3. QED
    BY <2>2
<1>4. CASE n.at # None
  <2>1. PICK y : y = n.at
    OBVIOUS
  <2>2. /\ y \in P /\ y # None /\ y \notin m.bitmap /\ Mem(P, n, sp, nd, K, H \cup {y})
        /\ n.table = m.table /\ n.data = m.data
    BY <2>1, <1>1, <1>4 DEF Taken
  <2>3. \A t \in Procs : \A k \in Places : nd[t][k] # y /\ nd[t][k] \in P \cup {None}
    BY <2>2 DEF Mem, World, Once, Tree
  <2>4. /\ Mem(P, n2, sp, nd, K, H \cup {y}) /\ n2.table = m.table /\ n2.data = d
    <3>1. n2 = [n EXCEPT !.data = d]
      BY <1>4
    <3>2. n2.table = n.table /\ n2.bitmap = n.bitmap /\ n2.data = d /\ IsMemory(P, n2)
      BY <3>1, <2>2 DEF Mem, IsMemory
    <3>3. QED
      BY <3>2, <2>2 DEF Mem
  <2>5. PICK nd2 : Mapped(P, n2, r, sp, nd, nd2, s, va, y, K, H \cup {y})
    <3>1. y \in H \cup {y} /\ r = map_page_in(n2, sp[s], va, y, TRUE)
      BY <2>1
    <3>2. QED
      BY <2>4, <3>1, MapUser
  <2>6. y \notin H
    <3>1. \A x \in H : x \in m.bitmap
      BY DEF Mem, World, Once
    <3>2. QED
      BY <2>2, <3>1
  <2>7. (H \cup {y}) \ {y} = H
    BY <2>6
  <2>8. CASE r.at = None
    <3>1. q = give_back(r, {y})
      BY <1>4, <2>1, <2>8
    <3>2. Mem(P, r, sp, nd2, K, H \cup {y}) /\ r.data = d /\ KernSame(K, sp, m.table, r.table)
      BY <2>4, <2>5, <2>8 DEF Mapped
    <3>3. /\ Mem(P, q, sp, nd2, K, (H \cup {y}) \ {y}) /\ KernSame(K, sp, r.table, q.table) /\ q.at = r.at
          /\ \A x \in P : x # y => q.data[x] = r.data[x]
      <4>1. PICK G : G = H \cup {y}
        OBVIOUS
      <4>2. y \in G /\ Mem(P, r, sp, nd2, K, G)
        BY <4>1, <3>2
      <4>3. Returned(P, r, q, sp, nd2, K, G, y)
        BY <3>1, <4>2, GiveBackOne
      <4>4. QED
        BY <4>1, <4>3 DEF Returned
    <3>5. Mem(P, q, sp, nd2, K, H)
      BY <3>3, <2>7
    <3>6. KernSame(K, sp, m.table, q.table)
      BY <3>2, <3>3, KernSameTwice
    <3>7. \A t \in Procs : \A k \in Places : nd[t][k] # None => q.data[nd[t][k]] = m.data[nd[t][k]]
      <4>1. \A x \in P : x # y => q.data[x] = m.data[x]
        <5>1. \A x \in P : x # y => q.data[x] = r.data[x]
          BY <3>3
        <5>2. r.data = d
          BY <3>2
        <5>3. \A x \in P : x # y => d[x] = m.data[x]
          BY <2>1
        <5>4. ASSUME NEW x \in P, x # y
              PROVE  q.data[x] = m.data[x]
          <6>1. q.data[x] = r.data[x]
            BY <5>1, <5>4
          <6>2. d[x] = m.data[x]
            BY <5>3, <5>4
          <6>3. QED
            BY <6>1, <6>2, <5>2
        <5>5. QED
          BY <5>4
      <4>2. QED
        BY <4>1, <2>3
    <3>8. nd2[s][Key(va)] = None
      BY <2>5, <2>8 DEF Mapped
    <3>9. Placed(P, m, q, sp, nd, nd2, s, va, y, d[y], K, H)
      BY <2>5, <2>8, <3>3, <3>5, <3>6, <3>7, <3>8 DEF Placed, Mapped
    <3>10. QED
      BY <3>9, <2>1
  <2>9. CASE r.at # None
    <3>1. q = r
      BY <1>4, <2>9
    <3>2. Mem(P, q, sp, nd2, K, H) /\ q.data = d /\ KernSame(K, sp, m.table, q.table)
      BY <2>4, <2>5, <2>7, <2>9, <3>1 DEF Mapped
    <3>3. \A t \in Procs : \A k \in Places : nd[t][k] # None => q.data[nd[t][k]] = m.data[nd[t][k]]
      BY <2>1, <2>3, <3>2
    <3>4. nd2[s][Key(va)] = y
      BY <2>5, <2>9 DEF Mapped
    <3>5. Placed(P, m, q, sp, nd, nd2, s, va, y, d[y], K, H)
      BY <2>2, <2>5, <2>9, <3>1, <3>2, <3>3, <3>4 DEF Placed, Mapped
    <3>6. QED
      BY <3>5, <2>1
  <2>10. QED
    BY <2>8, <2>9
<1>5. QED
  BY <1>3, <1>4

-----------------------------------------------------------------------------
(* The kernel half *)

\* The User bits on the way to the .user section.
Bits(tab, p) == tab[p][1].user /\ tab[KPDPT][1].user /\ tab[KPD][0].user /\ tab[KPT][0].user

LEMMA KernKept ==
    ASSUME NEW tab, NEW tab2, NEW sp, NEW K, NEW hp, Kern(tab, sp, K, hp), KernelPages \subseteq K,
           KernSame(K, sp, tab, tab2)
    PROVE  /\ Kern(tab2, sp, K, hp) /\ tab2[KPD] = tab[KPD]
           /\ \A s \in Procs : sp[s] # None /\ Bits(tab, sp[s]) => Bits(tab2, sp[s])
<1>1. KPML4 \in K /\ KPDPT \in K /\ KPD \in K /\ KPT \in K
  BY DEF KernelPages
<1>2. tab2[KPML4] = tab[KPML4] /\ tab2[KPDPT] = tab[KPDPT] /\ tab2[KPD] = tab[KPD] /\ tab2[KPT] = tab[KPT]
  BY <1>1 DEF KernSame
<1>3. \A s \in Procs : sp[s] # None => To(tab2[sp[s]][1], KPDPT)
  BY DEF Kern, KernSame
<1>4. \A k \in DOMAIN hp : hp[k].mapped => /\ Present(tab2[KPD][1])
                                           /\ To(tab2[tab2[KPD][1].page][k - 1], hp[k].page)
  <2>1. SUFFICES ASSUME NEW k \in DOMAIN hp, hp[k].mapped
                 PROVE  Present(tab2[KPD][1]) /\ To(tab2[tab2[KPD][1].page][k - 1], hp[k].page)
    OBVIOUS
  <2>2. Present(tab[KPD][1]) /\ To(tab[tab[KPD][1].page][k - 1], hp[k].page) /\ tab[KPD][1].page \in K
    BY <2>1 DEF Kern
  <2>3. tab2[tab[KPD][1].page] = tab[tab[KPD][1].page]
    BY <2>2 DEF KernSame
  <2>4. QED
    BY <2>2, <2>3, <1>2
<1>5. Kern(tab2, sp, K, hp)
  BY <1>2, <1>3, <1>4 DEF Kern
<1>6. \A s \in Procs : sp[s] # None /\ Bits(tab, sp[s]) => Bits(tab2, sp[s])
  BY <1>2 DEF Bits, KernSame
<1>7. QED
  BY <1>2, <1>5, <1>6

\* The walks through entry 1 of any PML4.
LEMMA WalkKernel ==
    ASSUME NEW tab, NEW sp, NEW K, NEW hp, Kern(tab, sp, K, hp), NEW c, To(tab[c][1], KPDPT)
    PROVE  /\ Walk(tab, c, UserCode) = <<tab[c][1], tab[KPDPT][1], tab[KPD][0], tab[KPT][0]>>
           /\ virtual_to_physical(tab, c, UserCode) = KUSER
           /\ \A k \in DOMAIN hp : hp[k].mapped => virtual_to_physical(tab, c, HeapPage(k - 1)) = hp[k].page
<1>1. Walk(tab, c, UserCode) = <<tab[c][1], tab[KPDPT][1], tab[KPD][0], tab[KPT][0]>>
  BY DEF Walk, UserCode, Kern, To
<1>2. virtual_to_physical(tab, c, UserCode) = KUSER
  BY <1>1 DEF virtual_to_physical, Kern, To
<1>3. ASSUME NEW k \in DOMAIN hp, hp[k].mapped
      PROVE  virtual_to_physical(tab, c, HeapPage(k - 1)) = hp[k].page
  <2>1. Present(tab[KPD][1]) /\ To(tab[tab[KPD][1].page][k - 1], hp[k].page)
    BY <1>3 DEF Kern
  <2>2. PICK va : va = HeapPage(k - 1)
    OBVIOUS
  <2>3. va[1] = 1 /\ va[2] = 1 /\ va[3] = 1 /\ va[4] = k - 1
    BY <2>2 DEF HeapPage
  <2>4. Walk(tab, c, va) = <<tab[c][1], tab[KPDPT][1], tab[KPD][1], tab[tab[KPD][1].page][k - 1]>>
    BY <2>1, <2>3 DEF Walk, Kern, To
  <2>5. QED
    BY <2>1, <2>2, <2>4 DEF virtual_to_physical, To
<1>4. QED
  BY <1>1, <1>2, <1>3

\* From m to r the walk went through the entry i of table p, which was there.
Followed(P, m, r, p, i, u) ==
    /\ IsMemory(P, r) /\ r.bitmap = m.bitmap /\ r.data = m.data /\ r.at = m.table[p][i].page
    /\ \A x \in P : \A j \in Index :
        r.table[x][j] = IF x = p /\ j = i
                        THEN [page |-> m.table[p][i].page, user |-> m.table[p][i].user \/ u]
                        ELSE m.table[x][j]

LEMMA FollowEntry ==
    ASSUME NEW P, P \subseteq 0 .. MAX_PAGES - 1, NEW m, IsMemory(P, m), NEW p \in P, m.at = p,
           NEW i \in Index, NEW q, To(m.table[p][i], q), NEW u \in BOOLEAN
    PROVE  Followed(P, m, get_or_create_table(m, i, u), p, i, u)
<1>1. PICK e, r : e = m.table[p][i] /\ r = get_or_create_table(m, i, u)
  OBVIOUS
<1>2. e \in [page : P, user : BOOLEAN] /\ m.table \in [P -> TableSet(P)]
  BY <1>1 DEF IsMemory, TableSet, To, Present
<1>3. p # None /\ Present(e)
  <2>1. None \notin P
    BY NoneIsNone
  <2>2. QED
    BY <1>1, <2>1 DEF To
<1>4. PICK e2 : e2 = [page |-> e.page, user |-> e.user \/ u]
  OBVIOUS
<1>5. e2 \in [page : P, user : BOOLEAN]
  BY <1>2, <1>4
<1>6. r = [m EXCEPT !.at = e.page, !.table[p][i] = e2]
  <2>1. r = existing_table(m, p, i, e, u)
    BY <1>1, <1>3, TableThere
  <2>2. QED
    BY <1>4, <2>1 DEF existing_table
<1>7. PICK t2 : t2 = [m.table EXCEPT ![p][i] = e2]
  OBVIOUS
<1>8. /\ t2 \in [P -> TableSet(P)]
      /\ \A x \in P : \A j \in Index : t2[x][j] = IF x = p /\ j = i THEN e2 ELSE m.table[x][j]
  BY <1>2, <1>5, <1>7 DEF TableSet
<1>9. r = [m EXCEPT !.at = e.page, !.table = t2]
  BY <1>6, <1>7
<1>10. IsMemory(P, r) /\ r.bitmap = m.bitmap /\ r.data = m.data /\ r.at = e.page /\ r.table = t2
  BY <1>2, <1>8, <1>9 DEF IsMemory
<1>11. QED
  BY <1>1, <1>4, <1>8, <1>10 DEF Followed

\* A page in hand becomes the kernel's.
LEMMA WorldAdopt ==
    ASSUME NEW P, NEW bm, NEW tab, NEW sp, NEW nd, NEW K, NEW H, World(P, bm, tab, sp, nd, K, H),
           NEW y \in H
    PROVE  World(P, bm, tab, sp, nd, K \cup {y}, H \ {y})
<1>1. Once(P, bm, nd, K \cup {y}, H \ {y})
  BY DEF World, Once
<1>2. QED
  BY <1>1 DEF World

\* map_user_space() maps the .user section where it is: it only adds User bits.
CodeMapped(P, m, r, sp, nd, s, K, H, hp) ==
    /\ Mem(P, r, sp, nd, K, H) /\ r.at # None /\ r.data = m.data
    /\ Kern(r.table, sp, K, hp) /\ r.table[KPD][1] = m.table[KPD][1]
    /\ Bits(r.table, sp[s]) /\ \A t \in Procs : sp[t] # None /\ Bits(m.table, sp[t]) => Bits(r.table, sp[t])

LEMMA MapCode ==
    ASSUME NEW P, NEW m, NEW sp, NEW nd, NEW K, NEW H, Mem(P, m, sp, nd, K, H),
           NEW hp, Kern(m.table, sp, K, hp), NEW s \in Procs, sp[s] # None
    PROVE  CodeMapped(P, m, map_page_in(m, sp[s], UserCode, KUSER, TRUE), sp, nd, s, K, H, hp)
<1>1. PICK p : p = sp[s]
  OBVIOUS
<1>2. /\ p \in P /\ p \notin K /\ P \subseteq 0 .. MAX_PAGES - 1 /\ None \notin P
      /\ KPDPT \in P /\ KPD \in P /\ KPT \in P /\ KUSER \in P /\ KernelPages \subseteq K /\ K \subseteq P
      /\ IsMemory(P, m) /\ m.table \in [P -> TableSet(P)]
  <2>1. p = nd[s][1] /\ 1 \in Places /\ p \in P
    BY <1>1 DEF Mem, World, Tree, Places, Inner
  <2>2. p \notin K /\ P \subseteq 0 .. MAX_PAGES - 1 /\ KernelPages \subseteq K /\ K \subseteq P
    BY <2>1 DEF Mem, World, Once, Sizes
  <2>3. QED
    BY <2>1, <2>2, NoneIsNone DEF KernelPages, Mem, IsMemory
<1>3. p # KPDPT /\ p # KPD /\ p # KPT /\ KPDPT # KPD /\ KPDPT # KPT /\ KPD # KPT
  BY <1>2 DEF KernelPages, KPDPT, KPD, KPT
<1>4. To(m.table[p][1], KPDPT) /\ To(m.table[KPDPT][1], KPD) /\ To(m.table[KPD][0], KPT) /\ To(m.table[KPT][0], KUSER)
  BY <1>1 DEF Kern
<1>5. 0 \in Index /\ 1 \in Index /\ TRUE \in BOOLEAN
  BY DEF Index
<1>6. PICK m0 : m0 = [m EXCEPT !.at = p]
  OBVIOUS
<1>7. IsMemory(P, m0) /\ m0.at = p /\ m0.table = m.table /\ m0.bitmap = m.bitmap /\ m0.data = m.data
  BY <1>2, <1>6 DEF IsMemory
<1>8. PICK f1 : f1 = get_or_create_table(m0, 1, TRUE)
  OBVIOUS
<1>9. Followed(P, m0, f1, p, 1, TRUE)
  BY <1>2, <1>4, <1>5, <1>7, <1>8, FollowEntry
<1>10. /\ IsMemory(P, f1) /\ f1.at = KPDPT /\ f1.bitmap = m.bitmap /\ f1.data = m.data
       /\ \A x \in P : \A j \in Index :
             f1.table[x][j] = IF x = p /\ j = 1 THEN [page |-> KPDPT, user |-> TRUE] ELSE m.table[x][j]
  <2>1. PICK e : e = m.table[p][1]
    OBVIOUS
  <2>2. e.page = KPDPT /\ m0.table[p][1] = e
    BY <1>4, <1>7, <2>1 DEF To
  <2>3. [page |-> e.page, user |-> e.user \/ TRUE] = [page |-> KPDPT, user |-> TRUE]
    BY <2>2
  <2>4. /\ IsMemory(P, f1) /\ f1.bitmap = m0.bitmap /\ f1.data = m0.data /\ f1.at = e.page
        /\ \A x \in P : \A j \in Index :
              f1.table[x][j] = IF x = p /\ j = 1 THEN [page |-> e.page, user |-> e.user \/ TRUE]
                               ELSE m0.table[x][j]
    BY <1>9, <2>2 DEF Followed
  <2>5. QED
    BY <2>2, <2>3, <2>4, <1>7
<1>11. PICK f2 : f2 = get_or_create_table(f1, 1, TRUE)
  OBVIOUS
<1>12. f1.table[KPDPT][1] = m.table[KPDPT][1]
  BY <1>2, <1>3, <1>5, <1>10
<1>13. Followed(P, f1, f2, KPDPT, 1, TRUE)
  BY <1>2, <1>4, <1>5, <1>10, <1>11, <1>12, FollowEntry
<1>14. /\ IsMemory(P, f2) /\ f2.at = KPD /\ f2.bitmap = m.bitmap /\ f2.data = m.data
       /\ \A x \in P : \A j \in Index :
             f2.table[x][j] = IF x = KPDPT /\ j = 1 THEN [page |-> KPD, user |-> TRUE] ELSE f1.table[x][j]
  <2>1. PICK e : e = m.table[KPDPT][1]
    OBVIOUS
  <2>2. e.page = KPD /\ f1.table[KPDPT][1] = e
    BY <1>4, <1>12, <2>1 DEF To
  <2>3. [page |-> e.page, user |-> e.user \/ TRUE] = [page |-> KPD, user |-> TRUE]
    BY <2>2
  <2>4. /\ IsMemory(P, f2) /\ f2.bitmap = f1.bitmap /\ f2.data = f1.data /\ f2.at = e.page
        /\ \A x \in P : \A j \in Index :
              f2.table[x][j] = IF x = KPDPT /\ j = 1 THEN [page |-> e.page, user |-> e.user \/ TRUE]
                               ELSE f1.table[x][j]
    BY <1>13, <2>2 DEF Followed
  <2>5. f1.bitmap = m.bitmap /\ f1.data = m.data
    BY <1>10
  <2>6. QED
    BY <2>2, <2>3, <2>4, <2>5
<1>15. PICK f3 : f3 = get_or_create_table(f2, 0, TRUE)
  OBVIOUS
<1>16. f2.table[KPD][0] = m.table[KPD][0]
  BY <1>2, <1>3, <1>5, <1>10, <1>14
<1>17. Followed(P, f2, f3, KPD, 0, TRUE)
  BY <1>2, <1>4, <1>5, <1>14, <1>15, <1>16, FollowEntry
<1>18. /\ IsMemory(P, f3) /\ f3.at = KPT /\ f3.bitmap = m.bitmap /\ f3.data = m.data
       /\ \A x \in P : \A j \in Index :
             f3.table[x][j] = IF x = KPD /\ j = 0 THEN [page |-> KPT, user |-> TRUE] ELSE f2.table[x][j]
  <2>1. PICK e : e = m.table[KPD][0]
    OBVIOUS
  <2>2. e.page = KPT /\ f2.table[KPD][0] = e
    BY <1>4, <1>16, <2>1 DEF To
  <2>3. [page |-> e.page, user |-> e.user \/ TRUE] = [page |-> KPT, user |-> TRUE]
    BY <2>2
  <2>4. /\ IsMemory(P, f3) /\ f3.bitmap = f2.bitmap /\ f3.data = f2.data /\ f3.at = e.page
        /\ \A x \in P : \A j \in Index :
              f3.table[x][j] = IF x = KPD /\ j = 0 THEN [page |-> e.page, user |-> e.user \/ TRUE]
                               ELSE f2.table[x][j]
    BY <1>17, <2>2 DEF Followed
  <2>5. f2.bitmap = m.bitmap /\ f2.data = m.data
    BY <1>14
  <2>6. QED
    BY <2>2, <2>3, <2>4, <2>5
<1>19. PICK r : r = map_page_in(m, sp[s], UserCode, KUSER, TRUE)
  OBVIOUS
<1>20. KPT # None
  BY <1>2
<1>21. r = [f3 EXCEPT !.table[KPT][0] = [page |-> KUSER, user |-> TRUE]]
  <2>1. UserCode[1] = 1 /\ UserCode[2] = 1 /\ UserCode[3] = 0 /\ UserCode[4] = 0
    BY DEF UserCode
  <2>2. r = map_with(m, p, UserCode, KUSER, TRUE, TRUE)
    BY <1>1, <1>19 DEF map_page_in
  <2>3. QED
    BY <1>6, <1>8, <1>11, <1>15, <1>18, <1>20, <2>1, <2>2 DEF map_with
<1>22. PICK t4 : t4 = [f3.table EXCEPT ![KPT][0] = [page |-> KUSER, user |-> TRUE]]
  OBVIOUS
<1>23. /\ t4 \in [P -> TableSet(P)]
       /\ \A x \in P : \A j \in Index :
             t4[x][j] = IF x = KPT /\ j = 0 THEN [page |-> KUSER, user |-> TRUE] ELSE f3.table[x][j]
  BY <1>2, <1>5, <1>18, <1>22 DEF IsMemory, TableSet
<1>24. IsMemory(P, r) /\ r.at = KPT /\ r.table = t4 /\ r.bitmap = m.bitmap /\ r.data = m.data
  <2>1. r = [f3 EXCEPT !.table = t4]
    BY <1>21, <1>22
  <2>2. QED
    BY <2>1, <1>18, <1>23 DEF IsMemory
<1>25. /\ t4[p][1] = [page |-> KPDPT, user |-> TRUE] /\ t4[KPDPT][1] = [page |-> KPD, user |-> TRUE]
       /\ t4[KPD][0] = [page |-> KPT, user |-> TRUE] /\ t4[KPT][0] = [page |-> KUSER, user |-> TRUE]
       /\ t4[KPD][1] = m.table[KPD][1]
  <2>1. t4[p][1] = [page |-> KPDPT, user |-> TRUE]
    <3>1. t4[p][1] = f3.table[p][1]
      BY <1>2, <1>3, <1>5, <1>23
    <3>2. f3.table[p][1] = f2.table[p][1]
      BY <1>2, <1>3, <1>5, <1>18
    <3>3. f2.table[p][1] = f1.table[p][1]
      BY <1>2, <1>3, <1>5, <1>14
    <3>4. f1.table[p][1] = [page |-> KPDPT, user |-> TRUE]
      BY <1>2, <1>5, <1>10
    <3>5. QED
      BY <3>1, <3>2, <3>3, <3>4
  <2>2. /\ t4[KPDPT][1] = f3.table[KPDPT][1] /\ f3.table[KPDPT][1] = f2.table[KPDPT][1]
        /\ f2.table[KPDPT][1] = [page |-> KPD, user |-> TRUE]
    <3>1. t4[KPDPT][1] = f3.table[KPDPT][1]
      BY <1>2, <1>3, <1>5, <1>23
    <3>2. f3.table[KPDPT][1] = f2.table[KPDPT][1]
      BY <1>2, <1>3, <1>5, <1>18
    <3>3. f2.table[KPDPT][1] = [page |-> KPD, user |-> TRUE]
      BY <1>2, <1>5, <1>14
    <3>4. QED
      BY <3>1, <3>2, <3>3
  <2>3. t4[KPD][0] = f3.table[KPD][0] /\ f3.table[KPD][0] = [page |-> KPT, user |-> TRUE]
    BY <1>2, <1>3, <1>5, <1>18, <1>23
  <2>4. t4[KPT][0] = [page |-> KUSER, user |-> TRUE]
    BY <1>2, <1>5, <1>23
  <2>5. /\ t4[KPD][1] = f3.table[KPD][1] /\ f3.table[KPD][1] = f2.table[KPD][1]
        /\ f2.table[KPD][1] = f1.table[KPD][1] /\ f1.table[KPD][1] = m.table[KPD][1]
    BY <1>2, <1>3, <1>5, <1>10, <1>14, <1>18, <1>23
  <2>6. QED
    BY <2>1, <2>2, <2>3, <2>4, <2>5
<1>26. \A x \in P : \A j \in Index :
           \/ t4[x][j] = m.table[x][j] \/ (x = p /\ j = 1) \/ x = KPDPT \/ x = KPD \/ x = KPT
  BY <1>10, <1>14, <1>18, <1>23
<1>27. World(P, m.bitmap, t4, sp, nd, K, H)
  <2>1. \A x \in P : \A j \in Index :
            \/ t4[x][j] = m.table[x][j] \/ x \in K
            \/ j = 1 /\ \E t \in Procs : x = sp[t]
    <3>1. KPDPT \in K /\ KPD \in K /\ KPT \in K
      BY <1>2 DEF KernelPages
    <3>2. QED
      BY <1>1, <1>26, <3>1
  <2>2. World(P, m.bitmap, m.table, sp, nd, K, H)
    BY DEF Mem
  <2>3. QED
    BY <1>23, <2>1, <2>2, WorldKernel
<1>28. \A x \in P : x # p /\ x # KPDPT /\ x # KPD /\ x # KPT => t4[x] = m.table[x]
  <2>1. SUFFICES ASSUME NEW x \in P, x # p /\ x # KPDPT /\ x # KPD /\ x # KPT
                 PROVE  t4[x] = m.table[x]
    OBVIOUS
  <2>2. \A j \in Index : t4[x][j] = m.table[x][j]
    BY <1>26, <2>1
  <2>3. t4[x] \in TableSet(P) /\ m.table[x] \in TableSet(P)
    BY <1>2, <1>23
  <2>4. QED
    BY <2>2, <2>3 DEF TableSet
<1>29. \A x \in P : To([page |-> x, user |-> TRUE], x)
  <2>1. \A x \in P : [page |-> x, user |-> TRUE] # None
    BY <1>2, NoneIsNone
  <2>2. QED
    BY <2>1 DEF Present, To
<1>30. ASSUME NEW t \in Procs, sp[t] # None
       PROVE  To(t4[sp[t]][1], KPDPT) /\ (m.table[sp[t]][1].user => t4[sp[t]][1].user)
  <2>1. To(m.table[sp[t]][1], KPDPT)
    BY <1>30 DEF Kern
  <2>2. sp[t] \in P /\ sp[t] \notin K
    <3>1. sp[t] = nd[t][1] /\ 1 \in Places /\ sp[t] \in P
      BY <1>30 DEF Mem, World, Tree, Places, Inner
    <3>2. QED
      BY <3>1 DEF Mem, World, Once
  <2>3. CASE sp[t] = p
    <3>1. To(t4[p][1], KPDPT)
      BY <1>2, <1>25, <1>29
    <3>2. t4[p][1].user
      BY <1>25
    <3>3. QED
      BY <2>3, <3>1, <3>2
  <2>4. CASE sp[t] # p
    <3>1. t4[sp[t]] = m.table[sp[t]]
      BY <2>2, <2>4, <1>2, <1>28 DEF KernelPages
    <3>2. QED
      BY <2>1, <3>1
  <2>5. QED
    BY <2>3, <2>4
<1>31. Kern(t4, sp, K, hp)
  <2>1. To(t4[KPML4][1], KPDPT)
    <3>1. KPML4 \in P /\ KPML4 # p /\ KPML4 # KPDPT /\ KPML4 # KPD /\ KPML4 # KPT
      BY <1>2 DEF KernelPages, KPML4, KPDPT, KPD, KPT
    <3>2. t4[KPML4] = m.table[KPML4]
      BY <3>1, <1>28
    <3>3. QED
      BY <3>2 DEF Kern
  <2>2. To(t4[KPDPT][1], KPD) /\ To(t4[KPD][0], KPT) /\ To(t4[KPT][0], KUSER)
    BY <1>2, <1>25, <1>29
  <2>3. Present(t4[KPD][1]) => t4[KPD][1].page \in K \ KernelPages
    BY <1>25 DEF Kern
  <2>4. ASSUME NEW k \in DOMAIN hp, hp[k].mapped
        PROVE  Present(t4[KPD][1]) /\ To(t4[t4[KPD][1].page][k - 1], hp[k].page)
    <3>1. Present(m.table[KPD][1]) /\ To(m.table[m.table[KPD][1].page][k - 1], hp[k].page)
      BY <2>4 DEF Kern
    <3>2. PICK h : h = m.table[KPD][1].page
      OBVIOUS
    <3>3. h \in K \ KernelPages
      BY <3>1, <3>2 DEF Kern
    <3>4. t4[h] = m.table[h]
      BY <3>3, <1>2, <1>28 DEF KernelPages
    <3>5. QED
      BY <3>1, <3>2, <3>4, <1>25
  <2>5. QED
    BY <2>1, <2>2, <2>3, <2>4, <1>30 DEF Kern
<1>32. Bits(t4, p) /\ \A t \in Procs : sp[t] # None /\ Bits(m.table, sp[t]) => Bits(t4, sp[t])
  BY <1>25, <1>30 DEF Bits
<1>33. CodeMapped(P, m, r, sp, nd, s, K, H, hp)
  BY <1>1, <1>20, <1>24, <1>25, <1>27, <1>31, <1>32 DEF CodeMapped, Mem
<1>34. QED
  BY <1>19, <1>33

\* Without User in the flags an existing entry stays as it is.
WentTo(P, m, r, q) ==
    r.table = m.table /\ r.bitmap = m.bitmap /\ r.data = m.data /\ r.at = q /\ IsMemory(P, r)

LEMMA FollowSame ==
    ASSUME NEW P, P \subseteq 0 .. MAX_PAGES - 1, NEW m, IsMemory(P, m), NEW p \in P, m.at = p,
           NEW i \in Index, NEW q, To(m.table[p][i], q)
    PROVE  WentTo(P, m, get_or_create_table(m, i, FALSE), q)
<1>1. PICK r, e : r = get_or_create_table(m, i, FALSE) /\ e = m.table[p][i]
  OBVIOUS
<1>2. FALSE \in BOOLEAN /\ Followed(P, m, r, p, i, FALSE)
  BY <1>1, FollowEntry
<1>3. e \in [page : P, user : BOOLEAN] /\ m.table \in [P -> TableSet(P)] /\ e.page = q
  BY <1>1 DEF IsMemory, TableSet, To, Present
<1>4. [page |-> e.page, user |-> e.user \/ FALSE] = e
  BY <1>3
<1>5. /\ IsMemory(P, r) /\ r.bitmap = m.bitmap /\ r.data = m.data /\ r.at = q
      /\ \A x \in P : \A j \in Index : r.table[x][j] = m.table[x][j]
  BY <1>1, <1>2, <1>3, <1>4 DEF Followed
<1>6. \A x \in P : r.table[x] = m.table[x]
  <2>1. SUFFICES ASSUME NEW x \in P
                 PROVE  r.table[x] = m.table[x]
    OBVIOUS
  <2>2. r.table[x] \in TableSet(P) /\ m.table[x] \in TableSet(P)
    BY <1>3, <1>5 DEF IsMemory
  <2>3. QED
    BY <1>5, <2>2 DEF TableSet
<1>7. r.table = m.table
  <2>1. PICK t1, t2 : t1 = m.table /\ t2 = r.table
    OBVIOUS
  <2>2. t1 \in [P -> TableSet(P)] /\ t2 \in [P -> TableSet(P)] /\ \A x \in P : t2[x] = t1[x]
    BY <2>1, <1>3, <1>5, <1>6 DEF IsMemory
  <2>3. t1 = t2
    BY <2>2
  <2>4. QED
    BY <2>1, <2>3
<1>8. QED
  BY <1>1, <1>5, <1>7 DEF WentTo

\* The heap's page y is in hand and f.at is the PT it goes to, or there is none.
HeapTableAt(P, m, f, sp, nd, K, K1, hp, y) ==
    /\ Mem(P, f, sp, nd, K1, {y}) /\ f.data = m.data /\ Kern(f.table, sp, K1, hp)
    /\ f.at # None => To(f.table[KPD][1], f.at)
    /\ K1 = K \cup Entries(f.table, KPD, {1})
    /\ Entries(m.table, KPD, {1}) \subseteq Entries(f.table, KPD, {1})
    /\ \A t \in Procs : sp[t] # None /\ Bits(m.table, sp[t]) => Bits(f.table, sp[t])

LEMMA GetHeapTable ==
    ASSUME NEW P, P = Pages, NEW m, NEW sp, NEW nd, NEW K, NEW y, Mem(P, m, sp, nd, K, {y}),
           NEW hp, Kern(m.table, sp, K, hp), m.at = KPD
    PROVE  \E K1 : HeapTableAt(P, m, get_or_create_table(m, 1, FALSE), sp, nd, K, K1, hp, y)
<1>1. PICK f : f = get_or_create_table(m, 1, FALSE)
  OBVIOUS
<1>2. /\ P \subseteq 0 .. MAX_PAGES - 1 /\ None \notin P /\ KPD \in P /\ KPDPT \in P /\ KPT \in P /\ KPML4 \in P
      /\ KernelPages \subseteq K /\ K \subseteq P
      /\ IsMemory(P, m) /\ m.table \in [P -> TableSet(P)] /\ y \in P
  <2>1. P \subseteq 0 .. MAX_PAGES - 1 /\ KernelPages \subseteq K /\ K \subseteq P /\ y \in P
    BY DEF Mem, World, Once, Sizes
  <2>2. QED
    BY <2>1, NoneIsNone DEF Mem, IsMemory, KernelPages
<1>3. 1 \in Index /\ 0 \in Index /\ KPD # None
  BY <1>2 DEF Index
<1>4. PICK e : e = m.table[KPD][1]
  OBVIOUS
<1>5. CASE Present(e)
  <2>1. To(m.table[KPD][1], e.page) /\ e.page \in K
    BY <1>4, <1>5 DEF To, Kern
  <2>2. f.table = m.table /\ f.bitmap = m.bitmap /\ f.data = m.data /\ f.at = e.page /\ IsMemory(P, f)
    <3>1. WentTo(P, m, f, e.page)
      BY <1>1, <1>2, <1>3, <2>1, FollowSame
    <3>2. QED
      BY <3>1 DEF WentTo
  <2>3. K = K \cup Entries(f.table, KPD, {1})
    BY <2>1, <2>2, <1>4 DEF Entries
  <2>4. HeapTableAt(P, m, f, sp, nd, K, K, hp, y)
    BY <2>1, <2>2, <2>3 DEF HeapTableAt, Mem
  <2>5. QED
    BY <1>1, <2>4
<1>6. CASE ~ Present(e)
  <2>0. Entries(m.table, KPD, {1}) = {}
    BY <1>4, <1>6 DEF Entries
  <2>1. e = None
    BY <1>6 DEF Present
  <2>2. PICK g : g = new_page(m)
    OBVIOUS
  <2>3. Taken(P, m, g, sp, nd, K, {y})
    BY <2>2, NewPage
  <2>4. f = IF g.at = None THEN g
            ELSE [g EXCEPT !.table = [g.table EXCEPT ![g.at] = Zeroed, ![KPD][1] = [page |-> g.at, user |-> FALSE]]]
    <3>1. f = new_table(g, KPD, 1, FALSE)
      <4>1. m.at = KPD /\ KPD # None /\ ~ Present(m.table[KPD][1])
        BY <1>3, <1>4, <1>6
      <4>2. get_or_create_table(m, 1, FALSE) = new_table(new_page(m), KPD, 1, FALSE)
        BY <4>1, TableMissing
      <4>3. QED
        BY <4>2, <1>1, <2>2
    <3>2. QED
      BY <3>1 DEF new_table
  <2>5. CASE g.at = None
    <3>1. f = g /\ f.table = m.table /\ f.data = m.data /\ Mem(P, f, sp, nd, K, {y})
      BY <2>3, <2>4, <2>5 DEF Taken
    <3>2. K = K \cup Entries(f.table, KPD, {1})
      BY <3>1, <1>4, <1>6 DEF Entries
    <3>3. HeapTableAt(P, m, f, sp, nd, K, K, hp, y)
      BY <3>1, <3>2, <2>5 DEF HeapTableAt
    <3>4. QED
      BY <1>1, <3>3
  <2>6. CASE g.at # None
    <3>1. PICK z, G : z = g.at /\ G = {y} \cup {z}
      OBVIOUS
    <3>2. /\ z \in P /\ z # None /\ z \notin m.bitmap /\ g.table = m.table /\ g.data = m.data
          /\ IsMemory(P, g) /\ World(P, g.bitmap, m.table, sp, nd, K, G)
      BY <3>1, <2>3, <2>6 DEF Taken, Mem
    <3>3. z \notin K /\ z # y
      <4>1. \A x \in P : x \in K \/ x \in {y} => x \in m.bitmap
        BY DEF Mem, World, Once
      <4>2. QED
        BY <4>1, <3>2, <1>2
    <3>4. PICK t1 : t1 = [m.table EXCEPT ![z] = Zeroed]
      OBVIOUS
    <3>5. t1 \in [P -> TableSet(P)] /\ \A x \in P : x # z => t1[x] = m.table[x]
      BY <3>2, <3>4, <1>2 DEF TableSet, Zeroed
    <3>6. World(P, g.bitmap, t1, sp, nd, K, G) /\ KernSame(K, sp, m.table, t1)
      <4>1. z \in G
        BY <3>1
      <4>2. QED
        BY <3>2, <3>5, <4>1, WorldScratch
    <3>7. Kern(t1, sp, K, hp) /\ t1[KPD] = m.table[KPD]
          /\ \A t \in Procs : sp[t] # None /\ Bits(m.table, sp[t]) => Bits(t1, sp[t])
      BY <3>6, <1>2, KernKept
    <3>8. PICK t2 : t2 = [t1 EXCEPT ![KPD][1] = [page |-> z, user |-> FALSE]]
      OBVIOUS
    <3>9. /\ t2 \in [P -> TableSet(P)]
          /\ \A x \in P : \A j \in Index :
                t2[x][j] = IF x = KPD /\ j = 1 THEN [page |-> z, user |-> FALSE] ELSE t1[x][j]
          /\ \A x \in P : x # KPD => t2[x] = t1[x]
      BY <3>2, <3>5, <3>8, <1>2, <1>3 DEF TableSet
    <3>10. World(P, g.bitmap, t2, sp, nd, K, G)
      <4>1. \A x \in P : \A j \in Index :
                \/ t2[x][j] = t1[x][j] \/ x \in K
                \/ j = 1 /\ \E s \in Procs : x = sp[s]
        BY <3>9, <1>2 DEF KernelPages
      <4>2. QED
        BY <3>6, <3>9, <4>1, WorldKernel
    <3>11. PICK K1 : K1 = K \cup {z}
      OBVIOUS
    <3>12. World(P, g.bitmap, t2, sp, nd, K1, {y})
      <4>1. z \in G /\ G \ {z} = {y}
        BY <3>1, <3>3
      <4>2. World(P, g.bitmap, t2, sp, nd, K \cup {z}, G \ {z})
        BY <3>10, <4>1, WorldAdopt
      <4>3. QED
        BY <4>1, <4>2, <3>11
    <3>13. f.table = t2 /\ f.bitmap = g.bitmap /\ f.data = m.data /\ f.at = z /\ IsMemory(P, f)
      <4>1. [g.table EXCEPT ![g.at] = Zeroed, ![KPD][1] = [page |-> g.at, user |-> FALSE]] = t2
        BY <3>1, <3>2, <3>4, <3>8
      <4>2. f = [g EXCEPT !.table = t2]
        BY <4>1, <2>4, <2>6
      <4>3. QED
        BY <4>2, <3>1, <3>2, <3>9 DEF IsMemory
    <3>14. t2[KPD][1] = [page |-> z, user |-> FALSE] /\ To(t2[KPD][1], z)
      <4>1. t2[KPD][1] = [page |-> z, user |-> FALSE]
        BY <3>9, <1>2, <1>3
      <4>2. [page |-> z, user |-> FALSE] # None
        BY <3>2, <1>2, NoneIsNone
      <4>3. QED
        BY <4>1, <4>2 DEF To, Present
    <3>15. t2[KPD][0] = t1[KPD][0]
      BY <3>9, <1>2, <1>3
    <3>16. KPML4 # KPD /\ KPDPT # KPD /\ KPT # KPD
      BY DEF KPML4, KPDPT, KPD, KPT
    <3>17. \A t \in Procs : sp[t] # None => sp[t] \in P /\ sp[t] # KPD
      <4>1. ASSUME NEW t \in Procs, sp[t] # None
            PROVE  sp[t] \in P /\ sp[t] \notin K
        <5>1. sp[t] = nd[t][1] /\ 1 \in Places /\ sp[t] \in P
          BY <4>1 DEF Mem, World, Tree, Places, Inner
        <5>2. QED
          BY <5>1 DEF Mem, World, Once
      <4>2. QED
        BY <4>1, <1>2 DEF KernelPages
    <3>18. Kern(t2, sp, K1, hp)
      <4>1. \A k \in DOMAIN hp : ~ hp[k].mapped
        BY <1>4, <1>6 DEF Kern
      <4>2. z \in K1 \ KernelPages
        BY <3>3, <3>11, <1>2
      <4>3. To(t2[KPML4][1], KPDPT) /\ To(t2[KPDPT][1], KPD) /\ To(t2[KPD][0], KPT) /\ To(t2[KPT][0], KUSER)
        BY <3>7, <3>9, <3>15, <3>16, <1>2 DEF Kern
      <4>4. \A t \in Procs : sp[t] # None => To(t2[sp[t]][1], KPDPT)
        BY <3>7, <3>9, <3>17 DEF Kern
      <4>5. QED
        BY <4>1, <4>2, <4>3, <4>4, <3>14 DEF Kern
    <3>19. \A t \in Procs : sp[t] # None /\ Bits(m.table, sp[t]) => Bits(t2, sp[t])
      BY <3>7, <3>9, <3>15, <3>16, <3>17, <1>2 DEF Bits
    <3>20. K1 = K \cup Entries(f.table, KPD, {1})
      <4>1. Entries(t2, KPD, {1}) = {z}
        BY <3>14 DEF Entries, To
      <4>2. QED
        BY <4>1, <3>11, <3>13
    <3>21. HeapTableAt(P, m, f, sp, nd, K, K1, hp, y)
      BY <2>0, <3>12, <3>13, <3>14, <3>18, <3>19, <3>20 DEF HeapTableAt, Mem
    <3>22. QED
      BY <1>1, <3>21
  <2>7. QED
    BY <2>5, <2>6
<1>7. QED
  BY <1>5, <1>6

\* From m to r the heap has taken page y, and perhaps a PT.
HeapMapped(P, m, r, sp, nd, K, K2, hp, y) ==
    /\ Mem(P, r, sp, nd, K2, {}) /\ r.data = m.data
    /\ Kern(r.table, sp, K2, Append(hp, [page |-> y, mapped |-> r.at # None]))
    /\ K2 = K \cup {y} \cup Entries(r.table, KPD, {1})
    /\ Entries(m.table, KPD, {1}) \subseteq Entries(r.table, KPD, {1})
    /\ \A t \in Procs : sp[t] # None /\ Bits(m.table, sp[t]) => Bits(r.table, sp[t])

LEMMA MapHeap ==
    ASSUME NEW P, P = Pages, NEW m, NEW sp, NEW nd, NEW K, NEW y, Mem(P, m, sp, nd, K, {y}),
           NEW hp \in Seq([page : P, mapped : BOOLEAN]), Len(hp) \in Index, Kern(m.table, sp, K, hp),
           NEW c \in P, To(m.table[c][1], KPDPT),
           NEW r, r = map_with(m, c, HeapPage(Len(hp)), y, FALSE, FALSE)
    PROVE  \E K2 : HeapMapped(P, m, r, sp, nd, K, K2, hp, y)
<1>1. /\ P \subseteq 0 .. MAX_PAGES - 1 /\ None \notin P /\ KPD \in P /\ KPDPT \in P /\ KPT \in P /\ KPML4 \in P
      /\ KernelPages \subseteq K /\ K \subseteq P
      /\ IsMemory(P, m) /\ m.table \in [P -> TableSet(P)] /\ y \in P
  <2>1. P \subseteq 0 .. MAX_PAGES - 1 /\ KernelPages \subseteq K /\ K \subseteq P /\ y \in P
    BY DEF Mem, World, Once, Sizes
  <2>2. QED
    BY <2>1, NoneIsNone DEF Mem, IsMemory, KernelPages
<1>2. 1 \in Index /\ 0 \in Index
  BY DEF Index
<1>3. PICK m0 : m0 = [m EXCEPT !.at = c]
  OBVIOUS
<1>4. IsMemory(P, m0) /\ m0.at = c /\ m0.table = m.table /\ m0.bitmap = m.bitmap /\ m0.data = m.data
  BY <1>1, <1>3 DEF IsMemory
<1>5. PICK f1 : f1 = get_or_create_table(m0, 1, FALSE)
  OBVIOUS
<1>6. f1.table = m.table /\ f1.bitmap = m.bitmap /\ f1.data = m.data /\ f1.at = KPDPT /\ IsMemory(P, f1)
  <2>1. WentTo(P, m0, f1, KPDPT)
    BY <1>1, <1>2, <1>4, <1>5, FollowSame
  <2>2. QED
    BY <2>1, <1>4 DEF WentTo
<1>7. PICK f2 : f2 = get_or_create_table(f1, 1, FALSE)
  OBVIOUS
<1>8. f2.table = m.table /\ f2.bitmap = m.bitmap /\ f2.data = m.data /\ f2.at = KPD /\ IsMemory(P, f2)
  <2>1. To(f1.table[KPDPT][1], KPD)
    BY <1>6 DEF Kern
  <2>2. WentTo(P, f1, f2, KPD)
    BY <1>1, <1>2, <1>6, <1>7, <2>1, FollowSame
  <2>3. QED
    BY <2>2, <1>6 DEF WentTo
<1>9. PICK f3 : f3 = get_or_create_table(f2, 1, FALSE)
  OBVIOUS
<1>10. PICK K1 : HeapTableAt(P, f2, f3, sp, nd, K, K1, hp, y)
  <2>1. Mem(P, f2, sp, nd, K, {y}) /\ Kern(f2.table, sp, K, hp)
    BY <1>8 DEF Mem
  <2>2. QED
    BY <1>8, <1>9, <2>1, GetHeapTable
<1>11. /\ Mem(P, f3, sp, nd, K1, {y}) /\ f3.data = m.data /\ Kern(f3.table, sp, K1, hp)
       /\ f3.at # None => To(f3.table[KPD][1], f3.at)
       /\ K1 = K \cup Entries(f3.table, KPD, {1})
       /\ Entries(m.table, KPD, {1}) \subseteq Entries(f3.table, KPD, {1})
       /\ \A t \in Procs : sp[t] # None /\ Bits(m.table, sp[t]) => Bits(f3.table, sp[t])
  BY <1>8, <1>10 DEF HeapTableAt
<1>12. PICK k, K2 : k = Len(hp) /\ K2 = K1 \cup {y}
  OBVIOUS
<1>13. r = IF f3.at = None THEN f3 ELSE [f3 EXCEPT !.table[f3.at][k] = [page |-> y, user |-> FALSE]]
  <2>1. PICK va : va = HeapPage(Len(hp))
    OBVIOUS
  <2>2. va[1] = 1 /\ va[2] = 1 /\ va[3] = 1 /\ va[4] = k
    BY <1>12, <2>1 DEF HeapPage
  <2>3. QED
    BY <1>3, <1>5, <1>7, <1>9, <2>1, <2>2 DEF map_with
<1>14. PICK hp2 : hp2 = Append(hp, [page |-> y, mapped |-> r.at # None])
  OBVIOUS
<1>15. DOMAIN hp2 = 1 .. k + 1 /\ k \in Nat /\ hp2[k + 1] = [page |-> y, mapped |-> (r.at # None)]
       /\ \A j \in 1 .. k : j \in DOMAIN hp /\ hp2[j] = hp[j]
  BY <1>12, <1>14 DEF Index
<1>16. CASE f3.at = None
  <2>1. r = f3
    BY <1>13, <1>16
  <2>2. World(P, r.bitmap, r.table, sp, nd, K2, {})
    <3>1. World(P, r.bitmap, r.table, sp, nd, K1, {y}) /\ y \in {y} /\ {y} \ {y} = {}
      BY <1>11, <2>1 DEF Mem
    <3>2. World(P, r.bitmap, r.table, sp, nd, K1 \cup {y}, {y} \ {y})
      BY <3>1, WorldAdopt
    <3>3. QED
      BY <3>1, <3>2, <1>12
  <2>3. Kern(r.table, sp, K2, hp2)
    <3>1. \A j \in DOMAIN hp2 : hp2[j].mapped => j \in DOMAIN hp /\ hp2[j] = hp[j]
      <4>1. SUFFICES ASSUME NEW j \in DOMAIN hp2, hp2[j].mapped
                     PROVE  j \in 1 .. k
        BY <1>15
      <4>2. j = k + 1 \/ j \in 1 .. k
        BY <1>15
      <4>3. ~ hp2[k + 1].mapped
        <5>1. (r.at # None) = FALSE
          BY <1>16, <2>1
        <5>2. hp2[k + 1] = [page |-> y, mapped |-> FALSE]
          BY <1>15, <5>1
        <5>3. QED
          BY <5>2
      <4>4. QED
        BY <4>1, <4>2, <4>3
    <3>2. QED
      BY <3>1, <1>11, <1>12, <2>1 DEF Kern
  <2>4. HeapMapped(P, m, r, sp, nd, K, K2, hp, y)
    BY <2>1, <2>2, <2>3, <1>11, <1>12, <1>14 DEF HeapMapped, Mem
  <2>5. QED
    BY <2>4
<1>17. CASE f3.at # None
  <2>1. PICK h : h = f3.at
    OBVIOUS
  <2>2. /\ To(f3.table[KPD][1], h) /\ h \in K1 \ KernelPages /\ h \in P /\ k \in Index
        /\ f3.table \in [P -> TableSet(P)] /\ IsMemory(P, f3)
        /\ World(P, f3.bitmap, f3.table, sp, nd, K1, {y})
    <3>1. To(f3.table[KPD][1], h) /\ h \in K1 \ KernelPages
      BY <1>11, <1>17, <2>1 DEF Kern, To
    <3>2. K1 \subseteq P
      BY <1>11 DEF Mem, World, Once
    <3>3. QED
      BY <3>1, <3>2, <1>11, <1>12 DEF Mem, IsMemory
  <2>3. PICK t2 : t2 = [f3.table EXCEPT ![h][k] = [page |-> y, user |-> FALSE]]
    OBVIOUS
  <2>4. /\ t2 \in [P -> TableSet(P)] /\ t2[h][k] = [page |-> y, user |-> FALSE]
        /\ \A x \in P : \A j \in Index : ~(x = h /\ j = k) => t2[x][j] = f3.table[x][j]
        /\ \A x \in P : x # h => t2[x] = f3.table[x]
    BY <2>2, <2>3, <1>1 DEF TableSet
  <2>5. World(P, f3.bitmap, t2, sp, nd, K1, {y})
    <3>1. \A x \in P : \A j \in Index :
              \/ t2[x][j] = f3.table[x][j] \/ x \in K1
              \/ j = 1 /\ \E s \in Procs : x = sp[s]
      BY <2>2, <2>4
    <3>2. QED
      BY <2>2, <2>4, <3>1, WorldKernel
  <2>6. World(P, f3.bitmap, t2, sp, nd, K2, {})
    <3>1. y \in {y} /\ {y} \ {y} = {}
      OBVIOUS
    <3>2. World(P, f3.bitmap, t2, sp, nd, K1 \cup {y}, {y} \ {y})
      BY <2>5, <3>1, WorldAdopt
    <3>3. QED
      BY <3>1, <3>2, <1>12
  <2>7. r.table = t2 /\ r.bitmap = f3.bitmap /\ r.data = m.data /\ r.at = h /\ IsMemory(P, r)
    <3>1. r = [f3 EXCEPT !.table = t2]
      BY <1>13, <1>17, <2>1, <2>3
    <3>2. QED
      BY <3>1, <2>1, <2>2, <2>4, <1>11 DEF IsMemory
  <2>8. h # KPML4 /\ h # KPDPT /\ h # KPD /\ h # KPT
    BY <2>2 DEF KernelPages
  <2>9. t2[KPML4] = f3.table[KPML4] /\ t2[KPDPT] = f3.table[KPDPT] /\ t2[KPD] = f3.table[KPD] /\ t2[KPT] = f3.table[KPT]
    BY <2>4, <2>8, <1>1
  <2>10. \A t \in Procs : sp[t] # None => t2[sp[t]] = f3.table[sp[t]]
    <3>1. ASSUME NEW t \in Procs, sp[t] # None
          PROVE  sp[t] \in P /\ sp[t] # h
      <4>1. sp[t] = nd[t][1] /\ 1 \in Places /\ sp[t] \in P
        BY <3>1 DEF Mem, World, Tree, Places, Inner
      <4>2. QED
        BY <4>1, <2>2 DEF World, Once
    <3>2. QED
      BY <3>1, <2>4
  <2>11. \A j \in DOMAIN hp2 : hp2[j].mapped => Present(t2[KPD][1]) /\ To(t2[t2[KPD][1].page][j - 1], hp2[j].page)
    <3>1. SUFFICES ASSUME NEW j \in DOMAIN hp2, hp2[j].mapped
                   PROVE  To(t2[h][j - 1], hp2[j].page)
      BY <2>2, <2>9 DEF To
    <3>2. CASE j = k + 1
      <4>1. [page |-> y, user |-> FALSE] # None
        BY <1>1, NoneIsNone
      <4>2. hp2[j].page = y /\ j - 1 = k
        BY <3>2, <1>15
      <4>3. QED
        BY <4>1, <4>2, <2>4 DEF To, Present
    <3>3. CASE j \in 1 .. k
      <4>1. hp2[j] = hp[j] /\ j \in DOMAIN hp /\ hp[j].mapped
        BY <3>1, <3>3, <1>15
      <4>2. To(f3.table[h][j - 1], hp[j].page)
        BY <4>1, <1>11, <2>2 DEF Kern, To
      <4>3. j - 1 \in Index /\ j - 1 # k
        BY <3>3, <2>2 DEF Index
      <4>4. t2[h][j - 1] = f3.table[h][j - 1]
        BY <4>3, <2>2, <2>4
      <4>5. QED
        BY <4>1, <4>2, <4>4
    <3>4. QED
      BY <3>2, <3>3, <1>15
  <2>12. Kern(t2, sp, K2, hp2)
    BY <2>9, <2>10, <2>11, <1>11, <1>12 DEF Kern
  <2>13. \A t \in Procs : sp[t] # None /\ Bits(m.table, sp[t]) => Bits(t2, sp[t])
    BY <2>9, <2>10, <1>11 DEF Bits
  <2>14. /\ K2 = K \cup {y} \cup Entries(t2, KPD, {1})
         /\ Entries(m.table, KPD, {1}) \subseteq Entries(t2, KPD, {1})
    <3>1. Entries(t2, KPD, {1}) = Entries(f3.table, KPD, {1})
      BY <2>9 DEF Entries
    <3>2. QED
      BY <3>1, <1>11, <1>12
  <2>15. HeapMapped(P, m, r, sp, nd, K, K2, hp, y)
    BY <2>6, <2>7, <2>12, <2>13, <2>14, <1>14 DEF HeapMapped, Mem
  <2>16. QED
    BY <2>15
<1>18. QED
  BY <1>16, <1>17

-----------------------------------------------------------------------------
(* Whole spaces *)

\* The pages at some places of a tree.
At(nd, s, N) == {nd[s][n] : n \in N} \ {None}
Below(N)     == N \subseteq Inner \ {1}
Double(N)    == {2 * n + i : n \in N, i \in Index}

LEMMA ChildrenOf ==
    ASSUME NEW P, NEW tab, NEW sp, NEW nd, Tree(P, tab, sp, nd), Numbers(P),
           NEW s \in Procs, NEW N, Below(N)
    PROVE  Children(tab, At(nd, s, N)) = At(nd, s, Double(N))
<1>1. ASSUME NEW n \in N, NEW i \in Index
      PROVE  /\ nd[s][n] = None => nd[s][2 * n + i] = None
             /\ nd[s][n] # None => tab[nd[s][n]][i] = Leading(nd[s][2 * n + i])
             /\ Present(Leading(nd[s][2 * n + i])) <=> nd[s][2 * n + i] # None
             /\ nd[s][2 * n + i] # None => Leading(nd[s][2 * n + i]).page = nd[s][2 * n + i]
  <2>1. Slot(n, i)
    BY DEF Slot, Below
  <2>2. nd[s][2 * n + i] \in P \cup {None}
    BY <2>1, SlotPlaces DEF Tree
  <2>3. /\ nd[s][n] = None => nd[s][2 * n + i] = None
        /\ nd[s][n] # None => tab[nd[s][n]][i] = Leading(nd[s][2 * n + i])
    BY <2>1 DEF Tree
  <2>4. PICK q : q = nd[s][2 * n + i]
    OBVIOUS
  <2>5. (Present(Leading(q)) <=> q # None) /\ (q # None => Leading(q).page = q)
    <3>1. CASE q = None
      BY <3>1 DEF Leading, Present
    <3>2. CASE q # None
      <4>1. Leading(q) = [page |-> q, user |-> TRUE] /\ q \in P
        BY <3>2, <2>2, <2>4 DEF Leading
      <4>2. Leading(q) # None
        BY <4>1, NoneIsNone DEF Numbers
      <4>3. QED
        BY <3>2, <4>1, <4>2 DEF Present
    <3>3. QED
      BY <3>1, <3>2
  <2>6. QED
    BY <2>3, <2>4, <2>5
<1>2. ASSUME NEW x \in Children(tab, At(nd, s, N))
      PROVE  x \in At(nd, s, Double(N))
  <2>1. PICK n \in N : nd[s][n] # None /\ x \in Entries(tab, nd[s][n], Index)
    BY DEF Children, At
  <2>2. PICK i \in Index : Present(tab[nd[s][n]][i]) /\ x = tab[nd[s][n]][i].page
    BY <2>1 DEF Entries
  <2>3. x = nd[s][2 * n + i] /\ x # None
    BY <2>1, <2>2, <1>1
  <2>4. QED
    BY <2>3 DEF At, Double
<1>3. ASSUME NEW x \in At(nd, s, Double(N))
      PROVE  x \in Children(tab, At(nd, s, N))
  <2>1. PICK n \in N, i \in Index : x = nd[s][2 * n + i] /\ x # None
    BY DEF At, Double
  <2>2. nd[s][n] # None /\ Present(tab[nd[s][n]][i]) /\ x = tab[nd[s][n]][i].page
    BY <2>1, <1>1
  <2>3. x \in Entries(tab, nd[s][n], Index) /\ nd[s][n] \in At(nd, s, N)
    BY <2>2 DEF Entries, At
  <2>4. QED
    BY <2>3 DEF Children
<1>4. QED
  BY <1>2, <1>3

\* The loops of destroy_address_space() and of for_each_user_page() find the whole tree.
LEMMA SpacePages ==
    ASSUME NEW P, NEW tab, NEW sp, NEW nd, Tree(P, tab, sp, nd), Numbers(P),
           NEW s \in Procs, sp[s] # None
    PROVE  /\ PDPTs(tab, sp[s]) = At(nd, s, {2}) /\ PDs(tab, sp[s]) = At(nd, s, {4, 5})
           /\ PTs(tab, sp[s]) = At(nd, s, 8 .. 11) /\ Children(tab, PTs(tab, sp[s])) = At(nd, s, Leaves)
           /\ freed_user_pages(tab, sp[s]) = At(nd, s, Leaves)
           /\ At(nd, s, Places) = {sp[s]} \cup At(nd, s, {2}) \cup At(nd, s, {4, 5})
                                  \cup At(nd, s, 8 .. 11) \cup At(nd, s, Leaves)
<1>1. nd[s][1] = sp[s]
  BY DEF Tree
<1>2. PDPTs(tab, sp[s]) = At(nd, s, {2})
  <2>1. Slot(1, 0) /\ 2 * 1 + 0 = 2 /\ 2 \in Places
    BY DEF Slot, Inner, Index, Places
  <2>2. tab[sp[s]][0] = Leading(nd[s][2 * 1 + 0])
    BY <1>1, <2>1 DEF Tree
  <2>3. PICK q : q = nd[s][2]
    OBVIOUS
  <2>4. tab[sp[s]][0] = Leading(q) /\ q \in P \cup {None}
    BY <2>1, <2>2, <2>3 DEF Tree
  <2>5. CASE q = None
    <3>1. PDPTs(tab, sp[s]) = {}
      BY <2>4, <2>5 DEF PDPTs, Entries, Leading, Present
    <3>2. At(nd, s, {2}) = {}
      BY <2>3, <2>5 DEF At
    <3>3. QED
      BY <3>1, <3>2
  <2>6. CASE q # None
    <3>1. Leading(q) = [page |-> q, user |-> TRUE] /\ q \in P
      BY <2>4, <2>6 DEF Leading
    <3>2. Leading(q) # None
      BY <3>1, NoneIsNone DEF Numbers
    <3>3. PDPTs(tab, sp[s]) = {q}
      BY <3>1, <3>2, <2>4 DEF PDPTs, Entries, Present
    <3>4. At(nd, s, {2}) = {q}
      BY <2>3, <2>6 DEF At
    <3>5. QED
      BY <3>3, <3>4
  <2>7. QED
    BY <2>5, <2>6
<1>3. Double({2}) = {4, 5}
  BY DEF Double, Index
<1>4. Double({4, 5}) = 8 .. 11
  <2>1. Double({4, 5}) = {8, 9, 10, 11}
    BY DEF Double, Index
  <2>2. QED
    BY <2>1
<1>5. Double(8 .. 11) = Leaves
  <2>1. \A x \in Double(8 .. 11) : x \in Leaves
    BY DEF Double, Index, Leaves
  <2>2. ASSUME NEW x \in Leaves
        PROVE  x \in Double(8 .. 11)
    <3>1. \/ x = 2 * 8 + 0 \/ x = 2 * 8 + 1 \/ x = 2 * 9 + 0 \/ x = 2 * 9 + 1
          \/ x = 2 * 10 + 0 \/ x = 2 * 10 + 1 \/ x = 2 * 11 + 0 \/ x = 2 * 11 + 1
      BY DEF Leaves
    <3>2. 8 \in 8 .. 11 /\ 9 \in 8 .. 11 /\ 10 \in 8 .. 11 /\ 11 \in 8 .. 11 /\ 0 \in Index /\ 1 \in Index
      BY DEF Index
    <3>3. \E n \in 8 .. 11 : \E i \in Index : x = 2 * n + i
      BY <3>1, <3>2, Zenon
    <3>4. QED
      BY <3>3 DEF Double
  <2>3. QED
    BY <2>1, <2>2
<1>6. {2} \subseteq Inner \ {1} /\ {4, 5} \subseteq Inner \ {1} /\ 8 .. 11 \subseteq Inner \ {1}
  BY DEF Inner
<1>7. PDs(tab, sp[s]) = At(nd, s, {4, 5})
  <2>1. Children(tab, At(nd, s, {2})) = At(nd, s, Double({2}))
    <3>1. PICK N : N = {2}
      OBVIOUS
    <3>2. Below(N)
      BY <3>1, <1>6 DEF Below
    <3>3. Children(tab, At(nd, s, N)) = At(nd, s, Double(N))
      BY <3>2, ChildrenOf
    <3>4. QED
      BY <3>1, <3>3
  <2>2. QED
    BY <2>1, <1>2, <1>3 DEF PDs
<1>8. PTs(tab, sp[s]) = At(nd, s, 8 .. 11)
  <2>1. Children(tab, At(nd, s, {4, 5})) = At(nd, s, Double({4, 5}))
    <3>1. PICK N : N = {4, 5}
      OBVIOUS
    <3>2. Below(N)
      BY <3>1, <1>6 DEF Below
    <3>3. Children(tab, At(nd, s, N)) = At(nd, s, Double(N))
      BY <3>2, ChildrenOf
    <3>4. QED
      BY <3>1, <3>3
  <2>2. QED
    BY <2>1, <1>4, <1>7 DEF PTs
<1>9. Children(tab, PTs(tab, sp[s])) = At(nd, s, Leaves)
  <2>1. Children(tab, At(nd, s, 8 .. 11)) = At(nd, s, Double(8 .. 11))
    <3>1. PICK N : N = 8 .. 11
      OBVIOUS
    <3>2. Below(N)
      BY <3>1, <1>6 DEF Below
    <3>3. Children(tab, At(nd, s, N)) = At(nd, s, Double(N))
      BY <3>2, ChildrenOf
    <3>4. QED
      BY <3>1, <3>3
  <2>2. QED
    BY <2>1, <1>5, <1>8
<1>10. freed_user_pages(tab, sp[s]) = At(nd, s, Leaves)
  <2>1. \A va \in UserPages : /\ virtual_to_physical(tab, sp[s], va) = nd[s][Key(va)]
                              /\ visits(tab, sp[s], va) <=> nd[s][Key(va)] # None
    <3>1. TAKE va \in UserPages
    <3>2. QED
      BY WalkUser
  <2>2. ASSUME NEW x \in freed_user_pages(tab, sp[s])
        PROVE  x \in At(nd, s, Leaves)
    <3>1. PICK va \in UserPages : visits(tab, sp[s], va) /\ x = virtual_to_physical(tab, sp[s], va)
      BY DEF freed_user_pages
    <3>2. x = nd[s][Key(va)] /\ x # None /\ Key(va) \in Leaves
      BY <2>1, <3>1, UserKeys
    <3>3. QED
      BY <3>2 DEF At
  <2>3. ASSUME NEW x \in At(nd, s, Leaves)
        PROVE  x \in freed_user_pages(tab, sp[s])
    <3>1. PICK n \in Leaves : x = nd[s][n] /\ x # None
      BY DEF At
    <3>2. PICK va \in UserPages : Key(va) = n
      BY UserKeys
    <3>3. visits(tab, sp[s], va) /\ x = virtual_to_physical(tab, sp[s], va)
      BY <2>1, <3>1, <3>2
    <3>4. QED
      BY <3>3 DEF freed_user_pages
  <2>4. QED
    BY <2>2, <2>3
<1>11. At(nd, s, Places) = {sp[s]} \cup At(nd, s, {2}) \cup At(nd, s, {4, 5})
                           \cup At(nd, s, 8 .. 11) \cup At(nd, s, Leaves)
  <2>1. Places = {1} \cup {2} \cup {4, 5} \cup 8 .. 11 \cup Leaves
    BY DEF Places, Inner
  <2>2. At(nd, s, {1}) = {sp[s]}
    BY <1>1 DEF At
  <2>3. At(nd, s, Places) = At(nd, s, {1}) \cup At(nd, s, {2}) \cup At(nd, s, {4, 5})
                            \cup At(nd, s, 8 .. 11) \cup At(nd, s, Leaves)
    BY <2>1 DEF At
  <2>4. QED
    BY <2>2, <2>3
<1>12. QED
  BY <1>2, <1>7, <1>8, <1>9, <1>10, <1>11

\* destroy_address_space() gives back exactly the pages of the space.
Destroyed(P, m, r, sp, sp2, nd, nd2, s, K) ==
    /\ Mem(P, r, sp2, nd2, K, {}) /\ KernSame(K, sp2, m.table, r.table)
    /\ \A t \in Procs : \A k \in Places : nd2[t][k] = IF t = s THEN None ELSE nd[t][k]
    /\ \A t \in Procs : \A k \in Places : t # s /\ nd[t][k] # None => r.data[nd[t][k]] = m.data[nd[t][k]]

LEMMA DestroySpace ==
    ASSUME NEW P, P = Pages, NEW m, NEW sp, NEW nd, NEW K, Mem(P, m, sp, nd, K, {}),
           NEW s \in Procs, sp[s] # None, NEW sp2, sp2 = [sp EXCEPT ![s] = None]
    PROVE  \E nd2 : Destroyed(P, m, destroy_address_space(m, sp[s]), sp, sp2, nd, nd2, s, K)
<1>1. PICK r, R : r = destroy_address_space(m, sp[s]) /\ R = At(nd, s, Places)
  OBVIOUS
<1>2. Numbers(P) /\ Tree(P, m.table, sp, nd) /\ IsMemory(P, m) /\ KernelPages \subseteq P
      /\ World(P, m.bitmap, m.table, sp, nd, K, {}) /\ nd \in [Procs -> [Places -> P \cup {None}]]
  BY DEF Mem, World, Sizes, Tree, Numbers
<1>3. r = give_back(m, R)
  <2>1. /\ PDPTs(m.table, sp[s]) = At(nd, s, {2}) /\ PDs(m.table, sp[s]) = At(nd, s, {4, 5})
        /\ PTs(m.table, sp[s]) = At(nd, s, 8 .. 11)
        /\ freed_user_pages(m.table, sp[s]) = At(nd, s, Leaves)
        /\ R = {sp[s]} \cup At(nd, s, {2}) \cup At(nd, s, {4, 5}) \cup At(nd, s, 8 .. 11) \cup At(nd, s, Leaves)
    BY <1>1, <1>2, SpacePages
  <2>2. R = freed_user_pages(m.table, sp[s]) \cup PTs(m.table, sp[s])
            \cup PDs(m.table, sp[s]) \cup PDPTs(m.table, sp[s]) \cup {sp[s]}
    BY <2>1
  <2>3. QED
    BY <1>1, <2>2 DEF destroy_address_space
<1>4. GivenBack(P, m, r, R)
  BY <1>2, <1>3, GiveBack
<1>5. PICK t2 : t2 = r.table
  OBVIOUS
<1>6. /\ IsMemory(P, r) /\ r.bitmap = m.bitmap \ R /\ t2 \in [P -> TableSet(P)]
      /\ \A x \in P : x \notin R => t2[x] = m.table[x] /\ r.data[x] = m.data[x]
  BY <1>4, <1>5 DEF GivenBack, IsMemory
<1>7. PICK nd2 : nd2 = [nd EXCEPT ![s] = [n \in Places |-> None]]
  OBVIOUS
<1>8. /\ nd2 \in [Procs -> [Places -> P \cup {None}]]
      /\ \A t \in Procs : \A k \in Places : nd2[t][k] = IF t = s THEN None ELSE nd[t][k]
  BY <1>2, <1>7
<1>9. World(P, m.bitmap \ R, t2, sp2, nd2, K, {}) /\ KernSame(K, sp2, m.table, t2)
  <2>1. R = {nd[s][n] : n \in Places} \ {None}
    BY <1>1 DEF At
  <2>2. \A x \in P : x \notin R => t2[x] = m.table[x]
    BY <1>6
  <2>3. Uprooted(P, m.table, t2, sp, sp2, nd, nd2, s, R)
    BY <1>6, <1>8, <2>1, <2>2 DEF Uprooted
  <2>4. QED
    BY <1>2, <2>3, WorldDestroy
<1>10. \A t \in Procs : \A k \in Places : t # s /\ nd[t][k] # None => r.data[nd[t][k]] = m.data[nd[t][k]]
  <2>1. SUFFICES ASSUME NEW t \in Procs, NEW k \in Places, t # s, nd[t][k] # None
                 PROVE  r.data[nd[t][k]] = m.data[nd[t][k]]
    OBVIOUS
  <2>2. nd[t][k] \in P /\ nd[t][k] \notin R
    BY <2>1, <1>1, <1>2 DEF At, World, Once
  <2>3. QED
    BY <2>2, <1>6
<1>11. Destroyed(P, m, r, sp, sp2, nd, nd2, s, K)
  BY <1>5, <1>6, <1>8, <1>9, <1>10 DEF Destroyed, Mem
<1>12. QED
  BY <1>1, <1>11

\* create_address_space(): an empty tree whose PML4 has the kernel half of the current one, or
\* r.at is None and nothing has changed.
Created(P, m, r, sp, sp2, nd, nd2, s, K, hp, c) ==
    /\ Mem(P, r, sp2, nd2, K, {}) /\ Kern(r.table, sp2, K, hp)
    /\ r.table[KPD] = m.table[KPD] /\ r.data = m.data
    /\ \A t \in Procs : \A k \in Places : nd2[t][k] = IF t = s /\ k = 1 THEN r.at ELSE nd[t][k]
    /\ \A t \in Procs : sp[t] # None /\ Bits(m.table, sp[t]) => Bits(r.table, sp[t])
    /\ r.at # None /\ Bits(m.table, c) => Bits(r.table, r.at)

LEMMA CreateSpace ==
    ASSUME NEW P, P = Pages, NEW m, NEW sp, NEW nd, NEW K, Mem(P, m, sp, nd, K, {}),
           NEW hp, Kern(m.table, sp, K, hp), NEW s \in Procs, sp[s] = None,
           NEW c, c = current, c \in P, To(m.table[c][1], KPDPT),
           NEW r, r = create_address_space(m), NEW sp2, sp2 = [sp EXCEPT ![s] = r.at]
    PROVE  \E nd2 : Created(P, m, r, sp, sp2, nd, nd2, s, K, hp, c)
<1>1. PICK n : n = new_page(m)
  OBVIOUS
<1>2. Taken(P, m, n, sp, nd, K, {})
  BY <1>1, NewPage
<1>3. /\ sp \in [Procs -> P \cup {None}] /\ nd \in [Procs -> [Places -> P \cup {None}]]
      /\ nd[s][1] = None /\ 1 \in Places
  BY DEF Mem, World, Tree, Places, Inner
<1>4. CASE n.at = None
  <2>1. r = n /\ r.at = None
    BY <1>1, <1>4 DEF create_address_space
  <2>2. r.table = m.table /\ r.data = m.data /\ Mem(P, r, sp, nd, K, {})
    BY <1>2, <1>4, <2>1 DEF Taken
  <2>3. sp2 = sp
    BY <1>3, <2>1
  <2>4. Created(P, m, r, sp, sp2, nd, nd, s, K, hp, c)
    BY <1>3, <2>1, <2>2, <2>3 DEF Created
  <2>5. QED
    BY <2>4
<1>5. CASE n.at # None
  <2>1. PICK y : y = n.at
    OBVIOUS
  <2>2. PICK G : G = {y}
    OBVIOUS
  <2>3. /\ y \in P /\ y # None /\ Mem(P, n, sp, nd, K, G) /\ n.table = m.table /\ n.data = m.data
    BY <1>2, <1>5, <2>1, <2>2 DEF Taken
  <2>4. PICK e : e = m.table[c][1]
    OBVIOUS
  <2>5. PICK t2 : t2 = [n.table EXCEPT ![y] = [Zeroed EXCEPT ![1] = e]]
    OBVIOUS
  <2>6. r = [n EXCEPT !.table = t2]
    <3>1. create_address_space(m) = [n EXCEPT !.table[n.at] = [Zeroed EXCEPT ![1] = m.table[current][1]]]
      BY <1>1, <1>5 DEF create_address_space
    <3>2. QED
      BY <3>1, <2>1, <2>4, <2>5
  <2>7. /\ t2 \in [P -> TableSet(P)] /\ t2[y][0] = None /\ t2[y][1] = e
        /\ \A x \in P : x # y => t2[x] = m.table[x]
    <3>1. PICK z : z = [Zeroed EXCEPT ![1] = e]
      OBVIOUS
    <3>2. e \in [page : P, user : BOOLEAN] \cup {None}
      BY <2>4 DEF Mem, IsMemory, TableSet, Index
    <3>3. z \in TableSet(P) /\ z[0] = None /\ z[1] = e
      BY <3>1, <3>2 DEF Zeroed, TableSet, Index
    <3>4. m.table \in [P -> TableSet(P)] /\ t2 = [m.table EXCEPT ![y] = z]
      BY <2>3, <2>5, <3>1 DEF Mem, IsMemory
    <3>5. QED
      BY <2>3, <3>3, <3>4
  <2>8. /\ IsMemory(P, r) /\ r.table = t2 /\ r.data = m.data /\ r.bitmap = n.bitmap /\ r.at = y
    BY <2>1, <2>3, <2>6, <2>7 DEF Mem, IsMemory
  <2>9. World(P, n.bitmap, t2, sp, nd, K, G) /\ KernSame(K, sp, m.table, t2)
    <3>1. World(P, n.bitmap, m.table, sp, nd, K, G) /\ y \in G
      BY <2>2, <2>3 DEF Mem
    <3>2. QED
      BY <2>7, <3>1, WorldScratch
  <2>10. PICK nd2 : nd2 = [nd EXCEPT ![s] = [nd[s] EXCEPT ![1] = y]]
    OBVIOUS
  <2>11. /\ nd2 \in [Procs -> [Places -> P \cup {None}]]
         /\ \A t \in Procs : \A k \in Places : nd2[t][k] = IF t = s /\ k = 1 THEN y ELSE nd[t][k]
    BY <1>3, <2>3, <2>10
  <2>12. World(P, n.bitmap, t2, sp2, nd2, K, G \ {y})
    <3>1. sp2 = [sp EXCEPT ![s] = y] /\ y \in G
      BY <2>2, <2>8
    <3>2. Rooted(P, t2, sp, sp2, nd, nd2, s, y)
      BY <2>7, <2>11, <3>1 DEF Rooted
    <3>3. QED
      BY <2>9, <3>1, <3>2, WorldRoot
  <2>13. Mem(P, r, sp2, nd2, K, {})
    <3>1. G \ {y} = {}
      BY <2>2
    <3>2. QED
      BY <2>8, <2>12, <3>1 DEF Mem
  <2>14. KernelPages \subseteq K /\ y \notin K
    BY <2>2, <2>3 DEF Mem, World, Once
  <2>15. /\ Kern(t2, sp, K, hp) /\ t2[KPD] = m.table[KPD]
         /\ \A t \in Procs : sp[t] # None /\ Bits(m.table, sp[t]) => Bits(t2, sp[t])
    BY <2>9, <2>14, KernKept
  <2>16. Kern(t2, sp2, K, hp)
    <3>1. \A t \in Procs : sp2[t] = IF t = s THEN y ELSE sp[t]
      BY <1>3, <2>8
    <3>2. \A t \in Procs : sp2[t] # None => To(t2[sp2[t]][1], KPDPT)
      BY <2>4, <2>7, <2>15, <3>1 DEF Kern
    <3>3. QED
      BY <2>15, <3>2 DEF Kern
  <2>17. Bits(m.table, c) => Bits(t2, y)
    <3>1. t2[KPDPT] = m.table[KPDPT] /\ t2[KPD] = m.table[KPD] /\ t2[KPT] = m.table[KPT]
      BY <2>9, <2>14 DEF KernSame, KernelPages
    <3>2. QED
      BY <2>4, <2>7, <3>1 DEF Bits
  <2>18. Created(P, m, r, sp, sp2, nd, nd2, s, K, hp, c)
    BY <2>8, <2>11, <2>13, <2>15, <2>16, <2>17 DEF Created
  <2>19. QED
    BY <2>18
<1>6. QED
  BY <1>4, <1>5

\* map_user_space(): the .user section has its User bits, and there is a page for the stack, or
\* r.at is None and perhaps tables were added.
Entered(P, m, r, sp, nd, nd2, s, K, hp) ==
    /\ Mem(P, r, sp, nd2, K, {}) /\ Kern(r.table, sp, K, hp) /\ r.table[KPD][1] = m.table[KPD][1]
    /\ Bits(r.table, sp[s]) /\ \A t \in Procs : sp[t] # None /\ Bits(m.table, sp[t]) => Bits(r.table, sp[t])
    /\ \A t \in Procs : \A k \in Places :
        t # s \/ (k \in Leaves /\ k # Key(kUserStack)) => nd2[t][k] = nd[t][k]
    /\ \A t \in Procs : \A k \in Places : nd[t][k] # None => r.data[nd[t][k]] = m.data[nd[t][k]]
    /\ nd2[s][Key(kUserStack)] = None <=> r.at = None

LEMMA MapUserSpace ==
    ASSUME NEW P, P = Pages, NEW m, NEW sp, NEW nd, NEW K, Mem(P, m, sp, nd, K, {}),
           NEW hp, Kern(m.table, sp, K, hp), NEW s \in Procs, sp[s] # None, sp[s] = current,
           nd[s][Key(kUserStack)] = None,
           NEW r, r = map_user_space(m, sp[s])
    PROVE  \E nd2 : Entered(P, m, r, sp, nd, nd2, s, K, hp)
<1>1. virtual_to_physical(m.table, current, UserCode) = KUSER
  <2>1. To(m.table[sp[s]][1], KPDPT)
    BY DEF Kern
  <2>2. QED
    BY <2>1, WalkKernel
<1>2. PICK code : code = map_page_in(m, sp[s], UserCode, KUSER, TRUE)
  OBVIOUS
<1>3. CodeMapped(P, m, code, sp, nd, s, K, {}, hp)
  BY <1>2, MapCode
<1>4. PICK stack : stack = new_page(code)
  OBVIOUS
<1>5. PICK q : q = map_page_in(stack, sp[s], kUserStack, stack.at, TRUE)
  OBVIOUS
<1>6. r = IF stack.at = None THEN stack ELSE IF q.at = None THEN give_back(q, {stack.at}) ELSE q
  <2>1. code.at # None
    BY <1>3 DEF CodeMapped
  <2>2. QED
    BY <1>1, <1>2, <1>4, <1>5, <2>1 DEF map_user_space
<1>7. PICK d : d = code.data
  OBVIOUS
<1>8. /\ Mem(P, code, sp, nd, K, {}) /\ d = m.data /\ d \in [P -> Values] /\ kUserStack \in UserPages
      /\ Taken(P, code, stack, sp, nd, K, {})
  <2>1. Mem(P, code, sp, nd, K, {}) /\ d = m.data
    BY <1>3, <1>7 DEF CodeMapped
  <2>2. QED
    BY <1>4, <1>7, <2>1, UserKeys, NewPage DEF Mem, IsMemory
<1>9. stack = [stack EXCEPT !.data = d]
  BY <1>7, <1>8 DEF Taken, IsMemory
<1>10. PICK nd2 : Placed(P, code, r, sp, nd, nd2, s, kUserStack, stack.at, d[stack.at], K, {})
  <2>1. \A x \in P : x # stack.at => d[x] = code.data[x]
    BY <1>7
  <2>2. Placing(P, code, r, sp, nd, s, kUserStack, stack, d)
    BY <1>4, <1>5, <1>6, <1>8, <1>9, <2>1 DEF Placing
  <2>3. QED
    BY <1>8, <2>2, PlacePage
<1>11. /\ Kern(r.table, sp, K, hp) /\ r.table[KPD] = code.table[KPD]
       /\ \A t \in Procs : sp[t] # None /\ Bits(code.table, sp[t]) => Bits(r.table, sp[t])
  <2>1. KernelPages \subseteq K
    BY <1>8 DEF Mem, World, Once
  <2>2. Kern(code.table, sp, K, hp) /\ KernSame(K, sp, code.table, r.table)
    BY <1>3, <1>10 DEF CodeMapped, Placed
  <2>3. QED
    BY <2>1, <2>2, KernKept
<1>12. Entered(P, m, r, sp, nd, nd2, s, K, hp)
  <2>1. /\ Mem(P, r, sp, nd2, K, {})
        /\ \A t \in Procs : \A k \in Places :
               t # s \/ (k \in Leaves /\ k # Key(kUserStack)) => nd2[t][k] = nd[t][k]
        /\ \A t \in Procs : \A k \in Places : nd[t][k] # None => r.data[nd[t][k]] = m.data[nd[t][k]]
        /\ nd2[s][Key(kUserStack)] = None <=> r.at = None
    BY <1>7, <1>8, <1>10 DEF Placed
  <2>2. /\ r.table[KPD][1] = m.table[KPD][1] /\ Bits(r.table, sp[s])
        /\ \A t \in Procs : sp[t] # None /\ Bits(m.table, sp[t]) => Bits(r.table, sp[t])
    BY <1>3, <1>11 DEF CodeMapped
  <2>3. QED
    BY <1>11, <2>1, <2>2 DEF Entered
<1>13. QED
  BY <1>12

-----------------------------------------------------------------------------
(* copy_user_pages() *)

\* copy_page(): a page with the contents of another.
LEMMA CopyPage ==
    ASSUME NEW P, P = Pages, NEW m, NEW sp, NEW nd, NEW K, NEW H, Mem(P, m, sp, nd, K, H),
           NEW s \in Procs, sp[s] # None, NEW va \in UserPages, nd[s][Key(va)] = None,
           NEW page \in P, NEW q, q = copy_page(m, sp[s], va, page)
    PROVE  \E nd2, y : Placed(P, m, q, sp, nd, nd2, s, va, y, m.data[page], K, H)
<1>1. PICK n : n = new_page(m)
  OBVIOUS
<1>2. Taken(P, m, n, sp, nd, K, H)
  BY <1>1, NewPage
<1>3. n.data = m.data /\ m.data \in [P -> Values] /\ (n.at # None => n.at \in P)
  BY <1>2 DEF Taken, Mem, IsMemory
<1>4. PICK y : y = n.at
  OBVIOUS
<1>5. PICK d : d = [n.data EXCEPT ![y] = n.data[page]]
  OBVIOUS
<1>6. d \in [P -> Values] /\ (\A x \in P : x # y => d[x] = m.data[x]) /\ (y # None => d[y] = m.data[page])
  BY <1>3, <1>4, <1>5
<1>7. PICK n2 : n2 = [n EXCEPT !.data = d]
  OBVIOUS
<1>8. PICK r : r = map_page_in(n2, sp[s], va, y, TRUE)
  OBVIOUS
<1>9. q = IF y = None THEN n ELSE IF r.at = None THEN give_back(r, {y}) ELSE r
  <2>1. [n EXCEPT !.data[y] = n.data[page]] = n2
    BY <1>5, <1>7
  <2>2. QED
    BY <1>1, <1>4, <1>8, <2>1 DEF copy_page
<1>10. Placing(P, m, q, sp, nd, s, va, n, d)
  BY <1>1, <1>4, <1>6, <1>7, <1>8, <1>9 DEF Placing
<1>11. PICK nd2 : Placed(P, m, q, sp, nd, nd2, s, va, y, d[y], K, H)
  BY <1>4, <1>10, PlacePage
<1>12. Placed(P, m, q, sp, nd, nd2, s, va, y, m.data[page], K, H)
  BY <1>6, <1>11 DEF Placed
<1>13. QED
  BY <1>12

\* A round of the loop, and the loop.
Round(m, src, dest, r, va) ==
    IF r.at = None \/ ~ visits(m.table, src, va) THEN r
    ELSE copy_page(r, dest, va, virtual_to_physical(m.table, src, va))
IsLoop(f, m, src, dest) ==
    f = [k \in 0 .. Len(UserHalf) |-> IF k = 0 THEN [m EXCEPT !.at = dest]
                                      ELSE Round(m, src, dest, f[k - 1], UserHalf[k])]

LEMMA LoopExists ==
    ASSUME NEW m, NEW src, NEW dest
    PROVE  \E f : IsLoop(f, m, src, dest)
<1> DEFINE R(r, k) == Round(m, src, dest, r, UserHalf[k])
<1>1. PICK l0, l1, l2, l3, l4, l5, l6, l7, l8 :
        /\ l0 = [m EXCEPT !.at = dest] /\ l1 = R(l0, 1) /\ l2 = R(l1, 2) /\ l3 = R(l2, 3)
        /\ l4 = R(l3, 4) /\ l5 = R(l4, 5) /\ l6 = R(l5, 6) /\ l7 = R(l6, 7) /\ l8 = R(l7, 8)
  OBVIOUS
<1>2. PICK f : f = [k \in 0 .. 8 |-> IF k = 0 THEN l0 ELSE IF k = 1 THEN l1 ELSE IF k = 2 THEN l2
                                     ELSE IF k = 3 THEN l3 ELSE IF k = 4 THEN l4 ELSE IF k = 5 THEN l5
                                     ELSE IF k = 6 THEN l6 ELSE IF k = 7 THEN l7 ELSE l8]
  OBVIOUS
<1>3. /\ f[0] = l0 /\ f[1] = l1 /\ f[2] = l2 /\ f[3] = l3 /\ f[4] = l4 /\ f[5] = l5
      /\ f[6] = l6 /\ f[7] = l7 /\ f[8] = l8 /\ f = [k \in 0 .. 8 |-> f[k]]
  BY <1>2
<1> HIDE DEF R
<1>4. ASSUME NEW k \in 0 .. 8
      PROVE  f[k] = IF k = 0 THEN [m EXCEPT !.at = dest] ELSE R(f[k - 1], k)
  <2>1. k = 0 \/ k = 1 \/ k = 2 \/ k = 3 \/ k = 4 \/ k = 5 \/ k = 6 \/ k = 7 \/ k = 8
    OBVIOUS
  <2>2. QED
    BY <1>1, <1>3, <2>1
<1>5. IsLoop(f, m, src, dest)
  <2>1. Len(UserHalf) = 8
    BY UserHalfKeys
  <2>2. QED
    BY <1>3, <1>4, <2>1 DEF IsLoop, R
<1>6. QED
  BY <1>5

LEMMA LoopIs ==
    ASSUME NEW m, NEW src, NEW dest
    PROVE  \E f : IsLoop(f, m, src, dest) /\ copy_user_pages(m, src, dest) = f[8]
<1>1. PICK f : f = CHOOSE g : IsLoop(g, m, src, dest)
  OBVIOUS
<1>2. IsLoop(f, m, src, dest)
  BY <1>1, LoopExists
<1>3. copy_user_pages(m, src, dest) = f[Len(UserHalf)]
  BY <1>1 DEF IsLoop, Round, copy_user_pages
<1>4. QED
  BY <1>2, <1>3, UserHalfKeys

\* After k rounds process c has copies of the first k pages of s, or the loop has failed.
Copying(P, m, r, sp, nd, nd2, s, c, k, K) ==
    /\ Mem(P, r, sp, nd2, K, {}) /\ KernSame(K, sp, m.table, r.table)
    /\ \A t \in Procs : \A p \in Places : t # c => nd2[t][p] = nd[t][p]
    /\ \A t \in Procs : \A p \in Places : t # c /\ nd[t][p] # None => r.data[nd[t][p]] = m.data[nd[t][p]]
    /\ \A p \in Leaves : p > 15 + k => nd2[c][p] = None
    /\ r.at # None => \A p \in Leaves : p <= 15 + k =>
            IF nd[s][p] = None THEN nd2[c][p] = None
            ELSE nd2[c][p] # None /\ r.data[nd2[c][p]] = m.data[nd[s][p]]

\* From which state the loop starts.
Copies(P, m, sp, nd, s, c, K) ==
    /\ P = Pages /\ Mem(P, m, sp, nd, K, {}) /\ s \in Procs /\ c \in Procs /\ s # c
    /\ sp[s] # None /\ sp[c] # None /\ \A p \in Leaves : nd[c][p] = None

LEMMA CopyRound ==
    ASSUME NEW P, NEW m, NEW sp, NEW nd, NEW s, NEW c, NEW K, Copies(P, m, sp, nd, s, c, K),
           NEW k \in 1 .. 8, NEW j \in Nat, j = k - 1,
           NEW r, NEW nd2, Copying(P, m, r, sp, nd, nd2, s, c, j, K),
           NEW q, q = Round(m, sp[s], sp[c], r, UserHalf[k])
    PROVE  \E nd3 : Copying(P, m, q, sp, nd, nd3, s, c, k, K)
<1>1. PICK va : va = UserHalf[k]
  OBVIOUS
<1>2. va \in UserPages /\ Key(va) = 15 + k /\ Key(va) \in Leaves
  BY <1>1, UserHalfKeys DEF UserPages, Leaves
<1>3. /\ Mem(P, r, sp, nd2, K, {}) /\ KernSame(K, sp, m.table, r.table)
      /\ \A t \in Procs : \A p \in Places : t # c => nd2[t][p] = nd[t][p]
      /\ \A t \in Procs : \A p \in Places : t # c /\ nd[t][p] # None => r.data[nd[t][p]] = m.data[nd[t][p]]
  BY DEF Copying
<1>4. /\ \A p \in Leaves : p > 15 + j => nd2[c][p] = None
      /\ r.at # None => \A p \in Leaves : p <= 15 + j =>
            IF nd[s][p] = None THEN nd2[c][p] = None
            ELSE nd2[c][p] # None /\ r.data[nd2[c][p]] = m.data[nd[s][p]]
  BY DEF Copying
<1>5. nd2[c][Key(va)] = None /\ \A p \in Leaves : p > 15 + k => nd2[c][p] = None
  BY <1>2, <1>4 DEF Leaves
<1>6. \A p \in Leaves : p <= 15 + k => p <= 15 + j \/ p = Key(va)
  BY <1>2 DEF Leaves
<1>7. /\ P = Pages /\ Numbers(P) /\ Tree(P, m.table, sp, nd) /\ s \in Procs /\ c \in Procs /\ s # c
      /\ sp[s] # None /\ sp[c] # None
      /\ Leaves \subseteq Places /\ nd \in [Procs -> [Places -> P \cup {None}]]
  BY DEF Copies, Mem, World, Sizes, Tree, Numbers, Places
<1>8. /\ virtual_to_physical(m.table, sp[s], va) = nd[s][Key(va)]
      /\ visits(m.table, sp[s], va) <=> nd[s][Key(va)] # None
  BY <1>2, <1>7, WalkUser
<1>9. CASE r.at = None \/ nd[s][Key(va)] = None
  <2>1. q = r
    BY <1>1, <1>8, <1>9 DEF Round
  <2>2. r.at # None => \A p \in Leaves : p <= 15 + k =>
            IF nd[s][p] = None THEN nd2[c][p] = None
            ELSE nd2[c][p] # None /\ r.data[nd2[c][p]] = m.data[nd[s][p]]
    BY <1>4, <1>5, <1>6, <1>9
  <2>3. Copying(P, m, q, sp, nd, nd2, s, c, k, K)
    BY <1>3, <1>5, <2>1, <2>2 DEF Copying
  <2>4. QED
    BY <2>3
<1>10. CASE r.at # None /\ nd[s][Key(va)] # None
  <2>1. PICK page : page = nd[s][Key(va)]
    OBVIOUS
  <2>2. page \in P /\ page # None /\ r.data[page] = m.data[page]
    BY <1>2, <1>3, <1>7, <1>10, <2>1
  <2>3. q = copy_page(r, sp[c], va, page)
    BY <1>1, <1>8, <1>10, <2>1 DEF Round
  <2>4. PICK nd3, y : Placed(P, r, q, sp, nd2, nd3, c, va, y, r.data[page], K, {})
    BY <1>2, <1>3, <1>5, <1>7, <2>2, <2>3, CopyPage
  <2>5. /\ Mem(P, q, sp, nd3, K, {}) /\ KernSame(K, sp, r.table, q.table)
        /\ \A t \in Procs : \A p \in Places : t # c \/ (p \in Leaves /\ p # Key(va)) => nd3[t][p] = nd2[t][p]
        /\ \A t \in Procs : \A p \in Places : nd2[t][p] # None => q.data[nd2[t][p]] = r.data[nd2[t][p]]
        /\ nd3[c][Key(va)] = IF q.at = None THEN None ELSE y
        /\ q.at # None => y # None /\ q.data[y] = m.data[page]
    BY <2>2, <2>4 DEF Placed
  <2>6. KernSame(K, sp, m.table, q.table)
    BY <1>3, <2>5, KernSameTwice
  <2>7. \A t \in Procs : \A p \in Places : t # c => nd3[t][p] = nd[t][p]
    BY <1>3, <2>5
  <2>8. \A t \in Procs : \A p \in Places : t # c /\ nd[t][p] # None => q.data[nd[t][p]] = m.data[nd[t][p]]
    BY <1>3, <2>5
  <2>9. \A p \in Leaves : p > 15 + k => nd3[c][p] = None
    <3>1. \A p \in Leaves : p > 15 + k => p # Key(va)
      BY <1>2 DEF Leaves
    <3>2. QED
      BY <3>1, <1>5, <1>7, <2>5
  <2>10. ASSUME q.at # None, NEW p \in Leaves, p <= 15 + k
         PROVE  IF nd[s][p] = None THEN nd3[c][p] = None
                ELSE nd3[c][p] # None /\ q.data[nd3[c][p]] = m.data[nd[s][p]]
    <3>1. CASE p = Key(va)
      BY <2>1, <2>2, <2>5, <2>10, <3>1
    <3>2. CASE p # Key(va)
      <4>1. p <= 15 + j
        BY <1>6, <2>10, <3>2
      <4>2. nd3[c][p] = nd2[c][p] /\ p \in Places
        BY <1>7, <2>5, <3>2
      <4>3. IF nd[s][p] = None THEN nd2[c][p] = None
            ELSE nd2[c][p] # None /\ r.data[nd2[c][p]] = m.data[nd[s][p]]
        BY <1>4, <1>10, <4>1
      <4>4. nd2[c][p] # None => q.data[nd2[c][p]] = r.data[nd2[c][p]]
        BY <1>7, <2>5, <4>2
      <4>5. QED
        BY <4>2, <4>3, <4>4
    <3>3. QED
      BY <3>1, <3>2
  <2>11. Copying(P, m, q, sp, nd, nd3, s, c, k, K)
    BY <2>5, <2>6, <2>7, <2>8, <2>9, <2>10 DEF Copying
  <2>12. QED
    BY <2>11
<1>11. QED
  BY <1>9, <1>10

\* copy_user_pages(): all pages of s have their copy in c, or the result's at is None.
LEMMA CopyPages ==
    ASSUME NEW P, NEW m, NEW sp, NEW nd, NEW s, NEW c, NEW K, Copies(P, m, sp, nd, s, c, K),
           NEW r, r = copy_user_pages(m, sp[s], sp[c])
    PROVE  \E nd2 : Copying(P, m, r, sp, nd, nd2, s, c, 8, K)
<1>1. PICK f : IsLoop(f, m, sp[s], sp[c]) /\ copy_user_pages(m, sp[s], sp[c]) = f[8]
  BY LoopIs
<1> DEFINE Good(k) == \E nd2 : Copying(P, m, f[k], sp, nd, nd2, s, c, k, K)
<1>2. \A k \in 0 .. 8 : f[k] = IF k = 0 THEN [m EXCEPT !.at = sp[c]]
                               ELSE Round(m, sp[s], sp[c], f[k - 1], UserHalf[k])
  BY <1>1, UserHalfKeys DEF IsLoop
<1>3. Good(0)
  <2>1. PICK l : l = f[0]
    OBVIOUS
  <2>2. /\ Mem(P, m, sp, nd, K, {}) /\ \A p \in Leaves : nd[c][p] = None
    BY DEF Copies
  <2>3. l = [m EXCEPT !.at = sp[c]] /\ sp[c] \in P
    BY <1>2, <2>1 DEF Copies, Mem, World, Tree
  <2>4. l.table = m.table /\ l.data = m.data /\ Mem(P, l, sp, nd, K, {})
    BY <2>2, <2>3 DEF Mem, IsMemory
  <2>5. \A p \in Leaves : ~ (p <= 15 + 0)
    BY DEF Leaves
  <2>6. Copying(P, m, l, sp, nd, nd, s, c, 0, K)
    BY <2>2, <2>4, <2>5 DEF Copying, KernSame
  <2>7. QED
    BY <2>1, <2>6
<1>4. ASSUME NEW k \in 1 .. 8, NEW j, j = k - 1, Good(j)
      PROVE  Good(k)
  <2>1. PICK l, q : l = f[j] /\ q = f[k]
    OBVIOUS
  <2>2. j \in Nat /\ q = Round(m, sp[s], sp[c], l, UserHalf[k])
    BY <1>2, <1>4, <2>1
  <2>3. PICK nd2 : Copying(P, m, l, sp, nd, nd2, s, c, j, K)
    BY <1>4, <2>1
  <2>4. \E nd3 : Copying(P, m, q, sp, nd, nd3, s, c, k, K)
    BY <1>4, <2>2, <2>3, CopyRound
  <2>5. QED
    BY <2>1, <2>4
<1> HIDE DEF Good
<1>5. Good(8)
  <2>1. \A k \in 1 .. 8 : Good(k - 1) => Good(k)
    BY <1>4
  <2>2. Good(1) /\ (Good(1) => Good(2)) /\ (Good(2) => Good(3)) /\ (Good(3) => Good(4))
        /\ (Good(4) => Good(5)) /\ (Good(5) => Good(6)) /\ (Good(6) => Good(7)) /\ (Good(7) => Good(8))
    BY <1>3, <2>1
  <2>3. QED
    BY <2>2
<1>6. QED
  BY <1>1, <1>5 DEF Good

-----------------------------------------------------------------------------
(* The inductive invariant *)

KernelOf(P, b, tab, hp) ==
    (initial_bitmap(b) \cap P) \cup Entries(tab, KPD, {1}) \cup {hp[k].page : k \in DOMAIN hp}

\* The pages of a process are those that it has stored something in, with what it has stored.
HoldsOne(tree, d, f) ==
    /\ DOMAIN f \subseteq UserPages /\ \A va \in DOMAIN f : f[va] \in Values
    /\ \A va \in UserPages : IF va \in DOMAIN f THEN tree[Key(va)] # None /\ d[tree[Key(va)]] = f[va]
                             ELSE tree[Key(va)] = None
Holds(nd, d, ct) == ct = [s \in Procs |-> ct[s]] /\ \A s \in Procs : HoldsOne(nd[s], d, ct[s])

\* A process that exists has a space, and one in ring 3 the User bits to its code.
Modes(tab, sp, md) ==
    /\ md \in [Procs -> {"none", "kernel", "user", "failed"}]
    /\ \A s \in Procs : (md[s] = "none" <=> sp[s] = None) /\ (md[s] = "user" => Bits(tab, sp[s]))

\* The space that is loaded is the boot code's or a process's.
Loaded(sp, c) == c = KPML4 \/ \E s \in Procs : sp[s] # None /\ c = sp[s]
HeapIs(P, hp) == hp \in Seq([page : P, mapped : BOOLEAN]) /\ Len(hp) <= HeapPages

State(P, b, m, c, sp, md, ct, hp, nd, K) ==
    /\ Mem(P, m, sp, nd, K, {}) /\ Kern(m.table, sp, K, hp) /\ K = KernelOf(P, b, m.table, hp)
    /\ Modes(m.table, sp, md) /\ Holds(nd, m.data, ct) /\ Loaded(sp, c) /\ HeapIs(P, hp)

\* There are trees that the tables represent, of which all this is true.
VmmInv ==
    /\ boot \in Boots /\ pages_ = page_count(boot)
    /\ \E nd, K : State(Pages, boot, Memory, current, pml4, mode, contents, heap, nd, K)

Now(P, b, m, c, sp, md, ct, hp) ==
    /\ P = Pages /\ b = boot /\ m = Memory /\ c = current /\ sp = pml4 /\ md = mode
    /\ ct = contents /\ hp = heap
Becomes(c, sp, md, ct, hp) ==
    current' = c /\ pml4' = sp /\ mode' = md /\ contents' = ct /\ heap' = hp

LEMMA Start ==
    ASSUME VmmInv
    PROVE  \E P, b, m, c, sp, md, ct, hp, nd, K :
               Now(P, b, m, c, sp, md, ct, hp) /\ State(P, b, m, c, sp, md, ct, hp, nd, K)
<1>1. PICK P, b, m, c, sp, md, ct, hp : Now(P, b, m, c, sp, md, ct, hp)
  BY DEF Now
<1>2. PICK nd, K : State(P, b, m, c, sp, md, ct, hp, nd, K)
  BY <1>1 DEF VmmInv, Now
<1>3. QED
  BY <1>1, <1>2

\* Where the last step of a call arrived does not matter afterwards.
LEMMA Goes ==
    ASSUME VmmInv, NEW P, NEW b, P = Pages, b = boot, NEW r, TakesEffect(r),
           NEW c, NEW sp, NEW md, NEW ct, NEW hp, Becomes(c, sp, md, ct, hp),
           NEW nd, NEW K, State(P, b, r, c, sp, md, ct, hp, nd, K)
    PROVE  VmmInv'
<1>1. PICK m : m = [bitmap |-> r.bitmap, table |-> r.table, data |-> r.data, at |-> None]
  OBVIOUS
<1>2. m.bitmap = r.bitmap /\ m.table = r.table /\ m.data = r.data /\ m.at = None
  BY <1>1
<1>3. Mem(P, m, sp, nd, K, {})
  <2>1. IsMemory(P, r) /\ World(P, r.bitmap, r.table, sp, nd, K, {})
    BY DEF State, Mem
  <2>2. IsMemory(P, m)
    BY <1>1, <2>1 DEF IsMemory
  <2>3. QED
    BY <1>2, <2>1, <2>2 DEF Mem
<1>4. State(P, b, m, c, sp, md, ct, hp, nd, K)
  BY <1>2, <1>3 DEF State
<1>5. bitmap' = r.bitmap /\ table' = r.table /\ data' = r.data /\ boot' = boot /\ pages_' = pages_
  BY DEF TakesEffect, pmmFixed
<1>6. Pages' = P /\ boot' = b /\ Memory' = m
  BY <1>1, <1>5 DEF Pages, Memory
<1>7. current' = c /\ pml4' = sp /\ mode' = md /\ contents' = ct /\ heap' = hp
  BY DEF Becomes
<1>8. State(Pages', boot', Memory', current', pml4', mode', contents', heap', nd, K)
  BY <1>4, <1>6, <1>7
<1>9. boot' \in Boots /\ pages_' = page_count(boot')
  BY <1>5 DEF VmmInv
<1>10. QED
  BY <1>8, <1>9 DEF VmmInv

\* What the space that is loaded is good for.
LEMMA CurrentSpace ==
    ASSUME NEW P, NEW b, NEW m, NEW c, NEW sp, NEW md, NEW ct, NEW hp, NEW nd, NEW K,
           State(P, b, m, c, sp, md, ct, hp, nd, K)
    PROVE  /\ c \in P /\ To(m.table[c][1], KPDPT) /\ KernelPages \subseteq K /\ K \subseteq P /\ Numbers(P)
           /\ sp \in [Procs -> P \cup {None}] /\ nd \in [Procs -> [Places -> P \cup {None}]]
           /\ Leaves \subseteq Places /\ 1 \notin Leaves
<1>1. /\ KernelPages \subseteq K /\ K \subseteq P /\ Numbers(P)
      /\ sp \in [Procs -> P \cup {None}] /\ nd \in [Procs -> [Places -> P \cup {None}]]
  BY DEF State, Mem, World, Once, Tree, Sizes, Numbers
<1>2. KPML4 \in P
  BY <1>1 DEF KernelPages
<1>3. c \in P /\ To(m.table[c][1], KPDPT)
  BY <1>1, <1>2 DEF State, Loaded, Kern
<1>4. Leaves \subseteq Places /\ 1 \notin Leaves
  BY DEF Leaves, Places
<1>5. QED
  BY <1>1, <1>3, <1>4

LEMMA KernelOfSame ==
    ASSUME NEW P, NEW b, NEW tab, NEW tab2, NEW hp, tab2[KPD][1] = tab[KPD][1]
    PROVE  KernelOf(P, b, tab2, hp) = KernelOf(P, b, tab, hp)
<1>1. Entries(tab2, KPD, {1}) = Entries(tab, KPD, {1})
  BY DEF Entries
<1>2. QED
  BY <1>1 DEF KernelOf

\* The pages of all processes but s, and what is in them, are the same.
OthersKept(nd, nd2, d, d2, s) ==
    \A t \in Procs : \A k \in Leaves :
        t # s => nd2[t][k] = nd[t][k] /\ (nd[t][k] # None => d2[nd[t][k]] = d[nd[t][k]])

LEMMA HoldsFor ==
    ASSUME NEW nd, NEW nd2, NEW d, NEW d2, NEW ct, Holds(nd, d, ct), NEW s \in Procs,
           OthersKept(nd, nd2, d, d2, s), NEW f, HoldsOne(nd2[s], d2, f),
           NEW ct2, ct2 = [ct EXCEPT ![s] = f]
    PROVE  Holds(nd2, d2, ct2)
<1>1. /\ \A t \in Procs : ct2[t] = IF t = s THEN f ELSE ct[t]
      /\ ct2 = [t \in Procs |-> ct2[t]]
  <2>1. ct = [t \in Procs |-> ct[t]]
    BY DEF Holds
  <2>2. QED
    BY <2>1
<1>2. ASSUME NEW t \in Procs
      PROVE  HoldsOne(nd2[t], d2, ct2[t])
  <2>1. CASE t = s
    BY <1>1, <2>1
  <2>2. CASE t # s
    <3>1. ct2[t] = ct[t] /\ HoldsOne(nd[t], d, ct[t])
      BY <1>1, <2>2 DEF Holds
    <3>2. \A k \in Leaves : nd2[t][k] = nd[t][k] /\ (nd[t][k] # None => d2[nd[t][k]] = d[nd[t][k]])
      BY <2>2 DEF OthersKept
    <3>3. \A va \in UserPages : Key(va) \in Leaves
      BY UserKeys
    <3>4. QED
      BY <3>1, <3>2, <3>3 DEF HoldsOne
  <2>3. QED
    BY <2>1, <2>2
<1>3. QED
  BY <1>1, <1>2 DEF Holds

\* The pages but the one at va of process s are the same.
Beside(nd, nd2, d, d2, s, va) ==
    \A t \in Procs : \A k \in Leaves :
        t # s \/ k # Key(va) => nd2[t][k] = nd[t][k] /\ (nd[t][k] # None => d2[nd[t][k]] = d[nd[t][k]])

LEMMA HoldsWith ==
    ASSUME NEW nd, NEW nd2, NEW d, NEW d2, NEW ct, Holds(nd, d, ct), NEW s \in Procs, NEW va \in UserPages,
           Beside(nd, nd2, d, d2, s, va), nd2[s][Key(va)] # None,
           NEW v \in Values, d2[nd2[s][Key(va)]] = v,
           NEW ct2, ct2 = [ct EXCEPT ![s] = With(ct[s], va, v)]
    PROVE  Holds(nd2, d2, ct2)
<1>1. PICK f : f = With(ct[s], va, v)
  OBVIOUS
<1>2. /\ DOMAIN f = DOMAIN ct[s] \cup {va} /\ f[va] = v
      /\ \A x \in DOMAIN ct[s] : x # va => f[x] = ct[s][x]
  BY <1>1 DEF With
<1>3. HoldsOne(nd[s], d, ct[s])
  BY DEF Holds
<1>4. ASSUME NEW x \in UserPages, x # va
      PROVE  /\ nd2[s][Key(x)] = nd[s][Key(x)]
             /\ nd[s][Key(x)] # None => d2[nd[s][Key(x)]] = d[nd[s][Key(x)]]
  <2>1. Key(x) \in Leaves /\ Key(x) # Key(va)
    BY <1>4, UserKeys
  <2>2. QED
    BY <2>1 DEF Beside
<1>5. HoldsOne(nd2[s], d2, f)
  BY <1>2, <1>3, <1>4 DEF HoldsOne
<1>6. OthersKept(nd, nd2, d, d2, s)
  BY DEF OthersKept, Beside
<1>7. QED
  BY <1>1, <1>5, <1>6, HoldsFor

LEMMA HoldsSame ==
    ASSUME NEW nd, NEW nd2, NEW d, NEW d2, NEW ct, Holds(nd, d, ct), NEW s \in Procs, NEW va \in UserPages,
           Beside(nd, nd2, d, d2, s, va), nd2[s][Key(va)] = None, va \notin DOMAIN ct[s]
    PROVE  Holds(nd2, d2, ct)
<1>1. ASSUME NEW t \in Procs
      PROVE  HoldsOne(nd2[t], d2, ct[t])
  <2>1. HoldsOne(nd[t], d, ct[t])
    BY DEF Holds
  <2>2. ASSUME NEW x \in UserPages, ~(t = s /\ x = va)
        PROVE  /\ nd2[t][Key(x)] = nd[t][Key(x)]
               /\ nd[t][Key(x)] # None => d2[nd[t][Key(x)]] = d[nd[t][Key(x)]]
    <3>1. Key(x) \in Leaves /\ (t # s \/ Key(x) # Key(va))
      BY <2>2, UserKeys
    <3>2. QED
      BY <3>1 DEF Beside
  <2>3. QED
    BY <2>1, <2>2 DEF HoldsOne
<1>2. QED
  BY <1>1 DEF Holds

LEMMA HoldsFrame ==
    ASSUME NEW nd, NEW nd2, NEW d, NEW ct, Holds(nd, d, ct),
           \A t \in Procs : \A k \in Leaves : nd2[t][k] = nd[t][k]
    PROVE  Holds(nd2, d, ct)
<1>1. \A va \in UserPages : Key(va) \in Leaves
  BY UserKeys
<1>2. QED
  BY <1>1 DEF Holds, HoldsOne

-----------------------------------------------------------------------------
(* The actions *)

LEMMA CreateStep ==
    ASSUME VmmInv, NEW s \in Procs, create(s)
    PROVE  VmmInv'
<1>1. PICK P, b, m, c, sp, md, ct, hp, nd, K :
        Now(P, b, m, c, sp, md, ct, hp) /\ State(P, b, m, c, sp, md, ct, hp, nd, K)
  BY Start
<1>2. PICK r, sp2, md2 : /\ r = create_address_space(m) /\ sp2 = [sp EXCEPT ![s] = r.at]
                         /\ md2 = [md EXCEPT ![s] = IF r.at = None THEN "none" ELSE "kernel"]
  OBVIOUS
<1>3. P = Pages /\ b = boot /\ c = current
  BY <1>1 DEF Now
<1>4. TakesEffect(r) /\ Becomes(c, sp2, md2, ct, hp) /\ md[s] = "none"
  BY <1>1, <1>2 DEF create, Now, Becomes
<1>5. /\ Mem(P, m, sp, nd, K, {}) /\ Kern(m.table, sp, K, hp) /\ K = KernelOf(P, b, m.table, hp)
      /\ Modes(m.table, sp, md) /\ Holds(nd, m.data, ct) /\ Loaded(sp, c) /\ HeapIs(P, hp)
  BY <1>1 DEF State
<1>6. /\ c \in P /\ To(m.table[c][1], KPDPT) /\ sp \in [Procs -> P \cup {None}]
      /\ Leaves \subseteq Places /\ 1 \notin Leaves
  BY <1>1, CurrentSpace
<1>7. sp[s] = None
  BY <1>4, <1>5 DEF Modes
<1>8. PICK nd2 : Created(P, m, r, sp, sp2, nd, nd2, s, K, hp, c)
  BY <1>2, <1>3, <1>5, <1>6, <1>7, CreateSpace
<1>9. /\ Mem(P, r, sp2, nd2, K, {}) /\ Kern(r.table, sp2, K, hp)
      /\ r.table[KPD] = m.table[KPD] /\ r.data = m.data
      /\ \A t \in Procs : \A k \in Places : nd2[t][k] = IF t = s /\ k = 1 THEN r.at ELSE nd[t][k]
      /\ \A t \in Procs : sp[t] # None /\ Bits(m.table, sp[t]) => Bits(r.table, sp[t])
  BY <1>8 DEF Created
<1>10. K = KernelOf(P, b, r.table, hp)
  BY <1>5, <1>9, KernelOfSame
<1>11. Holds(nd2, r.data, ct)
  <2>1. \A t \in Procs : \A k \in Leaves : nd2[t][k] = nd[t][k]
    BY <1>6, <1>9
  <2>2. QED
    BY <1>5, <1>9, <2>1, HoldsFrame
<1>12. \A t \in Procs : sp2[t] = IF t = s THEN r.at ELSE sp[t]
  BY <1>2, <1>6
<1>13. Modes(r.table, sp2, md2)
  <2>1. \A t \in Procs : md2[t] = IF t = s THEN IF r.at = None THEN "none" ELSE "kernel" ELSE md[t]
    BY <1>2, <1>5 DEF Modes
  <2>2. md2 \in [Procs -> {"none", "kernel", "user", "failed"}]
    BY <1>2, <1>5 DEF Modes
  <2>3. ASSUME NEW t \in Procs
        PROVE  (md2[t] = "none" <=> sp2[t] = None) /\ (md2[t] = "user" => Bits(r.table, sp2[t]))
    <3>1. CASE t = s
      BY <1>12, <2>1, <3>1
    <3>2. CASE t # s
      BY <1>5, <1>9, <1>12, <2>1, <3>2 DEF Modes
    <3>3. QED
      BY <3>1, <3>2
  <2>4. QED
    BY <2>2, <2>3 DEF Modes
<1>14. Loaded(sp2, c)
  BY <1>5, <1>7, <1>12 DEF Loaded
<1>15. State(P, b, r, c, sp2, md2, ct, hp, nd2, K)
  BY <1>5, <1>9, <1>10, <1>11, <1>13, <1>14 DEF State
<1>16. QED
  BY <1>3, <1>4, <1>15, Goes

LEMMA SwitchStep ==
    ASSUME VmmInv, NEW s \in Procs, switch_address_space(s)
    PROVE  VmmInv'
<1>1. PICK P, b, m, c, sp, md, ct, hp, nd, K :
        Now(P, b, m, c, sp, md, ct, hp) /\ State(P, b, m, c, sp, md, ct, hp, nd, K)
  BY Start
<1>2. PICK c2 : c2 = sp[s]
  OBVIOUS
<1>3. P = Pages /\ b = boot /\ md[s] # "none" /\ Becomes(c2, sp, md, ct, hp)
  BY <1>1, <1>2 DEF Now, Becomes, switch_address_space
<1>4. TakesEffect(m)
  <2>1. bitmap' = bitmap /\ table' = table /\ data' = data /\ UNCHANGED pmmFixed
    BY DEF switch_address_space, pmmVars
  <2>2. m.bitmap = bitmap /\ m.table = table /\ m.data = data
    BY <1>1 DEF Now, Memory
  <2>3. QED
    BY <2>1, <2>2 DEF TakesEffect
<1>5. Loaded(sp, c2)
  BY <1>1, <1>2, <1>3 DEF Loaded, State, Modes
<1>6. State(P, b, m, c2, sp, md, ct, hp, nd, K)
  BY <1>1, <1>5 DEF State
<1>7. QED
  BY <1>3, <1>4, <1>6, Goes

LEMMA EnterStep ==
    ASSUME VmmInv, NEW s \in Procs, enter_user(s)
    PROVE  VmmInv'
<1>1. PICK P, b, m, c, sp, md, ct, hp, nd, K :
        Now(P, b, m, c, sp, md, ct, hp) /\ State(P, b, m, c, sp, md, ct, hp, nd, K)
  BY Start
<1>2. PICK r, y, md2, ct2 :
        /\ r = map_user_space(m, sp[s]) /\ y = virtual_to_physical(r.table, sp[s], kUserStack)
        /\ md2 = [md EXCEPT ![s] = IF r.at = None THEN "failed" ELSE "user"]
        /\ ct2 = IF r.at = None THEN ct ELSE [ct EXCEPT ![s] = With(ct[s], kUserStack, r.data[y])]
  OBVIOUS
<1>3. P = Pages /\ b = boot /\ c = current
  BY <1>1 DEF Now
<1>4. /\ md[s] = "kernel" /\ c = sp[s] /\ kUserStack \notin DOMAIN ct[s]
      /\ TakesEffect(r) /\ Becomes(c, sp, md2, ct2, hp)
  BY <1>1, <1>2 DEF enter_user, Now, Becomes
<1>5. /\ Mem(P, m, sp, nd, K, {}) /\ Kern(m.table, sp, K, hp) /\ K = KernelOf(P, b, m.table, hp)
      /\ Modes(m.table, sp, md) /\ Holds(nd, m.data, ct) /\ Loaded(sp, c) /\ HeapIs(P, hp)
  BY <1>1 DEF State
<1>6. /\ Leaves \subseteq Places /\ Numbers(P) /\ kUserStack \in UserPages /\ Key(kUserStack) \in Leaves
  BY <1>1, CurrentSpace, UserKeys
<1>7. sp[s] # None /\ sp[s] = current
  BY <1>3, <1>4, <1>5 DEF Modes
<1>8. nd[s][Key(kUserStack)] = None
  BY <1>4, <1>5, <1>6 DEF Holds, HoldsOne
<1>9. PICK nd2 : Entered(P, m, r, sp, nd, nd2, s, K, hp)
  BY <1>2, <1>3, <1>5, <1>7, <1>8, MapUserSpace
<1>10. /\ Mem(P, r, sp, nd2, K, {}) /\ Kern(r.table, sp, K, hp) /\ r.table[KPD][1] = m.table[KPD][1]
       /\ Bits(r.table, sp[s]) /\ \A t \in Procs : sp[t] # None /\ Bits(m.table, sp[t]) => Bits(r.table, sp[t])
       /\ nd2[s][Key(kUserStack)] = None <=> r.at = None
  BY <1>9 DEF Entered
<1>11. Beside(nd, nd2, m.data, r.data, s, kUserStack)
  BY <1>6, <1>9 DEF Entered, Beside
<1>12. y = nd2[s][Key(kUserStack)]
  <2>1. Tree(P, r.table, sp, nd2)
    BY <1>10 DEF Mem, World
  <2>2. QED
    BY <1>2, <1>6, <1>7, <2>1, WalkUser
<1>13. K = KernelOf(P, b, r.table, hp)
  BY <1>5, <1>10, KernelOfSame
<1>14. Holds(nd2, r.data, ct2)
  <2>1. CASE r.at = None
    BY <1>2, <1>4, <1>5, <1>6, <1>10, <1>11, <2>1, HoldsSame
  <2>2. CASE r.at # None
    <3>1. PICK v : v = r.data[y]
      OBVIOUS
    <3>2. v \in Values
      <4>1. y \in P
        BY <1>6, <1>10, <1>12, <2>2 DEF Mem, World, Tree
      <4>2. QED
        BY <1>10, <3>1, <4>1 DEF Mem, IsMemory
    <3>3. /\ nd2[s][Key(kUserStack)] # None /\ r.data[nd2[s][Key(kUserStack)]] = v
          /\ ct2 = [ct EXCEPT ![s] = With(ct[s], kUserStack, v)]
      BY <1>2, <1>10, <1>12, <2>2, <3>1
    <3>4. QED
      BY <1>5, <1>6, <1>11, <3>2, <3>3, HoldsWith
  <2>3. QED
    BY <2>1, <2>2
<1>15. Modes(r.table, sp, md2)
  <2>1. \A t \in Procs : md2[t] = IF t = s THEN IF r.at = None THEN "failed" ELSE "user" ELSE md[t]
    BY <1>2, <1>5 DEF Modes
  <2>2. md2 \in [Procs -> {"none", "kernel", "user", "failed"}]
    BY <1>2, <1>5 DEF Modes
  <2>3. ASSUME NEW t \in Procs
        PROVE  (md2[t] = "none" <=> sp[t] = None) /\ (md2[t] = "user" => Bits(r.table, sp[t]))
    <3>1. CASE t = s
      BY <1>7, <1>10, <2>1, <3>1
    <3>2. CASE t # s
      BY <1>5, <1>10, <2>1, <3>2 DEF Modes
    <3>3. QED
      BY <3>1, <3>2
  <2>4. QED
    BY <2>2, <2>3 DEF Modes
<1>16. State(P, b, r, c, sp, md2, ct2, hp, nd2, K)
  BY <1>5, <1>10, <1>13, <1>14, <1>15 DEF State
<1>17. QED
  BY <1>3, <1>4, <1>16, Goes

LEMMA MapMoreStep ==
    ASSUME VmmInv, NEW s \in Procs, NEW va \in Mappable, map_more(s, va)
    PROVE  VmmInv'
<1>1. PICK P, b, m, c, sp, md, ct, hp, nd, K :
        Now(P, b, m, c, sp, md, ct, hp) /\ State(P, b, m, c, sp, md, ct, hp, nd, K)
  BY Start
<1>2. PICK n, r, q, ct2 :
        /\ n = new_page(m) /\ r = map_page_in(n, sp[s], va, n.at, TRUE)
        /\ q = IF n.at = None THEN n ELSE IF r.at = None THEN give_back(r, {n.at}) ELSE r
        /\ ct2 = IF q.at = None THEN ct ELSE [ct EXCEPT ![s] = With(ct[s], va, q.data[n.at])]
  OBVIOUS
<1>3. P = Pages /\ b = boot
  BY <1>1 DEF Now
<1>4. /\ md[s] = "user" /\ va \notin DOMAIN ct[s] /\ TakesEffect(q) /\ Becomes(c, sp, md, ct2, hp)
  BY <1>1, <1>2 DEF map_more, Now, Becomes
<1>5. /\ Mem(P, m, sp, nd, K, {}) /\ Kern(m.table, sp, K, hp) /\ K = KernelOf(P, b, m.table, hp)
      /\ Modes(m.table, sp, md) /\ Holds(nd, m.data, ct) /\ Loaded(sp, c) /\ HeapIs(P, hp)
  BY <1>1 DEF State
<1>6. Leaves \subseteq Places /\ va \in UserPages /\ Key(va) \in Leaves /\ KernelPages \subseteq K
  <2>1. va \in UserPages
    BY VmmConstants
  <2>2. QED
    BY <1>1, <2>1, CurrentSpace, UserKeys
<1>7. sp[s] # None /\ nd[s][Key(va)] = None
  BY <1>4, <1>5, <1>6 DEF Modes, Holds, HoldsOne
<1>8. PICK d : d = m.data
  OBVIOUS
<1>9. d \in [P -> Values] /\ Taken(P, m, n, sp, nd, K, {})
  BY <1>2, <1>3, <1>5, <1>8, NewPage DEF Mem, IsMemory
<1>10. n = [n EXCEPT !.data = d]
  BY <1>8, <1>9 DEF Taken, IsMemory
<1>11. Placing(P, m, q, sp, nd, s, va, n, d)
  BY <1>2, <1>6, <1>7, <1>8, <1>9, <1>10 DEF Placing
<1>12. PICK nd2 : Placed(P, m, q, sp, nd, nd2, s, va, n.at, d[n.at], K, {})
  BY <1>3, <1>5, <1>11, PlacePage
<1>13. /\ Mem(P, q, sp, nd2, K, {}) /\ KernSame(K, sp, m.table, q.table)
       /\ nd2[s][Key(va)] = IF q.at = None THEN None ELSE n.at
       /\ q.at # None => n.at # None
  BY <1>12 DEF Placed
<1>14. Beside(nd, nd2, m.data, q.data, s, va)
  BY <1>6, <1>12 DEF Placed, Beside
<1>15. /\ Kern(q.table, sp, K, hp) /\ q.table[KPD] = m.table[KPD]
       /\ \A t \in Procs : sp[t] # None /\ Bits(m.table, sp[t]) => Bits(q.table, sp[t])
  BY <1>5, <1>6, <1>13, KernKept
<1>16. K = KernelOf(P, b, q.table, hp)
  BY <1>5, <1>15, KernelOfSame
<1>17. Modes(q.table, sp, md)
  BY <1>5, <1>15 DEF Modes
<1>18. Holds(nd2, q.data, ct2)
  <2>1. CASE q.at = None
    BY <1>2, <1>4, <1>5, <1>6, <1>13, <1>14, <2>1, HoldsSame
  <2>2. CASE q.at # None
    <3>1. PICK v : v = q.data[n.at]
      OBVIOUS
    <3>2. v \in Values
      <4>1. n.at \in P
        BY <1>9, <1>13, <2>2 DEF Taken
      <4>2. QED
        BY <1>13, <3>1, <4>1 DEF Mem, IsMemory
    <3>3. /\ nd2[s][Key(va)] # None /\ q.data[nd2[s][Key(va)]] = v
          /\ ct2 = [ct EXCEPT ![s] = With(ct[s], va, v)]
      BY <1>2, <1>13, <2>2, <3>1
    <3>4. QED
      BY <1>5, <1>6, <1>14, <3>2, <3>3, HoldsWith
  <2>3. QED
    BY <2>1, <2>2
<1>19. State(P, b, q, c, sp, md, ct2, hp, nd2, K)
  BY <1>5, <1>13, <1>15, <1>16, <1>17, <1>18 DEF State
<1>20. QED
  BY <1>3, <1>4, <1>19, Goes

LEMMA WriteStep ==
    ASSUME VmmInv, NEW s \in Procs, NEW va, NEW v \in Values, user_write(s, va, v)
    PROVE  VmmInv'
<1>1. PICK P, b, m, c, sp, md, ct, hp, nd, K :
        Now(P, b, m, c, sp, md, ct, hp) /\ State(P, b, m, c, sp, md, ct, hp, nd, K)
  BY Start
<1>2. PICK y, d2, ct2 : /\ y = virtual_to_physical(m.table, c, va) /\ d2 = [m.data EXCEPT ![y] = v]
                        /\ ct2 = [ct EXCEPT ![s] = With(ct[s], va, v)]
  OBVIOUS
<1>3. PICK r : r = [m EXCEPT !.data = d2]
  OBVIOUS
<1>4. m.bitmap = bitmap /\ m.table = table /\ m.data = data /\ P = Pages /\ b = boot
  BY <1>1 DEF Now, Memory
<1>5. /\ md[s] = "user" /\ c = sp[s] /\ va \in DOMAIN ct[s] /\ data' = d2 /\ Becomes(c, sp, md, ct2, hp)
  <2>1. y = virtual_to_physical(table, current, va)
    BY <1>1, <1>2, <1>4 DEF Now
  <2>2. data' = d2
    BY <1>2, <1>4, <2>1 DEF user_write
  <2>3. QED
    BY <1>1, <1>2, <2>2 DEF user_write, Now, Becomes
<1>6. /\ Mem(P, m, sp, nd, K, {}) /\ Kern(m.table, sp, K, hp) /\ K = KernelOf(P, b, m.table, hp)
      /\ Modes(m.table, sp, md) /\ Holds(nd, m.data, ct) /\ Loaded(sp, c) /\ HeapIs(P, hp)
  BY <1>1 DEF State
<1>7. /\ Leaves \subseteq Places /\ Numbers(P) /\ nd \in [Procs -> [Places -> P \cup {None}]]
  BY <1>1, CurrentSpace
<1>8. HoldsOne(nd[s], m.data, ct[s]) /\ sp[s] # None
  BY <1>5, <1>6 DEF Holds, Modes
<1>9. va \in UserPages /\ nd[s][Key(va)] # None
  BY <1>5, <1>8 DEF HoldsOne
<1>10. Key(va) \in Leaves
  BY <1>9, UserKeys
<1>11. y = nd[s][Key(va)] /\ y \in P /\ y # None
  <2>1. Tree(P, m.table, sp, nd)
    BY <1>6 DEF Mem, World
  <2>2. y = nd[s][Key(va)]
    BY <1>2, <1>5, <1>7, <1>8, <1>9, <2>1, WalkUser
  <2>3. QED
    BY <1>7, <1>9, <1>10, <2>2
<1>12. d2 \in [P -> Values] /\ d2[y] = v /\ \A x \in P : x # y => d2[x] = m.data[x]
  BY <1>2, <1>6, <1>11 DEF Mem, IsMemory
<1>13. r.bitmap = m.bitmap /\ r.table = m.table /\ r.data = d2 /\ IsMemory(P, r)
  BY <1>3, <1>6, <1>12 DEF Mem, IsMemory
<1>14. Mem(P, r, sp, nd, K, {})
  BY <1>6, <1>13 DEF Mem
<1>15. Beside(nd, nd, m.data, d2, s, va)
  <2>1. SUFFICES ASSUME NEW t \in Procs, NEW k \in Leaves, t # s \/ k # Key(va), nd[t][k] # None
                 PROVE  d2[nd[t][k]] = m.data[nd[t][k]]
    BY DEF Beside
  <2>2. nd[t][k] # y
    BY <1>6, <1>7, <1>10, <1>11, <2>1 DEF Mem, World, Once
  <2>3. nd[t][k] \in P
    BY <1>7, <2>1
  <2>4. QED
    BY <1>12, <2>2, <2>3
<1>16. Holds(nd, d2, ct2)
  <2>1. d2[nd[s][Key(va)]] = v
    BY <1>11, <1>12
  <2>2. QED
    BY <1>2, <1>6, <1>9, <1>15, <2>1, HoldsWith
<1>17. State(P, b, r, c, sp, md, ct2, hp, nd, K)
  BY <1>6, <1>13, <1>14, <1>16 DEF State
<1>18. TakesEffect(r)
  <2>1. bitmap' = bitmap /\ table' = table /\ UNCHANGED pmmFixed
    BY DEF user_write, pmmVars
  <2>2. QED
    BY <1>4, <1>5, <1>13, <2>1 DEF TakesEffect
<1>19. QED
  BY <1>4, <1>5, <1>17, <1>18, Goes

\* A process is gone, with all of its pages: what is left is as it was.
Gone(P, m, r, sp2, nd, nd2, s, K, hp) ==
    /\ Mem(P, r, sp2, nd2, K, {}) /\ Kern(r.table, sp2, K, hp) /\ r.table[KPD] = m.table[KPD]
    /\ OthersKept(nd, nd2, m.data, r.data, s) /\ \A k \in Leaves : nd2[s][k] = None
    /\ \A t \in Procs : sp2[t] # None /\ Bits(m.table, sp2[t]) => Bits(r.table, sp2[t])

LEMMA GoneSpace ==
    ASSUME NEW P, P = Pages, NEW m, NEW sp, NEW nd, NEW K, Mem(P, m, sp, nd, K, {}),
           NEW hp, Kern(m.table, sp, K, hp), NEW s \in Procs, sp[s] # None,
           NEW sp2, sp2 = [sp EXCEPT ![s] = None], NEW r, r = destroy_address_space(m, sp[s])
    PROVE  \E nd2 : Gone(P, m, r, sp2, nd, nd2, s, K, hp)
<1>1. PICK nd2 : Destroyed(P, m, r, sp, sp2, nd, nd2, s, K)
  BY DestroySpace
<1>2. /\ Mem(P, r, sp2, nd2, K, {}) /\ KernSame(K, sp2, m.table, r.table)
      /\ \A t \in Procs : \A k \in Places : nd2[t][k] = IF t = s THEN None ELSE nd[t][k]
      /\ \A t \in Procs : \A k \in Places : t # s /\ nd[t][k] # None => r.data[nd[t][k]] = m.data[nd[t][k]]
  BY <1>1 DEF Destroyed
<1>3. Leaves \subseteq Places /\ KernelPages \subseteq K
  BY DEF Places, Mem, World, Once
<1>4. Kern(m.table, sp2, K, hp)
  <2>1. \A t \in Procs : sp2[t] = IF t = s THEN None ELSE sp[t]
    BY DEF Mem, World, Tree
  <2>2. \A t \in Procs : sp2[t] # None => To(m.table[sp2[t]][1], KPDPT)
    BY <2>1 DEF Kern
  <2>3. QED
    BY <2>2 DEF Kern
<1>5. /\ Kern(r.table, sp2, K, hp) /\ r.table[KPD] = m.table[KPD]
      /\ \A t \in Procs : sp2[t] # None /\ Bits(m.table, sp2[t]) => Bits(r.table, sp2[t])
  BY <1>2, <1>3, <1>4, KernKept
<1>6. OthersKept(nd, nd2, m.data, r.data, s) /\ \A k \in Leaves : nd2[s][k] = None
  BY <1>2, <1>3 DEF OthersKept
<1>7. Gone(P, m, r, sp2, nd, nd2, s, K, hp)
  BY <1>2, <1>5, <1>6 DEF Gone
<1>8. QED
  BY <1>7

LEMMA NoContentsHolds ==
    ASSUME NEW tree, NEW d, \A k \in Leaves : tree[k] = None
    PROVE  HoldsOne(tree, d, NoContents)
<1>1. DOMAIN NoContents = {}
  BY DEF NoContents
<1>2. \A va \in UserPages : Key(va) \in Leaves
  BY UserKeys
<1>3. QED
  BY <1>1, <1>2 DEF HoldsOne

LEMMA ReapStep ==
    ASSUME VmmInv, NEW s \in Procs, reap(s)
    PROVE  VmmInv'
<1>1. PICK P, b, m, c, sp, md, ct, hp, nd, K :
        Now(P, b, m, c, sp, md, ct, hp) /\ State(P, b, m, c, sp, md, ct, hp, nd, K)
  BY Start
<1>2. PICK r, sp2, md2, ct2 :
        /\ r = destroy_address_space(m, sp[s]) /\ sp2 = [sp EXCEPT ![s] = None]
        /\ md2 = [md EXCEPT ![s] = "none"] /\ ct2 = [ct EXCEPT ![s] = NoContents]
  OBVIOUS
<1>3. P = Pages /\ b = boot
  BY <1>1 DEF Now
<1>4. md[s] # "none" /\ c # sp[s] /\ TakesEffect(r) /\ Becomes(c, sp2, md2, ct2, hp)
  BY <1>1, <1>2 DEF reap, Now, Becomes
<1>5. /\ Mem(P, m, sp, nd, K, {}) /\ Kern(m.table, sp, K, hp) /\ K = KernelOf(P, b, m.table, hp)
      /\ Modes(m.table, sp, md) /\ Holds(nd, m.data, ct) /\ Loaded(sp, c) /\ HeapIs(P, hp)
  BY <1>1 DEF State
<1>6. sp[s] # None /\ sp \in [Procs -> P \cup {None}]
  BY <1>1, <1>4, <1>5, CurrentSpace DEF Modes
<1>7. PICK nd2 : Gone(P, m, r, sp2, nd, nd2, s, K, hp)
  BY <1>2, <1>3, <1>5, <1>6, GoneSpace
<1>8. /\ Mem(P, r, sp2, nd2, K, {}) /\ Kern(r.table, sp2, K, hp) /\ r.table[KPD] = m.table[KPD]
      /\ OthersKept(nd, nd2, m.data, r.data, s) /\ \A k \in Leaves : nd2[s][k] = None
      /\ \A t \in Procs : sp2[t] # None /\ Bits(m.table, sp2[t]) => Bits(r.table, sp2[t])
  BY <1>7 DEF Gone
<1>9. K = KernelOf(P, b, r.table, hp)
  BY <1>5, <1>8, KernelOfSame
<1>10. Holds(nd2, r.data, ct2)
  <2>1. PICK f : f = NoContents
    OBVIOUS
  <2>2. HoldsOne(nd2[s], r.data, f)
    BY <1>8, <2>1, NoContentsHolds
  <2>3. QED
    BY <1>2, <1>5, <1>8, <2>1, <2>2, HoldsFor
<1>11. \A t \in Procs : sp2[t] = IF t = s THEN None ELSE sp[t]
  BY <1>2, <1>6
<1>12. Modes(r.table, sp2, md2)
  <2>1. \A t \in Procs : md2[t] = IF t = s THEN "none" ELSE md[t]
    BY <1>2, <1>5 DEF Modes
  <2>2. md2 \in [Procs -> {"none", "kernel", "user", "failed"}]
    BY <1>2, <1>5 DEF Modes
  <2>3. ASSUME NEW t \in Procs
        PROVE  (md2[t] = "none" <=> sp2[t] = None) /\ (md2[t] = "user" => Bits(r.table, sp2[t]))
    <3>1. CASE t = s
      BY <1>11, <2>1, <3>1
    <3>2. CASE t # s
      BY <1>5, <1>8, <1>11, <2>1, <3>2 DEF Modes
    <3>3. QED
      BY <3>1, <3>2
  <2>4. QED
    BY <2>2, <2>3 DEF Modes
<1>13. Loaded(sp2, c)
  BY <1>4, <1>5, <1>11 DEF Loaded
<1>14. State(P, b, r, c, sp2, md2, ct2, hp, nd2, K)
  BY <1>5, <1>8, <1>9, <1>10, <1>12, <1>13 DEF State
<1>15. QED
  BY <1>3, <1>4, <1>14, Goes

LEMMA HeapStep ==
    ASSUME VmmInv, heap_grow
    PROVE  VmmInv'
<1>1. PICK P, b, m, c, sp, md, ct, hp, nd, K :
        Now(P, b, m, c, sp, md, ct, hp) /\ State(P, b, m, c, sp, md, ct, hp, nd, K)
  BY Start
<1>2. PICK n, y : n = new_page(m) /\ y = n.at
  OBVIOUS
<1>3. PICK r, e : /\ r = map_with(n, c, HeapPage(Len(hp)), y, FALSE, FALSE)
                  /\ e = [page |-> y, mapped |-> r.at # None]
  OBVIOUS
<1>4. PICK hp2 : hp2 = Append(hp, e)
  OBVIOUS
<1>5. P = Pages /\ b = boot
  BY <1>1 DEF Now
<1>6. Len(hp) < HeapPages /\ y # None /\ TakesEffect(r) /\ Becomes(c, sp, md, ct, hp2)
  BY <1>1, <1>2, <1>3, <1>4 DEF heap_grow, Now, Becomes, map_page
<1>7. /\ Mem(P, m, sp, nd, K, {}) /\ Kern(m.table, sp, K, hp) /\ K = KernelOf(P, b, m.table, hp)
      /\ Modes(m.table, sp, md) /\ Holds(nd, m.data, ct) /\ Loaded(sp, c)
      /\ hp \in Seq([page : P, mapped : BOOLEAN])
  BY <1>1 DEF State, HeapIs
<1>8. c \in P /\ To(m.table[c][1], KPDPT)
  BY <1>1, CurrentSpace
<1>9. Mem(P, n, sp, nd, K, {y}) /\ n.table = m.table /\ n.data = m.data /\ y \in P
  <2>1. Taken(P, m, n, sp, nd, K, {})
    BY <1>2, <1>5, <1>7, NewPage
  <2>2. {} \cup {y} = {y}
    OBVIOUS
  <2>3. QED
    BY <1>2, <1>6, <2>1, <2>2 DEF Taken
<1>10. Len(hp) \in Index
  <2>1. HeapPages \in 0 .. 2 /\ Len(hp) \in Nat
    BY <1>7, VmmConstants
  <2>2. PICK k, l : k = Len(hp) /\ l = HeapPages
    OBVIOUS
  <2>3. k \in Nat /\ l \in 0 .. 2 /\ k < l
    BY <1>6, <2>1, <2>2
  <2>4. k \in 0 .. 1
    BY <2>3
  <2>5. QED
    BY <2>2, <2>4 DEF Index
<1>11. PICK K2 : HeapMapped(P, n, r, sp, nd, K, K2, hp, y)
  <2>1. Kern(n.table, sp, K, hp) /\ To(n.table[c][1], KPDPT)
    BY <1>7, <1>8, <1>9
  <2>2. QED
    BY <1>3, <1>5, <1>7, <1>8, <1>9, <1>10, <2>1, MapHeap
<1>12. /\ Mem(P, r, sp, nd, K2, {}) /\ r.data = m.data /\ Kern(r.table, sp, K2, hp2)
       /\ K2 = K \cup {y} \cup Entries(r.table, KPD, {1})
       /\ Entries(m.table, KPD, {1}) \subseteq Entries(r.table, KPD, {1})
       /\ \A t \in Procs : sp[t] # None /\ Bits(m.table, sp[t]) => Bits(r.table, sp[t])
  BY <1>3, <1>4, <1>9, <1>11 DEF HeapMapped
<1>13. e \in [page : P, mapped : BOOLEAN] /\ e.page = y
  BY <1>3, <1>9
<1>14. HeapIs(P, hp2) /\ DOMAIN hp2 = 1 .. Len(hp) + 1 /\ DOMAIN hp = 1 .. Len(hp) /\ Len(hp) \in Nat
       /\ hp2[Len(hp) + 1] = e /\ \A k \in DOMAIN hp : hp2[k] = hp[k]
  BY <1>4, <1>6, <1>7, <1>13, VmmConstants DEF HeapIs
<1>15. {hp2[k].page : k \in DOMAIN hp2} = {hp[k].page : k \in DOMAIN hp} \cup {y}
  <2>1. ASSUME NEW k \in DOMAIN hp2
        PROVE  hp2[k].page \in {hp[j].page : j \in DOMAIN hp} \cup {y}
    <3>1. k = Len(hp) + 1 \/ k \in DOMAIN hp
      BY <1>14
    <3>2. QED
      BY <1>13, <1>14, <3>1
  <2>2. \A k \in DOMAIN hp : k \in DOMAIN hp2 /\ hp2[k] = hp[k]
    BY <1>14
  <2>3. \E k \in DOMAIN hp2 : hp2[k].page = y
    BY <1>13, <1>14
  <2>4. QED
    BY <2>1, <2>2, <2>3
<1>16. K2 = KernelOf(P, b, r.table, hp2)
  BY <1>7, <1>12, <1>15 DEF KernelOf
<1>17. Modes(r.table, sp, md)
  BY <1>7, <1>12 DEF Modes
<1>18. State(P, b, r, c, sp, md, ct, hp2, nd, K2)
  BY <1>7, <1>12, <1>14, <1>16, <1>17 DEF State
<1>19. QED
  BY <1>5, <1>6, <1>18, Goes

\* What fork() has done to the pages when it is over, and to the slot f: a process with contents
\* g, or none, and then nothing has changed but pages that nobody has.
Forked(P, m, q, sp, sp2, nd, nd2, K, hp, f, a, g) ==
    /\ Mem(P, q, sp2, nd2, K, {}) /\ Kern(q.table, sp2, K, hp) /\ q.table[KPD] = m.table[KPD]
    /\ OthersKept(nd, nd2, m.data, q.data, f) /\ HoldsOne(nd2[f], q.data, g)
    /\ \A t \in Procs : sp[t] # None /\ Bits(m.table, sp[t]) => Bits(q.table, sp[t])
    /\ a # None => Bits(q.table, a)
Entry(sp, md, ct, sp2, md2, ct2, f, a, g) ==
    /\ f \in Procs /\ md[f] = "none"
    /\ sp2 = [sp EXCEPT ![f] = a] /\ ct2 = [ct EXCEPT ![f] = g]
    /\ md2 = [md EXCEPT ![f] = IF a = None THEN "none" ELSE "user"]

LEMMA ForkDone ==
    ASSUME NEW P, NEW b, NEW m, NEW c, NEW sp, NEW md, NEW ct, NEW hp, NEW nd, NEW K,
           State(P, b, m, c, sp, md, ct, hp, nd, K), NEW q, NEW nd2, NEW f, NEW a, NEW g,
           NEW sp2, NEW md2, NEW ct2, Entry(sp, md, ct, sp2, md2, ct2, f, a, g),
           Forked(P, m, q, sp, sp2, nd, nd2, K, hp, f, a, g)
    PROVE  State(P, b, q, c, sp2, md2, ct2, hp, nd2, K)
<1> USE DEF Forked, Entry
<1>1. /\ K = KernelOf(P, b, m.table, hp) /\ Modes(m.table, sp, md) /\ Holds(nd, m.data, ct)
      /\ Loaded(sp, c) /\ HeapIs(P, hp)
  BY DEF State
<1>2. K = KernelOf(P, b, q.table, hp)
  BY <1>1, KernelOfSame
<1>3. Holds(nd2, q.data, ct2)
  BY <1>1, HoldsFor
<1>4. sp[f] = None /\ sp \in [Procs -> P \cup {None}]
  BY <1>1, CurrentSpace DEF Modes
<1>5. \A t \in Procs : sp2[t] = IF t = f THEN a ELSE sp[t]
  BY <1>4
<1>6. Modes(q.table, sp2, md2)
  <2>1. \A t \in Procs : md2[t] = IF t = f THEN IF a = None THEN "none" ELSE "user" ELSE md[t]
    BY <1>1 DEF Modes
  <2>2. md2 \in [Procs -> {"none", "kernel", "user", "failed"}]
    BY <1>1 DEF Modes
  <2>3. ASSUME NEW t \in Procs
        PROVE  (md2[t] = "none" <=> sp2[t] = None) /\ (md2[t] = "user" => Bits(q.table, sp2[t]))
    <3>1. CASE t = f
      BY <1>5, <2>1, <3>1
    <3>2. CASE t # f
      BY <1>1, <1>5, <2>1, <3>2 DEF Modes
    <3>3. QED
      BY <3>1, <3>2
  <2>4. QED
    BY <2>2, <2>3 DEF Modes
<1>7. Loaded(sp2, c)
  BY <1>1, <1>4, <1>5 DEF Loaded
<1>8. QED
  BY <1>1, <1>2, <1>3, <1>6, <1>7 DEF State

LEMMA ForkStep ==
    ASSUME VmmInv, NEW s \in Procs, NEW f \in Procs, fork(s, f)
    PROVE  VmmInv'
<1>1. PICK P, b, m, c, sp, md, ct, hp, nd, K :
        Now(P, b, m, c, sp, md, ct, hp) /\ State(P, b, m, c, sp, md, ct, hp, nd, K)
  BY Start
<1>2. PICK n, r, q :
        /\ n = create_address_space(m) /\ r = copy_user_pages(n, sp[s], n.at)
        /\ q = IF n.at = None THEN n ELSE IF r.at = None THEN destroy_address_space(r, n.at) ELSE r
  OBVIOUS
<1>3. PICK a, g, sp2, md2, ct2 :
        /\ a = IF n.at # None /\ r.at # None THEN n.at ELSE None
        /\ g = IF n.at # None /\ r.at # None THEN ct[s] ELSE NoContents
        /\ sp2 = [sp EXCEPT ![f] = a] /\ ct2 = [ct EXCEPT ![f] = g]
        /\ md2 = [md EXCEPT ![f] = IF n.at # None /\ r.at # None THEN "user" ELSE "none"]
  OBVIOUS
<1>4. P = Pages /\ b = boot /\ c = current
  BY <1>1 DEF Now
<1>5. /\ md[s] = "user" /\ c = sp[s] /\ md[f] = "none" /\ TakesEffect(q) /\ Becomes(c, sp2, md2, ct2, hp)
  BY <1>1, <1>2, <1>3 DEF fork, Now, Becomes
<1>a. Entry(sp, md, ct, sp2, md2, ct2, f, a, g)
  <2>1. CASE n.at # None /\ r.at # None
    BY <1>3, <1>5, <2>1 DEF Entry
  <2>2. CASE ~(n.at # None /\ r.at # None)
    BY <1>3, <1>5, <2>2 DEF Entry
  <2>3. QED
    BY <2>1, <2>2
<1>6. /\ Mem(P, m, sp, nd, K, {}) /\ Kern(m.table, sp, K, hp) /\ K = KernelOf(P, b, m.table, hp)
      /\ Modes(m.table, sp, md) /\ Holds(nd, m.data, ct) /\ Loaded(sp, c) /\ HeapIs(P, hp)
  BY <1>1 DEF State
<1>7. /\ c \in P /\ To(m.table[c][1], KPDPT) /\ sp \in [Procs -> P \cup {None}] /\ KernelPages \subseteq K
      /\ Leaves \subseteq Places /\ 1 \notin Leaves
  BY <1>1, CurrentSpace
<1>8. sp[f] = None /\ sp[s] # None /\ s # f /\ Bits(m.table, c)
  BY <1>5, <1>6 DEF Modes
<1>9. PICK sp1 : sp1 = [sp EXCEPT ![f] = n.at]
  OBVIOUS
<1>10. PICK nd1 : Created(P, m, n, sp, sp1, nd, nd1, f, K, hp, c)
  BY <1>2, <1>4, <1>6, <1>7, <1>8, <1>9, CreateSpace
<1>11. /\ Mem(P, n, sp1, nd1, K, {}) /\ Kern(n.table, sp1, K, hp)
       /\ n.table[KPD] = m.table[KPD] /\ n.data = m.data
       /\ \A t \in Procs : \A k \in Places : nd1[t][k] = IF t = f /\ k = 1 THEN n.at ELSE nd[t][k]
       /\ \A t \in Procs : sp[t] # None /\ Bits(m.table, sp[t]) => Bits(n.table, sp[t])
       /\ n.at # None => Bits(n.table, n.at)
  BY <1>8, <1>10 DEF Created
<1>12. \A k \in Leaves : nd1[f][k] = None /\ nd[f][k] = None
  <2>1. \A k \in Places : nd[f][k] = None
    BY <1>6, <1>8, NoRoot DEF Mem, World
  <2>2. QED
    BY <1>7, <1>11, <2>1
<1>13. \A t \in Procs : sp1[t] = IF t = f THEN n.at ELSE sp[t]
  BY <1>7, <1>9
<1>14. CASE n.at = None
  <2>1. q = n
    BY <1>2, <1>14
  <2>2. a = None /\ g = NoContents /\ sp2 = sp1
    BY <1>3, <1>9, <1>14, <2>1
  <2>3. HoldsOne(nd1[f], q.data, g)
    BY <1>12, <2>2, NoContentsHolds
  <2>4. OthersKept(nd, nd1, m.data, q.data, f)
    BY <1>7, <1>11, <2>1 DEF OthersKept
  <2>5. State(P, b, q, c, sp2, md2, ct2, hp, nd1, K)
    <3>1. Forked(P, m, q, sp, sp2, nd, nd1, K, hp, f, a, g)
      BY <1>11, <2>1, <2>2, <2>3, <2>4 DEF Forked
    <3>2. QED
      BY <1>1, <1>a, <3>1, ForkDone
  <2>6. QED
    BY <1>4, <1>5, <2>5, Goes
<1>15. CASE n.at # None
  <2>1. Copies(P, n, sp1, nd1, s, f, K)
    BY <1>4, <1>8, <1>11, <1>12, <1>13, <1>15 DEF Copies
  <2>2. r = copy_user_pages(n, sp1[s], sp1[f])
    BY <1>2, <1>8, <1>13
  <2>3. PICK nd2 : Copying(P, n, r, sp1, nd1, nd2, s, f, 8, K)
    BY <2>1, <2>2, CopyPages
  <2>4. /\ Mem(P, r, sp1, nd2, K, {}) /\ KernSame(K, sp1, n.table, r.table)
        /\ \A t \in Procs : \A p \in Places : t # f => nd2[t][p] = nd1[t][p]
        /\ \A t \in Procs : \A p \in Places : t # f /\ nd1[t][p] # None => r.data[nd1[t][p]] = n.data[nd1[t][p]]
    BY <2>3 DEF Copying
  <2>5. /\ Kern(r.table, sp1, K, hp) /\ r.table[KPD] = m.table[KPD]
        /\ \A t \in Procs : sp1[t] # None /\ Bits(n.table, sp1[t]) => Bits(r.table, sp1[t])
    <3>1. /\ Kern(r.table, sp1, K, hp) /\ r.table[KPD] = n.table[KPD]
          /\ \A t \in Procs : sp1[t] # None /\ Bits(n.table, sp1[t]) => Bits(r.table, sp1[t])
      BY <1>7, <1>11, <2>4, KernKept
    <3>2. QED
      BY <1>11, <3>1
  <2>6. /\ \A t \in Procs : sp[t] # None /\ Bits(m.table, sp[t]) => Bits(r.table, sp[t])
        /\ Bits(r.table, n.at)
    BY <1>8, <1>11, <1>13, <1>15, <2>5
  <2>7. OthersKept(nd, nd2, m.data, r.data, f)
    <3>1. SUFFICES ASSUME NEW t \in Procs, NEW k \in Leaves, t # f
                   PROVE  nd2[t][k] = nd[t][k] /\ (nd[t][k] # None => r.data[nd[t][k]] = m.data[nd[t][k]])
      BY DEF OthersKept
    <3>2. k \in Places /\ nd1[t][k] = nd[t][k]
      BY <1>7, <1>11, <3>1
    <3>3. QED
      BY <1>11, <2>4, <3>1, <3>2
  <2>8. CASE r.at = None
    <3>1. PICK sp3 : sp3 = [sp1 EXCEPT ![f] = None]
      OBVIOUS
    <3>2. q = destroy_address_space(r, sp1[f]) /\ sp1[f] # None
      BY <1>2, <1>13, <1>15, <2>8
    <3>3. a = None /\ g = NoContents
      BY <1>3, <2>8
    <3>4. sp3 = sp2
      BY <1>3, <1>7, <1>9, <3>1, <3>3
    <3>5. PICK nd3 : Gone(P, r, q, sp3, nd2, nd3, f, K, hp)
      BY <1>4, <2>4, <2>5, <3>1, <3>2, GoneSpace
    <3>6. /\ Mem(P, q, sp2, nd3, K, {}) /\ Kern(q.table, sp2, K, hp) /\ q.table[KPD] = m.table[KPD]
          /\ OthersKept(nd2, nd3, r.data, q.data, f) /\ \A k \in Leaves : nd3[f][k] = None
          /\ \A t \in Procs : sp2[t] # None /\ Bits(r.table, sp2[t]) => Bits(q.table, sp2[t])
      BY <2>5, <3>4, <3>5 DEF Gone
    <3>7. OthersKept(nd, nd3, m.data, q.data, f)
      BY <2>7, <3>6 DEF OthersKept
    <3>8. HoldsOne(nd3[f], q.data, g)
      BY <3>3, <3>6, NoContentsHolds
    <3>9. \A t \in Procs : sp[t] # None /\ Bits(m.table, sp[t]) => Bits(q.table, sp[t])
      <4>1. \A t \in Procs : t # f => sp2[t] = sp[t]
        BY <1>3, <1>7
      <4>2. QED
        BY <1>8, <2>6, <3>6, <4>1
    <3>10. State(P, b, q, c, sp2, md2, ct2, hp, nd3, K)
      <4>1. Forked(P, m, q, sp, sp2, nd, nd3, K, hp, f, a, g)
        BY <3>3, <3>6, <3>7, <3>8, <3>9 DEF Forked
      <4>2. QED
        BY <1>1, <1>a, <4>1, ForkDone
    <3>11. QED
      BY <1>4, <1>5, <3>10, Goes
  <2>9. CASE r.at # None
    <3>1. q = r
      BY <1>2, <1>15, <2>9
    <3>2. /\ a = n.at /\ g = ct[s] /\ sp2 = sp1
      BY <1>3, <1>9, <1>15, <2>9
    <3>3. HoldsOne(nd2[f], q.data, g)
      <4>1. HoldsOne(nd[s], m.data, ct[s])
        BY <1>6 DEF Holds
      <4>2. \A p \in Leaves : IF nd1[s][p] = None THEN nd2[f][p] = None
                              ELSE nd2[f][p] # None /\ r.data[nd2[f][p]] = n.data[nd1[s][p]]
        <5>1. \A p \in Leaves : p <= 15 + 8
          BY DEF Leaves
        <5>2. QED
          BY <2>3, <2>9, <5>1 DEF Copying
      <4>3. \A p \in Leaves : nd1[s][p] = nd[s][p]
        BY <1>7, <1>8, <1>11
      <4>4. \A va \in UserPages : Key(va) \in Leaves
        BY UserKeys
      <4>5. QED
        BY <1>11, <3>1, <3>2, <4>1, <4>2, <4>3, <4>4 DEF HoldsOne
    <3>4. State(P, b, q, c, sp2, md2, ct2, hp, nd2, K)
      <4>1. Forked(P, m, q, sp, sp2, nd, nd2, K, hp, f, a, g)
        BY <2>4, <2>5, <2>6, <2>7, <3>1, <3>2, <3>3 DEF Forked
      <4>2. QED
        BY <1>1, <1>a, <4>1, ForkDone
    <3>5. QED
      BY <1>4, <1>5, <3>4, Goes
  <2>10. QED
    BY <2>8, <2>9
<1>16. QED
  BY <1>14, <1>15

-----------------------------------------------------------------------------
(* The initial state *)

LEMMA ManagedPages ==
    ASSUME NEW b \in Boots
    PROVE  /\ page_count(b) \in Nat /\ page_count(b) <= MAX_PAGES
           /\ 0 .. page_count(b) - 1 \subseteq 0 .. MAX_PAGES - 1
           /\ KernelPages \subseteq 0 .. page_count(b) - 1
           /\ KernelPages \subseteq initial_bitmap(b)
<1>1. page_count(b) \in Nat /\ KernelPages \subseteq Reserved(b) /\ KernelPages \subseteq 0 .. page_count(b) - 1
  BY VmmConstants
<1>2. page_count(b) <= MAX_PAGES
  <2>1. MAX_PAGES \in Nat
    BY PmmConstants
  <2>2. PICK t : t = total(b)
    OBVIOUS
  <2>3. page_count(b) = IF t > MAX_PAGES THEN MAX_PAGES ELSE t
    BY <2>2 DEF page_count
  <2>4. QED
    BY <1>1, <2>1, <2>3
<1>3. 0 .. page_count(b) - 1 \subseteq 0 .. MAX_PAGES - 1
  BY <1>1, <1>2, PmmConstants
<1>4. KernelPages \subseteq initial_bitmap(b)
  BY <1>1, <1>3 DEF initial_bitmap
<1>5. QED
  BY <1>1, <1>2, <1>3, <1>4

\* The kernel's tables, as the boot code leaves them.
BootTables(P, tab) ==
    /\ tab \in [P -> TableSet(P)]
    /\ tab[KPML4][1] = [page |-> KPDPT, user |-> FALSE] /\ tab[KPDPT][1] = [page |-> KPD, user |-> FALSE]
    /\ tab[KPD][0] = [page |-> KPT, user |-> FALSE] /\ tab[KPD][1] = None
    /\ tab[KPT][0] = [page |-> KUSER, user |-> FALSE]

LEMMA InitTables ==
    ASSUME Init, NEW P, P = Pages, KernelPages \subseteq P
    PROVE  BootTables(P, table)
<1>1. KPML4 \in P /\ KPDPT \in P /\ KPD \in P /\ KPT \in P /\ KUSER \in P /\ 1 \in P
  BY DEF KernelPages, KPML4
<1>2. ASSUME NEW i \in Index, NEW q \in P, NEW a, a = [Zeroed EXCEPT ![i] = [page |-> q, user |-> FALSE]]
      PROVE  /\ a \in TableSet(P) /\ a[i] = [page |-> q, user |-> FALSE]
             /\ \A j \in Index : j # i => a[j] = None
  BY <1>2 DEF Zeroed, TableSet
<1>3. Junk \in TableSet(P)
  BY <1>1 DEF Junk, TableSet
<1>4. 0 \in Index /\ 1 \in Index
  BY DEF Index
<1>5. PICK a1, a2, a3, a4 : /\ a1 = [Zeroed EXCEPT ![1] = [page |-> KPDPT, user |-> FALSE]]
                            /\ a2 = [Zeroed EXCEPT ![1] = [page |-> KPD, user |-> FALSE]]
                            /\ a3 = [Zeroed EXCEPT ![0] = [page |-> KPT, user |-> FALSE]]
                            /\ a4 = [Zeroed EXCEPT ![0] = [page |-> KUSER, user |-> FALSE]]
  OBVIOUS
<1>6. /\ a1 \in TableSet(P) /\ a2 \in TableSet(P) /\ a3 \in TableSet(P) /\ a4 \in TableSet(P)
      /\ a1[1] = [page |-> KPDPT, user |-> FALSE] /\ a2[1] = [page |-> KPD, user |-> FALSE]
      /\ a3[0] = [page |-> KPT, user |-> FALSE] /\ a3[1] = None
      /\ a4[0] = [page |-> KUSER, user |-> FALSE]
  <2>1. a1 \in TableSet(P) /\ a1[1] = [page |-> KPDPT, user |-> FALSE]
    BY <1>1, <1>2, <1>4, <1>5
  <2>2. a2 \in TableSet(P) /\ a2[1] = [page |-> KPD, user |-> FALSE]
    BY <1>1, <1>2, <1>4, <1>5
  <2>3. a3 \in TableSet(P) /\ a3[0] = [page |-> KPT, user |-> FALSE] /\ a3[1] = None
    <3>1. a3 \in TableSet(P) /\ a3[0] = [page |-> KPT, user |-> FALSE] /\ \A j \in Index : j # 0 => a3[j] = None
      BY <1>1, <1>4, <1>5 DEF Zeroed, TableSet
    <3>2. QED
      BY <1>4, <3>1
  <2>4. a4 \in TableSet(P) /\ a4[0] = [page |-> KUSER, user |-> FALSE]
    BY <1>1, <1>2, <1>4, <1>5
  <2>5. QED
    BY <2>1, <2>2, <2>3, <2>4
<1>7. table = [p \in P |-> CASE p = KPML4 -> a1 [] p = KPDPT -> a2 [] p = KPD -> a3
                             [] p = KPT -> a4 [] OTHER -> Junk]
  BY <1>5 DEF Init
<1>8. \A p \in P : table[p] \in TableSet(P)
  BY <1>3, <1>6, <1>7
<1>9. table[KPML4] = a1 /\ table[KPDPT] = a2 /\ table[KPD] = a3 /\ table[KPT] = a4
  BY <1>1, <1>7 DEF KPML4, KPDPT, KPD, KPT
<1>10. table \in [P -> TableSet(P)]
  BY <1>7, <1>8
<1>11. QED
  BY <1>6, <1>9, <1>10 DEF BootTables

LEMMA InitInv ==
    ASSUME Init
    PROVE  VmmInv
<1>1. PICK P, b, m, c, sp, md, ct, hp : Now(P, b, m, c, sp, md, ct, hp)
  BY DEF Now
<1>2. /\ P = Pages /\ boot \in Boots /\ b = boot /\ pages_ = page_count(b)
      /\ m.bitmap = initial_bitmap(b) /\ m.table = table /\ m.data = data /\ m = Memory
  BY <1>1 DEF Now, Memory, Init, PmmInit
<1>3. P = 0 .. page_count(b) - 1
  BY <1>2 DEF Pages
<1>4. /\ P \subseteq 0 .. MAX_PAGES - 1 /\ KernelPages \subseteq P /\ KernelPages \subseteq initial_bitmap(b)
  BY <1>2, <1>3, ManagedPages
<1>5. BootTables(P, m.table)
  BY <1>2, <1>4, InitTables
<1>6. /\ sp = [s \in Procs |-> None] /\ md = [s \in Procs |-> "none"] /\ hp = <<>>
      /\ ct = [s \in Procs |-> NoContents] /\ c = KPML4 /\ m.data = [p \in P |-> 0]
  BY <1>1, <1>2 DEF Now, Init
<1>7. PICK nd, K : nd = [s \in Procs |-> [n \in Places |-> None]] /\ K = KernelOf(P, b, m.table, hp)
  OBVIOUS
<1>8. None \notin P
  BY <1>4, NoneIsNone
<1>9. K = initial_bitmap(b) \cap P
  <2>1. Entries(m.table, KPD, {1}) = {}
    BY <1>5 DEF BootTables, Entries, Present
  <2>2. {hp[k].page : k \in DOMAIN hp} = {}
    BY <1>6
  <2>3. QED
    BY <1>7, <2>1, <2>2 DEF KernelOf
<1>10. Sizes(P, m.bitmap, m.table)
  <2>1. initial_bitmap(b) \subseteq 0 .. MAX_PAGES - 1
    BY DEF initial_bitmap
  <2>2. QED
    BY <1>2, <1>4, <1>5, <2>1 DEF Sizes, BootTables
<1>11. Tree(P, m.table, sp, nd)
  <2>1. 1 \in Places /\ \A n, i : Slot(n, i) => n \in Places /\ 2 * n + i \in Places
    BY SlotPlaces DEF Places, Inner
  <2>2. QED
    BY <1>6, <1>7, <2>1 DEF Tree
<1>12. Once(P, m.bitmap, nd, K, {})
  <2>1. \A s \in Procs : \A n \in Places : nd[s][n] = None
    BY <1>7
  <2>2. QED
    BY <1>2, <1>4, <1>8, <1>9, <2>1 DEF Once
<1>13. Mem(P, m, sp, nd, K, {})
  <2>1. IsMemory(P, m)
    <3>1. m = [bitmap |-> bitmap, table |-> table, data |-> data, at |-> None]
      BY <1>2 DEF Memory
    <3>2. /\ m.bitmap \in SUBSET (0 .. MAX_PAGES - 1) /\ m.table \in [P -> TableSet(P)]
          /\ m.data \in [P -> Values]
      <4>1. m.data \in [P -> Values]
        BY <1>6, VmmConstants
      <4>2. QED
        BY <1>10, <4>1 DEF Sizes
    <3>3. QED
      BY <3>1, <3>2 DEF IsMemory
  <2>2. QED
    BY <1>10, <1>11, <1>12, <2>1 DEF Mem, World
<1>14. Kern(m.table, sp, K, hp)
  <2>1. ASSUME NEW q \in P
        PROVE  To([page |-> q, user |-> FALSE], q)
    <3>1. [page |-> q, user |-> FALSE] # None
      BY <1>4, NoneIsNone
    <3>2. QED
      BY <3>1 DEF To, Present
  <2>2. KPDPT \in P /\ KPD \in P /\ KPT \in P /\ KUSER \in P
    BY <1>4 DEF KernelPages
  <2>3. /\ To(m.table[KPML4][1], KPDPT) /\ To(m.table[KPDPT][1], KPD)
        /\ To(m.table[KPD][0], KPT) /\ To(m.table[KPT][0], KUSER)
    BY <1>5, <2>1, <2>2 DEF BootTables
  <2>4. ~ Present(m.table[KPD][1])
    BY <1>5 DEF BootTables, Present
  <2>5. DOMAIN hp = {} /\ \A s \in Procs : sp[s] = None
    BY <1>6
  <2>6. QED
    BY <2>3, <2>4, <2>5 DEF Kern
<1>15. Modes(m.table, sp, md)
  BY <1>6 DEF Modes
<1>16. Holds(nd, m.data, ct)
  <2>1. \A s \in Procs : \A k \in Leaves : nd[s][k] = None
    BY <1>7 DEF Places
  <2>2. ASSUME NEW s \in Procs
        PROVE  HoldsOne(nd[s], m.data, ct[s])
    BY <1>6, <2>1, NoContentsHolds
  <2>3. QED
    BY <1>6, <2>2 DEF Holds
<1>17. Loaded(sp, c) /\ HeapIs(P, hp)
  <2>1. 0 <= HeapPages
    BY VmmConstants
  <2>2. QED
    BY <1>6, <2>1 DEF Loaded, HeapIs
<1>18. State(P, b, m, c, sp, md, ct, hp, nd, K)
  BY <1>7, <1>13, <1>14, <1>15, <1>16, <1>17 DEF State
<1>19. QED
  BY <1>1, <1>2, <1>18 DEF VmmInv, Now

-----------------------------------------------------------------------------
(* The theorems *)

\* Every action keeps the trees: an address space is made, grows, is copied and is given back
\* without a page getting lost or into two trees, whatever fails on the way.
THEOREM SpacesInvariant == Spec => []VmmInv
<1>1. Init => VmmInv
  BY InitInv
<1>2. VmmInv /\ [Next]_vars => VmmInv'
  <2>1. SUFFICES ASSUME VmmInv, [Next]_vars
                 PROVE  VmmInv'
    OBVIOUS
  <2>2. CASE UNCHANGED vars
    <3>1. /\ UNCHANGED <<boot, pages_, bitmap, table, data>>
          /\ UNCHANGED <<current, pml4, mode, contents, heap>>
      BY <2>2 DEF vars, pmmVars, pmmFixed
    <3>2. Pages' = Pages /\ Memory' = Memory
      BY <3>1 DEF Pages, Memory
    <3>3. QED
      BY <2>1, <3>1, <3>2 DEF VmmInv
  <2>3. CASE heap_grow
    BY <2>1, <2>3, HeapStep
  <2>4. CASE \E s \in Procs : create(s) \/ switch_address_space(s) \/ enter_user(s) \/ reap(s)
    BY <2>1, <2>4, CreateStep, SwitchStep, EnterStep, ReapStep
  <2>5. CASE \E s \in Procs : \E va \in Mappable : map_more(s, va)
    BY <2>1, <2>5, MapMoreStep
  <2>6. CASE \E s \in Procs : \E va \in DOMAIN contents[s], v \in Values : user_write(s, va, v)
    BY <2>1, <2>6, WriteStep
  <2>7. CASE \E s \in Procs : \E f \in Procs : fork(s, f)
    BY <2>1, <2>7, ForkStep
  <2>8. QED
    BY <2>1, <2>2, <2>3, <2>4, <2>5, <2>6, <2>7 DEF Next
<1>3. QED
  BY <1>1, <1>2, PTL DEF Spec

\* What a process owns is what is in its tree.
LEMMA OwnedIsTree ==
    ASSUME NEW P, NEW b, NEW m, NEW c, NEW sp, NEW md, NEW ct, NEW hp, NEW nd, NEW K,
           Now(P, b, m, c, sp, md, ct, hp), State(P, b, m, c, sp, md, ct, hp, nd, K),
           NEW s \in Live
    PROVE  s \in Procs /\ sp[s] # None /\ Owned(s) = At(nd, s, Places)
<1>1. table = m.table /\ pml4 = sp /\ mode = md
  BY DEF Now, Memory
<1>2. s \in Procs /\ sp[s] # None
  BY <1>1 DEF Live, State, Modes
<1>3. Tree(P, m.table, sp, nd) /\ Numbers(P)
  BY CurrentSpace DEF State, Mem, World
<1>4. /\ PDPTs(m.table, sp[s]) = At(nd, s, {2}) /\ PDs(m.table, sp[s]) = At(nd, s, {4, 5})
      /\ PTs(m.table, sp[s]) = At(nd, s, 8 .. 11)
      /\ Children(m.table, PTs(m.table, sp[s])) = At(nd, s, Leaves)
      /\ At(nd, s, Places) = {sp[s]} \cup At(nd, s, {2}) \cup At(nd, s, {4, 5})
                             \cup At(nd, s, 8 .. 11) \cup At(nd, s, Leaves)
  BY <1>2, <1>3, SpacePages
<1>5. Owned(s) = At(nd, s, Places)
  BY <1>1, <1>4 DEF Owned, Table
<1>6. QED
  BY <1>2, <1>5

LEMMA AccountedNow ==
    ASSUME VmmInv
    PROVE  PagesAccounted
<1>1. PICK P, b, m, c, sp, md, ct, hp, nd, K :
        Now(P, b, m, c, sp, md, ct, hp) /\ State(P, b, m, c, sp, md, ct, hp, nd, K)
  BY Start
<1>2. /\ P = Pages /\ b = boot /\ m.bitmap = bitmap /\ m.table = table /\ m.data = data /\ c = current
      /\ sp = pml4 /\ md = mode /\ ct = contents /\ hp = heap
  BY <1>1 DEF Now, Memory
<1>3. /\ Mem(P, m, sp, nd, K, {}) /\ Kern(m.table, sp, K, hp) /\ K = KernelOf(P, b, m.table, hp)
      /\ Modes(m.table, sp, md) /\ Holds(nd, m.data, ct) /\ Loaded(sp, c) /\ HeapIs(P, hp)
  BY <1>1 DEF State
<1>4. c \in P /\ sp \in [Procs -> P \cup {None}] /\ K \subseteq P /\ Numbers(P)
      /\ nd \in [Procs -> [Places -> P \cup {None}]]
  BY <1>1, CurrentSpace
<1>5. TypeOK
  <2>1. bitmap \subseteq 0 .. MAX_PAGES - 1 /\ data \in [Pages -> Values]
    BY <1>2, <1>3 DEF Mem, IsMemory
  <2>2. \A p \in Pages, i \in Index :
          Present(table[p][i]) => table[p][i] \in [page : Pages, user : BOOLEAN]
    <3>1. m.table \in [P -> TableSet(P)]
      BY <1>3 DEF Mem, IsMemory
    <3>2. \A p \in P, i \in Index : m.table[p][i] \in [page : P, user : BOOLEAN] \cup {None}
      BY <3>1 DEF TableSet
    <3>3. QED
      BY <1>2, <3>2 DEF Present
  <2>3. mode \in [Procs -> {"none", "kernel", "user", "failed"}]
    BY <1>2, <1>3 DEF Modes
  <2>4. \A s \in Procs : /\ DOMAIN contents[s] \subseteq UserPages
                         /\ \A va \in DOMAIN contents[s] : contents[s][va] \in Values
    BY <1>2, <1>3 DEF Holds, HoldsOne
  <2>5. heap \in Seq([page : Pages, mapped : BOOLEAN])
    BY <1>2, <1>3 DEF HeapIs
  <2>6. current \in Pages /\ pml4 \in [Procs -> Pages \cup {None}]
    BY <1>2, <1>4
  <2>7. QED
    BY <2>1, <2>2, <2>3, <2>4, <2>5, <2>6 DEF TypeOK
<1>6. \A s \in Live : s \in Procs /\ sp[s] # None /\ Owned(s) = At(nd, s, Places)
  BY <1>1, OwnedIsTree
<1>7. /\ \A s, t \in Procs : \A n, k \in Places :
            nd[s][n] = nd[t][k] /\ nd[s][n] # None => s = t /\ n = k
      /\ \A s \in Procs : \A n \in Places : nd[s][n] \notin K
      /\ \A x \in P : x \in m.bitmap <=> x \in K \/ \E s \in Procs : \E n \in Places : nd[s][n] = x
  BY <1>3 DEF Mem, World, Once
<1>8. OwnedOnce
  <2>1. SUFFICES ASSUME NEW s \in Live, NEW t \in Live, s # t, NEW x, x \in Owned(s), x \in Owned(t)
                 PROVE  FALSE
    BY DEF OwnedOnce
  <2>2. /\ x # None /\ s \in Procs /\ t \in Procs
        /\ (\E n \in Places : nd[s][n] = x) /\ \E n \in Places : nd[t][n] = x
    BY <1>6, <2>1 DEF At
  <2>3. QED
    BY <1>7, <2>1, <2>2
<1>9. K = Kernel
  <2>1. AtBoot[boot] = initial_bitmap(boot)
    BY DEF VmmInv, AtBoot
  <2>2. QED
    BY <1>2, <1>3, <2>1 DEF KernelOf, Kernel, HeapTable
<1>10. PICK O : O = UNION {Owned(s) : s \in Live}
  OBVIOUS
<1>11. \A x : x \in O <=> x # None /\ \E s \in Procs : \E n \in Places : nd[s][n] = x
  <2>1. SUFFICES ASSUME NEW x
                 PROVE  x \in O <=> x # None /\ \E s \in Procs : \E n \in Places : nd[s][n] = x
    OBVIOUS
  <2>2. x \in O <=> \E s \in Live : x \in Owned(s)
    BY <1>10
  <2>3. \A s \in Live : s \in Procs /\ (x \in Owned(s) <=> x # None /\ \E n \in Places : nd[s][n] = x)
    BY <1>6 DEF At
  <2>4. ASSUME NEW s \in Procs, NEW n \in Places, nd[s][n] = x, x # None
        PROVE  s \in Live
    <3>1. sp[s] # None
      <4>1. Tree(P, m.table, sp, nd)
        BY <1>3 DEF Mem, World
      <4>2. QED
        BY <2>4, <4>1, NoRoot
    <3>2. QED
      BY <1>2, <1>3, <3>1 DEF Live, Modes
  <2>5. QED
    BY <2>2, <2>3, <2>4
<1>12. K \cap O = {}
  BY <1>7, <1>11
<1>13. None \notin P
  <2>1. P \subseteq 0 .. MAX_PAGES - 1
    BY <1>4 DEF Numbers
  <2>2. QED
    BY <2>1, NoneIsNone
<1>14. m.bitmap \cap P = K \cup O
  <2>1. \A x \in O : x \in P
    BY <1>4, <1>11
  <2>2. QED
    BY <1>4, <1>7, <1>11, <1>13, <2>1
<1>15. Kernel \cap O = {} /\ bitmap \cap Pages = Kernel \cup O
  BY <1>2, <1>9, <1>12, <1>14
<1>16. QED
  BY <1>5, <1>8, <1>10, <1>15 DEF PagesAccounted

LEMMA IsolatedNow ==
    ASSUME VmmInv
    PROVE  Isolated
<1>1. PICK P, b, m, c, sp, md, ct, hp, nd, K :
        Now(P, b, m, c, sp, md, ct, hp) /\ State(P, b, m, c, sp, md, ct, hp, nd, K)
  BY Start
<1>2. m.table = table /\ m.data = data /\ sp = pml4 /\ md = mode /\ ct = contents
  BY <1>1 DEF Now, Memory
<1>3. Tree(P, m.table, sp, nd) /\ Numbers(P) /\ Modes(m.table, sp, md) /\ Holds(nd, m.data, ct)
  BY <1>1, CurrentSpace DEF State, Mem, World
<1>4. SUFFICES ASSUME NEW s \in Live, NEW va \in UserPages, NEW p,
                      p = virtual_to_physical(table, pml4[s], va)
               PROVE  IF va \in DOMAIN contents[s] THEN p # None /\ data[p] = contents[s][va] ELSE p = None
  BY DEF Isolated
<1>5. s \in Procs /\ sp[s] # None
  BY <1>2, <1>3 DEF Live, Modes
<1>6. p = nd[s][Key(va)]
  BY <1>2, <1>3, <1>4, <1>5, WalkUser
<1>7. HoldsOne(nd[s], m.data, ct[s])
  BY <1>3, <1>5 DEF Holds
<1>8. QED
  BY <1>2, <1>6, <1>7 DEF HoldsOne

LEMMA SharedNow ==
    ASSUME VmmInv
    PROVE  KernelShared
<1>1. PICK P, b, m, c, sp, md, ct, hp, nd, K :
        Now(P, b, m, c, sp, md, ct, hp) /\ State(P, b, m, c, sp, md, ct, hp, nd, K)
  BY Start
<1>2. m.table = table /\ sp = pml4 /\ md = mode /\ ct = contents /\ hp = heap
  BY <1>1 DEF Now, Memory
<1>3. /\ Tree(P, m.table, sp, nd) /\ Numbers(P) /\ Modes(m.table, sp, md) /\ Holds(nd, m.data, ct)
      /\ Kern(m.table, sp, K, hp)
  BY <1>1, CurrentSpace DEF State, Mem, World
<1>4. SUFFICES ASSUME NEW s \in Live
               PROVE  /\ \A k \in DOMAIN heap : heap[k].mapped =>
                            virtual_to_physical(table, pml4[s], HeapPage(k - 1)) = heap[k].page
                      /\ virtual_to_physical(table, pml4[s], UserCode) = KUSER
                      /\ mode[s] = "user" => \A va \in {UserCode} \cup DOMAIN contents[s] :
                            \A k \in 1 .. 4 : Walk(table, pml4[s], va)[k].user
  BY DEF KernelShared
<1>5. s \in Procs /\ sp[s] # None
  BY <1>2, <1>3 DEF Live, Modes
<1>6. To(m.table[sp[s]][1], KPDPT)
  BY <1>3, <1>5 DEF Kern
<1>7. /\ Walk(m.table, sp[s], UserCode) = <<m.table[sp[s]][1], m.table[KPDPT][1], m.table[KPD][0], m.table[KPT][0]>>
      /\ virtual_to_physical(m.table, sp[s], UserCode) = KUSER
      /\ \A k \in DOMAIN hp : hp[k].mapped => virtual_to_physical(m.table, sp[s], HeapPage(k - 1)) = hp[k].page
  BY <1>3, <1>6, WalkKernel
<1>8. ASSUME md[s] = "user", NEW va \in {UserCode} \cup DOMAIN ct[s], NEW k \in 1 .. 4
      PROVE  Walk(m.table, sp[s], va)[k].user
  <2>1. CASE va = UserCode
    <3>1. Bits(m.table, sp[s])
      BY <1>3, <1>5, <1>8 DEF Modes
    <3>2. k = 1 \/ k = 2 \/ k = 3 \/ k = 4
      OBVIOUS
    <3>3. QED
      BY <1>7, <2>1, <3>1, <3>2 DEF Bits
  <2>2. CASE va \in DOMAIN ct[s]
    <3>1. va \in UserPages /\ nd[s][Key(va)] # None
      BY <1>3, <1>5, <2>2 DEF Holds, HoldsOne
    <3>2. /\ Walk(m.table, sp[s], va) = <<Leading(nd[s][2]), Leading(nd[s][4 + va[2]]),
                                          Leading(nd[s][8 + 2 * va[2] + va[3]]), Leading(nd[s][Key(va)])>>
          /\ nd[s][2] # None /\ nd[s][4 + va[2]] # None /\ nd[s][8 + 2 * va[2] + va[3]] # None
      BY <1>3, <1>5, <3>1, WalkUser
    <3>3. PICK q1, q2, q3, q4 : /\ q1 = nd[s][2] /\ q2 = nd[s][4 + va[2]]
                                /\ q3 = nd[s][8 + 2 * va[2] + va[3]] /\ q4 = nd[s][Key(va)]
      OBVIOUS
    <3>4. Walk(m.table, sp[s], va) = <<Leading(q1), Leading(q2), Leading(q3), Leading(q4)>>
          /\ q1 # None /\ q2 # None /\ q3 # None /\ q4 # None
      BY <3>1, <3>2, <3>3
    <3>5. Leading(q1).user /\ Leading(q2).user /\ Leading(q3).user /\ Leading(q4).user
      BY <3>4 DEF Leading
    <3>6. k = 1 \/ k = 2 \/ k = 3 \/ k = 4
      OBVIOUS
    <3>7. QED
      BY <3>4, <3>5, <3>6
  <2>3. QED
    BY <1>8, <2>1, <2>2
<1>9. QED
  BY <1>2, <1>7, <1>8

\* get_or_create_table(), copy_user_pages() and destroy_address_space(): for every memory map,
\* any number of processes and whatever allocation fails, a page that is marked used has exactly
\* one owner, a process or the kernel, and every owned page is marked used.
THEOREM PagesAreAccounted == Spec => []PagesAccounted
  BY SpacesInvariant, AccountedNow, PTL

\* copy_user_pages(): a process finds in its pages what it has stored there or inherited at
\* fork(), and nowhere a page that it was not given.
THEOREM SpacesAreIsolated == Spec => []Isolated
  BY SpacesInvariant, IsolatedNow, PTL

\* create_address_space() and map_page(): every space has the whole kernel half, also what the
\* heap maps after the space was made, and ring 3 reaches its code and pages through entries
\* that all have the User bit.
THEOREM KernelIsShared == Spec => []KernelShared
  BY SpacesInvariant, SharedNow, PTL
=============================================================================
