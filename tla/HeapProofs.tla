----------------------------- MODULE HeapProofs -----------------------------
(***************************************************************************)
(* Proofs about the kernel heap and the physical memory manager: which     *)
(* pages are handed out, that each has one owner, and the list of blocks.  *)
(***************************************************************************)
EXTENDS Heap, NaturalsInduction, WellFoundedInduction, TLAPS

-----------------------------------------------------------------------------
(* Numbers *)

LEMMA FirstIsIn ==
    ASSUME NEW S, S \subseteq Nat, S # {}
    PROVE  Min(S) \in S /\ \A y \in S : Min(S) <= y
<1> DEFINE Less == OpToRel(<, Nat)
<1>1. PICK x \in S : \A y \in S : ~ (<<y, x>> \in Less)
  BY NatLessThanWellFounded, WFMin
<1>2. \A y \in S : x <= y
  <2>1. SUFFICES ASSUME NEW y \in S, ~ (x <= y)
                 PROVE  FALSE
    OBVIOUS
  <2>2. <<y, x>> \in Less
    BY <2>1 DEF OpToRel
  <2>3. QED
    BY <1>1, <2>2
<1>3. QED
  BY <1>2 DEF Min

LEMMA Naturals ==
    /\ PAGE_SIZE \in Nat /\ PAGE_SIZE > 0 /\ MAX_PAGES \in Nat /\ ALIGN \in Nat /\ ALIGN > 0
    /\ HEADER \in Nat /\ HEADER > 0 /\ MIN_SPLIT_SIZE \in Nat /\ PAGE_SIZE > HEADER
    /\ VIRT_END \in Nat /\ PagesPerTable \in Nat /\ PagesPerTable > 0
    /\ Sizes \subseteq Nat \ {0} /\ HEADER % ALIGN = 0 /\ PAGE_SIZE % ALIGN = 0
BY PmmConstants, HeapConstants

LEMMA BootFacts ==
    ASSUME NEW b \in Boots
    PROVE  /\ b.kernel_end \in Nat /\ b.info_start \in Nat /\ b.info_end \in Nat
           /\ DOMAIN b.map \subseteq Nat
           /\ \A k \in DOMAIN b.map : b.map[k].base \in Nat /\ b.map[k].length \in Nat
           /\ Usable(b) # {}
<1>1. b.map \in Seq([base : Nat, length : Nat, available : BOOLEAN])
  BY PmmConstants
<1>2. DOMAIN b.map \subseteq Nat
  <2>1. DOMAIN b.map = 1 .. Len(b.map) /\ Len(b.map) \in Nat
    BY <1>1
  <2>2. QED
    BY <2>1
<1>3. \A k \in DOMAIN b.map : b.map[k] \in [base : Nat, length : Nat, available : BOOLEAN]
  <2>1. ASSUME NEW S, NEW s \in Seq(S), NEW k \in DOMAIN s
        PROVE  s[k] \in S
    OBVIOUS
  <2>2. QED
    BY <1>1, <2>1
<1>4. \A k \in DOMAIN b.map : b.map[k].base \in Nat /\ b.map[k].length \in Nat
  BY <1>3
<1>5. b.kernel_end \in Nat /\ b.info_start \in Nat /\ b.info_end \in Nat
  BY PmmConstants
<1>6. QED
  BY <1>2, <1>4, <1>5, SomeMemory

LEMMA Quotient ==
    ASSUME NEW n \in Nat, NEW k \in Nat, k > 0
    PROVE  n \div k \in Nat /\ n % k = n - k * (n \div k) /\ n % k \in 0 .. k - 1
<1>1. n \div k \in Nat
  OBVIOUS
<1>2. n % k = n - k * (n \div k)
  OBVIOUS
<1>3. n % k \in 0 .. k - 1
  OBVIOUS
<1>4. QED
  BY <1>1, <1>2, <1>3

\* The order of multiples.
LEMMA TimesLess ==
    ASSUME NEW k \in Nat, k > 0, NEW p \in Int, NEW q \in Int
    PROVE  /\ k * p < k * q => p < q
           /\ p < q => k * p + k <= k * q
           /\ p <= q => k * p <= k * q
           /\ k * p = k * q => p = q
<1>1. \A e \in Nat : k * e \in Nat
  OBVIOUS
<1>2. ASSUME NEW x \in Int, NEW y \in Int, x <= y
      PROVE  k * x <= k * y
  <2>1. PICK e \in Nat : y = x + e
    BY <1>2
  <2>2. k * y = k * x + k * e
    BY <2>1
  <2>3. QED
    BY <1>1, <2>2
<1>3. ASSUME NEW x \in Int, NEW y \in Int, x < y
      PROVE  k * x + k <= k * y
  <2>1. k * (x + 1) <= k * y
    BY <1>2, <1>3
  <2>2. k * (x + 1) = k * x + k
    OBVIOUS
  <2>3. QED
    BY <2>1, <2>2
<1>4. p >= q => k * p >= k * q
  BY <1>2
<1>5. p > q => k * p >= k * q + k
  BY <1>3
<1>6. p < q => k * q >= k * p + k
  BY <1>3
<1>7. p <= q => k * p <= k * q
  BY <1>2
<1>8. k * p \in Int /\ k * q \in Int
  OBVIOUS
<1>9. QED
  BY <1>4, <1>5, <1>6, <1>7, <1>8

LEMMA QuotientOrder ==
    ASSUME NEW m \in Nat, NEW n \in Nat, NEW k \in Nat, k > 0
    PROVE  /\ m <= n => m \div k <= n \div k
           /\ \A q \in Nat : (m \div k = q <=> k * q <= m /\ m < k * q + k)
<1>1. /\ m \div k \in Nat /\ m % k = m - k * (m \div k) /\ m % k \in 0 .. k - 1
      /\ n \div k \in Nat /\ n % k = n - k * (n \div k) /\ n % k \in 0 .. k - 1
  BY Quotient
<1>2. PICK p \in Nat, r \in Nat, x \in Int, y \in Int :
        /\ p = m \div k /\ r = n \div k /\ x = m % k /\ y = n % k
  BY <1>1
<1>3. m = k * p + x /\ n = k * r + y /\ 0 <= x /\ x < k /\ 0 <= y /\ y < k
  BY <1>1, <1>2
<1>4. m <= n => p <= r
  <2>1. r < p => k * r + k <= k * p
    BY TimesLess
  <2>2. k * r \in Nat /\ k * p \in Nat
    OBVIOUS
  <2>3. QED
    BY <1>3, <2>1, <2>2
<1>5. ASSUME NEW q \in Nat
      PROVE  p = q <=> k * q <= m /\ m < k * q + k
  <2>1. (q < p => k * q + k <= k * p) /\ (p < q => k * p + k <= k * q)
    BY TimesLess
  <2>2. k * q \in Nat /\ k * p \in Nat
    OBVIOUS
  <2>3. QED
    BY <1>3, <2>1, <2>2
<1>6. QED
  BY <1>2, <1>4, <1>5

-----------------------------------------------------------------------------
(* Pages of the memory map *)

LEMMA Rounded ==
    ASSUME NEW a \in Nat
    PROVE  /\ \E q \in Nat : RoundUp(a) = PAGE_SIZE * q /\ a <= PAGE_SIZE * q
                             /\ PAGE_SIZE * q < a + PAGE_SIZE
           /\ \E q \in Nat : RoundDown(a) = PAGE_SIZE * q /\ PAGE_SIZE * q <= a
<1>1. PICK P \in Nat : P = PAGE_SIZE /\ P > 0
  BY Naturals
<1>2. PICK m \in Nat : m = a + P - 1
  BY <1>1
<1>3. PICK q \in Nat : q = m \div P
  BY <1>1, Quotient
<1>4. P * q \in Nat /\ P * q <= m /\ m < P * q + P
  BY <1>1, <1>3, QuotientOrder
<1>5. PICK r \in Nat : r = a \div P
  BY <1>1, Quotient
<1>6. P * r \in Nat /\ P * r <= a
  BY <1>1, <1>5, QuotientOrder
<1>7. RoundUp(a) = P * q
  BY <1>1, <1>2, <1>3 DEF RoundUp
<1>8. RoundDown(a) = P * r
  BY <1>1, <1>5 DEF RoundDown
<1>9. a <= P * q /\ P * q < a + P
  BY <1>1, <1>2, <1>4
<1>10. QED
  BY <1>1, <1>6, <1>7, <1>8, <1>9

\* The base of the bitmap is the address of a page.
LEMMA FirstPage ==
    ASSUME NEW b \in Boots
    PROVE  \E c \in Nat : first_page(b) = PAGE_SIZE * c
<1>1. Min(Usable(b)) \in DOMAIN b.map
  <2>1. Usable(b) \subseteq DOMAIN b.map
    BY DEF Usable
  <2>2. QED
    BY <2>1, BootFacts, FirstIsIn
<1>2. b.map[Min(Usable(b))].base \in Nat
  BY <1>1, BootFacts
<1>3. PICK q \in Nat : RoundUp(b.map[Min(Usable(b))].base) = PAGE_SIZE * q
  BY <1>2, Rounded
<1>4. QED
  BY <1>3 DEF first_page, whole_pages

\* The page with index p of the bitmap, if it is one of the pages that start .. end - 1 touches.
LEMMA PageIndex ==
    ASSUME NEW b \in Boots, NEW c \in Nat, first_page(b) = PAGE_SIZE * c, NEW j \in Nat,
           PAGE_SIZE * j >= first_page(b)
    PROVE  /\ j >= c /\ address_to_page_index(b, PAGE_SIZE * j) = j - c
           /\ page_index_to_address(b, j - c) = PAGE_SIZE * j
<1>1. PICK P \in Nat : P = PAGE_SIZE /\ P > 0
  BY Naturals
<1>2. P * j \in Nat /\ P * c \in Nat /\ P * j >= P * c
  BY <1>1
<1>3. j >= c
  <2>1. j < c => P * j + P <= P * c
    BY <1>1, TimesLess
  <2>2. QED
    BY <1>1, <1>2, <2>1
<1>4. PICK d \in Nat : d = j - c
  BY <1>3
<1>5. P * j - P * c = P * d
  <2>1. j = c + d
    BY <1>4
  <2>2. P * (c + d) = P * c + P * d
    OBVIOUS
  <2>3. QED
    BY <1>2, <2>1, <2>2
<1>6. (P * d) \div P = d
  <2>1. P * d \in Nat
    OBVIOUS
  <2>2. QED
    BY <1>1, <2>1, QuotientOrder
<1>7. address_to_page_index(b, PAGE_SIZE * j) = d
  BY <1>1, <1>5, <1>6 DEF address_to_page_index
<1>8. page_index_to_address(b, d) = P * j
  <2>1. P * d \in Nat /\ d * P = P * d
    OBVIOUS
  <2>2. QED
    BY <1>1, <1>2, <1>5, <2>1 DEF page_index_to_address
<1>9. QED
  BY <1>1, <1>3, <1>4, <1>7, <1>8

\* A page that the constructor frees lies in an available region and behind the kernel.
LEMMA FreedPage ==
    ASSUME NEW b \in Boots, NEW c \in Nat, first_page(b) = PAGE_SIZE * c, NEW p \in Freed(b)
    PROVE  /\ p \in Nat
           /\ \E j \in Nat :
               /\ j >= c /\ p = j - c
               /\ page_index_to_address(b, p) = PAGE_SIZE * j /\ PAGE_SIZE * j >= b.kernel_end
               /\ \E k \in DOMAIN b.map :
                   /\ b.map[k].available
                   /\ b.map[k].base <= PAGE_SIZE * j
                   /\ PAGE_SIZE * j + PAGE_SIZE <= b.map[k].base + b.map[k].length
<1>1. PICK P \in Nat : P = PAGE_SIZE /\ P > 0
  BY Naturals
<1>2. PICK k, a :
        /\ k \in Usable(b)
        /\ a \in PageAddresses(whole_pages(b.map[k]).start, whole_pages(b.map[k]).end)
        /\ a >= b.kernel_end /\ a >= first_page(b) /\ p = address_to_page_index(b, a)
  BY DEF Freed
<1>3. k \in DOMAIN b.map /\ b.map[k].available
  BY <1>2 DEF Usable
<1>4. PICK x \in Nat, n \in Nat : x = b.map[k].base /\ n = b.map[k].length
  BY <1>3, BootFacts
<1>5. PICK s \in Nat : RoundUp(x) = P * s /\ x <= P * s
  BY <1>1, Rounded
<1>6. PICK e \in Nat : RoundDown(x + n) = P * e /\ P * e <= x + n
  <2>1. x + n \in Nat
    OBVIOUS
  <2>2. QED
    BY <1>1, <2>1, Rounded
<1>7. whole_pages(b.map[k]).start = P * s /\ whole_pages(b.map[k]).end = P * e
  BY <1>4, <1>5, <1>6 DEF whole_pages
<1>8. P * s \in Nat /\ P * e \in Nat /\ P * s < P * e
  BY <1>1, <1>2, <1>7 DEF Usable
<1>9. PICK j \in (P * s) \div P .. (P * e - 1) \div P : a = P * j
  BY <1>1, <1>2, <1>7 DEF PageAddresses
<1>10. (P * s) \div P = s
  BY <1>1, <1>8, QuotientOrder
<1>11. PICK y \in Nat, r \in Nat : y = P * e - 1 /\ r = y \div P
  BY <1>1, <1>8, Quotient
<1>12. P * r <= y
  BY <1>1, <1>11, QuotientOrder
<1>13. j \in Nat /\ s <= j /\ j <= r
  BY <1>9, <1>10, <1>11
<1>14. P * s <= P * j /\ P * j <= P * r
  BY <1>1, <1>13, TimesLess
<1>15. j < e
  <2>1. P * j \in Nat /\ P * r \in Nat
    BY <1>13
  <2>2. P * j < P * e
    BY <1>8, <1>11, <1>12, <1>14, <2>1
  <2>3. QED
    BY <1>1, <1>13, <2>2, TimesLess
<1>16. P * j + P <= P * e
  BY <1>1, <1>13, <1>15, TimesLess
<1>17. x <= P * j /\ P * j + P <= x + n
  BY <1>5, <1>6, <1>8, <1>13, <1>14, <1>16
<1>18. j >= c /\ p = j - c /\ page_index_to_address(b, p) = P * j
  BY <1>1, <1>2, <1>9, <1>13, PageIndex
<1>19. p \in Nat
  BY <1>13, <1>18
<1>20. QED
  BY <1>1, <1>2, <1>3, <1>4, <1>9, <1>13, <1>17, <1>18, <1>19

\* Sums of the first k members of g, as total_pages adds them up.
IsSum(f, g, N) == f = [k \in 0 .. N |-> IF k = 0 THEN 0 ELSE f[k - 1] + g[k]]

\* The loop over the memory map has a value.
LEMMA SumExists ==
    ASSUME NEW g, NEW N \in Nat
    PROVE  \E f : IsSum(f, g, N)
<1> DEFINE Bad == {m \in Nat : ~ \E f : IsSum(f, g, m)}
           Less == OpToRel(<, Nat)
<1>1. SUFFICES ASSUME Bad # {}
               PROVE  FALSE
  OBVIOUS
<1>2. PICK m \in Bad : \A y \in Bad : ~ (<<y, m>> \in Less)
  BY <1>1, NatLessThanWellFounded, WFMin
<1>3. m # 0
  <2>1. IsSum([k \in 0 .. 0 |-> 0], g, 0)
    <3>1. \A k \in 0 .. 0 : k = 0
      OBVIOUS
    <3>2. QED
      BY <3>1 DEF IsSum
  <2>2. QED
    BY <2>1
<1>4. m - 1 \in Nat /\ m - 1 \notin Bad
  <2>1. m - 1 \in Nat /\ <<m - 1, m>> \in Less
    BY <1>3 DEF OpToRel
  <2>2. QED
    BY <1>2, <2>1
<1>5. PICK f : IsSum(f, g, m - 1)
  BY <1>4
<1>6. PICK h : h = [k \in 0 .. m |-> IF k = m THEN f[m - 1] + g[m] ELSE f[k]]
  OBVIOUS
<1>7. \A k \in 0 .. m - 1 : f[k] = IF k = 0 THEN 0 ELSE f[k - 1] + g[k]
  BY <1>5 DEF IsSum
<1>8. ASSUME NEW k \in 0 .. m
      PROVE  h[k] = IF k = 0 THEN 0 ELSE h[k - 1] + g[k]
  <2>1. CASE k = m
    <3>1. h[m - 1] = f[m - 1] /\ h[m] = f[m - 1] + g[m]
      BY <1>3, <1>4, <1>6
    <3>2. QED
      BY <1>3, <2>1, <3>1
  <2>2. CASE k # m /\ k = 0
    BY <1>4, <1>6, <1>7, <2>2
  <2>3. CASE k # m /\ k # 0
    <3>1. k \in 0 .. m - 1 /\ k - 1 \in 0 .. m - 1 /\ k - 1 # m /\ k - 1 \in 0 .. m
      BY <1>4, <2>3
    <3>2. h[k] = f[k] /\ h[k - 1] = f[k - 1]
      BY <1>6, <2>3, <3>1
    <3>3. QED
      BY <1>7, <2>3, <3>1, <3>2
  <2>4. QED
    BY <2>1, <2>2, <2>3
<1>9. IsSum(h, g, m)
  <2>1. h = [k \in 0 .. m |-> h[k]]
    BY <1>6
  <2>2. QED
    BY <1>8, <2>1 DEF IsSum
<1>10. QED
  BY <1>9

LEMMA SumIsNatural ==
    ASSUME NEW N \in Nat, NEW g, \A k \in 1 .. N : g[k] \in Nat, NEW f, IsSum(f, g, N)
    PROVE  f[N] \in Nat
<1> DEFINE Bad == {m \in Nat : m <= N /\ f[m] \notin Nat}
           Less == OpToRel(<, Nat)
<1>0. \A k \in 0 .. N : f[k] = IF k = 0 THEN 0 ELSE f[k - 1] + g[k]
  BY DEF IsSum
<1>1. SUFFICES ASSUME Bad # {}
               PROVE  FALSE
  OBVIOUS
<1>2. PICK m \in Bad : \A y \in Bad : ~ (<<y, m>> \in Less)
  BY <1>1, NatLessThanWellFounded, WFMin
<1>3. m \in 0 .. N /\ m # 0
  BY <1>0
<1>4. m - 1 \in 0 .. N /\ m - 1 \notin Bad
  <2>1. m - 1 \in Nat /\ m - 1 \in 0 .. N /\ <<m - 1, m>> \in Less
    BY <1>3 DEF OpToRel
  <2>2. QED
    BY <1>2, <2>1
<1>5. f[m - 1] \in Nat /\ g[m] \in Nat
  BY <1>3, <1>4
<1>6. f[m] = f[m - 1] + g[m]
  BY <1>0, <1>3
<1>7. QED
  BY <1>5, <1>6

\* pages_ is a number of pages that the bitmap has room for.
LEMMA PageCount ==
    ASSUME NEW b \in Boots
    PROVE  page_count(b) \in 0 .. MAX_PAGES
<1> DEFINE size(k) == (whole_pages(b.map[k]).end - whole_pages(b.map[k]).start) \div PAGE_SIZE
           part(k) == IF k \in Usable(b) THEN size(k) ELSE 0
           n[k \in 0 .. Len(b.map)] == IF k = 0 THEN 0 ELSE n[k - 1] + IF k \in Usable(b) THEN size(k) ELSE 0
<1>0. PICK N \in Nat : N = Len(b.map)
  <2>1. b.map \in Seq([base : Nat, length : Nat, available : BOOLEAN])
    BY PmmConstants
  <2>2. QED
    BY <2>1
<1>1. total(b) = n[N]
  BY <1>0 DEF total
<1>2. ASSUME NEW k \in Usable(b)
      PROVE  size(k) \in Nat
  <2>1. k \in DOMAIN b.map /\ whole_pages(b.map[k]).start < whole_pages(b.map[k]).end
    BY DEF Usable
  <2>2. PICK x \in Nat, y \in Nat : x = b.map[k].base /\ y = b.map[k].length
    BY <2>1, BootFacts
  <2>3. x + y \in Nat
    OBVIOUS
  <2>4. PICK q \in Nat : RoundUp(x) = PAGE_SIZE * q
    BY Rounded
  <2>5. PICK r \in Nat : RoundDown(x + y) = PAGE_SIZE * r
    BY <2>3, Rounded
  <2>6. whole_pages(b.map[k]).start \in Nat /\ whole_pages(b.map[k]).end \in Nat
    <3>1. PAGE_SIZE * q \in Nat /\ PAGE_SIZE * r \in Nat
      BY Naturals
    <3>2. QED
      BY <2>2, <2>4, <2>5, <3>1 DEF whole_pages
  <2>7. PICK d \in Nat : d = whole_pages(b.map[k]).end - whole_pages(b.map[k]).start
    BY <2>1, <2>6
  <2>8. QED
    BY <2>7, Naturals, Quotient
<1>3. PICK g : g = [k \in 0 .. N |-> part(k)]
  OBVIOUS
<1>4. \A k \in 1 .. N : g[k] \in Nat
  <2>1. SUFFICES ASSUME NEW k \in 1 .. N
                 PROVE  g[k] \in Nat
    OBVIOUS
  <2>2. g[k] = part(k)
    BY <1>3
  <2>3. QED
    BY <1>2, <2>2
<1>5. PICK f : IsSum(f, g, N)
  BY SumExists
<1>6. f = [k \in 0 .. Len(b.map) |-> IF k = 0 THEN 0 ELSE f[k - 1] + IF k \in Usable(b) THEN size(k) ELSE 0]
  <2>1. \A k \in 0 .. N : f[k] = IF k = 0 THEN 0 ELSE f[k - 1] + g[k]
    BY <1>5 DEF IsSum
  <2>2. f = [k \in 0 .. N |-> f[k]]
    BY <1>5 DEF IsSum
  <2>3. \A k \in 0 .. N : g[k] = IF k \in Usable(b) THEN size(k) ELSE 0
    BY <1>3
  <2>4. \A k \in 0 .. N : f[k] = IF k = 0 THEN 0 ELSE f[k - 1] + IF k \in Usable(b) THEN size(k) ELSE 0
    BY <2>1, <2>3
  <2>5. f = [k \in 0 .. N |-> IF k = 0 THEN 0 ELSE f[k - 1] + IF k \in Usable(b) THEN size(k) ELSE 0]
    BY <2>2, <2>4, Zenon
  <2>6. QED
    BY <1>0, <2>5
<1>7. n = [k \in 0 .. Len(b.map) |-> IF k = 0 THEN 0 ELSE n[k - 1] + IF k \in Usable(b) THEN size(k) ELSE 0]
  BY <1>6, Zenon
<1> HIDE DEF n
<1>8. IsSum(n, g, N)
  <2>1. \A k \in 0 .. N : n[k] = IF k = 0 THEN 0 ELSE n[k - 1] + IF k \in Usable(b) THEN size(k) ELSE 0
    BY <1>0, <1>7
  <2>2. n = [k \in 0 .. N |-> n[k]]
    BY <1>0, <1>7
  <2>3. \A k \in 0 .. N : g[k] = IF k \in Usable(b) THEN size(k) ELSE 0
    BY <1>3
  <2>4. QED
    BY <2>1, <2>2, <2>3 DEF IsSum
<1>9. n[N] \in Nat
  BY <1>4, <1>8, SumIsNatural
<1>10. QED
  BY <1>1, <1>9, Naturals DEF page_count

\* What the constructor leaves free is usable.
LEMMA FreeIsUsable ==
    ASSUME NEW p, boot \in Boots, pages_ = page_count(boot), p \in free_pages(initial_bitmap(boot))
    PROVE  UsablePage(p)
<1>1. PICK P \in Nat : P = PAGE_SIZE /\ P > 0
  BY Naturals
<1>2. p \in Freed(boot) /\ p \notin Reserved(boot) /\ p \in 0 .. page_count(boot) - 1
  <2>1. p \in 0 .. page_count(boot) - 1 /\ p \notin initial_bitmap(boot)
    BY DEF free_pages, Pages
  <2>2. p \in 0 .. MAX_PAGES - 1
    BY <2>1, PageCount, Naturals
  <2>3. QED
    BY <2>1, <2>2 DEF initial_bitmap
<1>3. PICK c \in Nat : first_page(boot) = PAGE_SIZE * c
  BY FirstPage
<1>4. PICK j \in Nat :
        /\ j >= c /\ p = j - c
        /\ page_index_to_address(boot, p) = PAGE_SIZE * j /\ PAGE_SIZE * j >= boot.kernel_end
        /\ \E k \in DOMAIN boot.map :
            /\ boot.map[k].available
            /\ boot.map[k].base <= PAGE_SIZE * j
            /\ PAGE_SIZE * j + PAGE_SIZE <= boot.map[k].base + boot.map[k].length
  BY <1>2, <1>3, FreedPage
<1>5. PICK k \in DOMAIN boot.map :
        /\ boot.map[k].available
        /\ boot.map[k].base <= PAGE_SIZE * j
        /\ PAGE_SIZE * j + PAGE_SIZE <= boot.map[k].base + boot.map[k].length
  BY <1>4
<1>6. PICK a \in Nat : a = P * j /\ a = page_index_to_address(boot, p)
  BY <1>1, <1>4
<1>7. boot.map[k].base \in Nat /\ boot.map[k].length \in Nat /\ boot.kernel_end \in Nat
      /\ boot.info_start \in Nat /\ boot.info_end \in Nat
  BY BootFacts
<1>8. a .. a + P - 1 \subseteq boot.map[k].base .. boot.map[k].base + boot.map[k].length - 1
  BY <1>1, <1>5, <1>6, <1>7
<1>9. ASSUME NEW x \in a .. a + P - 1
      PROVE  x # 0
  <2>1. SUFFICES ASSUME a = 0
                 PROVE  FALSE
    OBVIOUS
  <2>2. j = 0
    <3>1. 0 < j => P * 0 + P <= P * j
      BY <1>1, TimesLess
    <3>2. QED
      BY <1>1, <1>6, <2>1, <3>1
  <2>3. c = 0 /\ p = 0
    BY <1>4, <2>2
  <2>4. first_page(boot) = 0
    BY <1>1, <1>3, <2>3
  <2>5. QED
    BY <1>2, <2>3, <2>4 DEF Reserved
<1>10. ASSUME NEW x \in a .. a + P - 1
       PROVE  x >= boot.kernel_end
  BY <1>1, <1>4, <1>6, <1>7
<1>11. ASSUME NEW x \in a .. a + P - 1, boot.info_start <= x, x < boot.info_end
       PROVE  FALSE
  <2>1. PICK s \in Nat, e \in Nat : s = boot.info_start /\ e = boot.info_end
    BY <1>7
  <2>2. x \in Nat /\ s <= x /\ x <= e - 1 /\ e - 1 \in Nat /\ e > s
    BY <1>11, <2>1
  <2>3. x \div P = j
    BY <1>1, <1>6, <2>2, QuotientOrder
  <2>4. s \div P <= j /\ j <= (e - 1) \div P /\ s \div P \in Nat /\ (e - 1) \div P \in Nat
    BY <1>1, <2>2, <2>3, QuotientOrder, Quotient
  <2>5. PAGE_SIZE * j \in PageAddresses(s, e)
    BY <1>1, <2>4 DEF PageAddresses
  <2>6. PAGE_SIZE * j >= first_page(boot)
    BY <1>1, <1>3, <1>4, TimesLess
  <2>7. address_to_page_index(boot, PAGE_SIZE * j) = p
    BY <1>3, <1>4, <2>6, PageIndex
  <2>8. p \in reserved(boot, s, e)
    BY <2>2, <2>5, <2>6, <2>7 DEF reserved
  <2>9. p < page_count(boot)
    BY <1>2, PageCount
  <2>10. QED
    BY <1>2, <2>1, <2>8, <2>9 DEF Reserved
<1>12. QED
  BY <1>1, <1>5, <1>6, <1>8, <1>9, <1>10, <1>11 DEF UsablePage

-----------------------------------------------------------------------------
(* The pages of the heap *)

\* Each page that the heap or the rest of the kernel holds has one owner, and those and the
\* free ones are usable.
MemOK(used, pages, tabs, oth) ==
    /\ used \subseteq 0 .. MAX_PAGES - 1
    /\ DOMAIN pages \subseteq VirtPages /\ DOMAIN tabs \subseteq VirtPages
    /\ \A va \in DOMAIN pages : pages[va] \in Pages /\ pages[va] \in used /\ pages[va] \notin oth
    /\ \A t \in DOMAIN tabs : tabs[t] \in Pages /\ tabs[t] \in used /\ tabs[t] \notin oth
    /\ \A va, wa \in DOMAIN pages : pages[va] = pages[wa] => va = wa
    /\ \A t, u \in DOMAIN tabs : tabs[t] = tabs[u] => t = u
    /\ \A va \in DOMAIN pages, t \in DOMAIN tabs : pages[va] # tabs[t]
    /\ oth \subseteq Pages /\ oth \subseteq used
    /\ \A va \in DOMAIN pages : UsablePage(pages[va])
    /\ \A t \in DOMAIN tabs : UsablePage(tabs[t])
    /\ \A p \in oth : UsablePage(p)
    /\ \A p \in Pages : p \notin used => UsablePage(p)

\* What sbrk() works on, while the rest of the kernel holds oth.
IsMemory(m, oth) ==
    /\ m = [bitmap |-> m.bitmap, mapped |-> m.mapped, tables |-> m.tables, ok |-> m.ok]
    /\ m.ok \in BOOLEAN
    /\ MemOK(m.bitmap, m.mapped, m.tables, oth)

\* The members of PhysicalMemoryManager that its constructor sets.
PmmOK == boot \in Boots /\ base_ = first_page(boot) /\ pages_ = page_count(boot)

\* What the scan of allocate() finds.
LEMMA Allocated ==
    ASSUME PmmOK, NEW used, can_allocate(used)
    PROVE  allocated(used) \in Pages /\ allocated(used) \notin used /\ allocated(used) \in 0 .. MAX_PAGES - 1
<1>1. pages_ \in 0 .. MAX_PAGES
  BY PageCount DEF PmmOK
<1>2. Pages \subseteq Nat /\ Pages \subseteq 0 .. MAX_PAGES - 1
  BY <1>1, Naturals DEF Pages
<1>3. free_pages(used) \subseteq Nat /\ free_pages(used) # {}
  BY <1>2 DEF free_pages, can_allocate
<1>4. Min(free_pages(used)) \in free_pages(used)
  BY <1>3, FirstIsIn
<1>5. QED
  BY <1>2, <1>4 DEF allocated, free_pages

LEMMA With ==
    ASSUME NEW f, NEW x, NEW v
    PROVE  /\ DOMAIN with(f, x, v) = DOMAIN f \cup {x}
           /\ with(f, x, v)[x] = v
           /\ \A y \in DOMAIN f : y # x => with(f, x, v)[y] = f[y]
BY DEF with

\* A page that nobody holds becomes a page of the heap; whatever was mapped at va before is lost.
LEMMA PageAdded ==
    ASSUME NEW used, NEW pages, NEW tabs, NEW oth, MemOK(used, pages, tabs, oth),
           NEW pa \in Pages, pa \notin used, pa \in 0 .. MAX_PAGES - 1, NEW va \in VirtPages
    PROVE  MemOK(used \cup {pa}, with(pages, va, pa), tabs, oth)
<1>1. PICK new : new = with(pages, va, pa)
  OBVIOUS
<1>2. /\ DOMAIN new = DOMAIN pages \cup {va} /\ new[va] = pa
      /\ \A y \in DOMAIN pages : y # va => new[y] = pages[y]
  BY <1>1 DEF with
<1>3. UsablePage(pa)
  BY DEF MemOK
<1> HIDE DEF VirtPages, UsablePage, Pages
<1>4. MemOK(used \cup {pa}, new, tabs, oth)
  BY <1>2, <1>3 DEF MemOK
<1>5. QED
  BY <1>1, <1>4

\* A page that nobody holds becomes a page table.
LEMMA TableAdded ==
    ASSUME NEW used, NEW pages, NEW tabs, NEW oth, MemOK(used, pages, tabs, oth),
           NEW pa \in Pages, pa \notin used, pa \in 0 .. MAX_PAGES - 1, NEW t \in VirtPages
    PROVE  MemOK(used \cup {pa}, pages, with(tabs, t, pa), oth)
<1>1. PICK new : new = with(tabs, t, pa)
  OBVIOUS
<1>2. /\ DOMAIN new = DOMAIN tabs \cup {t} /\ new[t] = pa
      /\ \A y \in DOMAIN tabs : y # t => new[y] = tabs[y]
  BY <1>1 DEF with
<1>3. UsablePage(pa)
  BY DEF MemOK
<1>4. MemOK(used \cup {pa}, pages, new, oth)
  BY <1>2, <1>3 DEF MemOK
<1>5. QED
  BY <1>1, <1>4

\* A page that is allocated and not mapped stays marked used.
LEMMA PageLost ==
    ASSUME NEW used, NEW pages, NEW tabs, NEW oth, MemOK(used, pages, tabs, oth),
           NEW pa \in 0 .. MAX_PAGES - 1
    PROVE  MemOK(used \cup {pa}, pages, tabs, oth)
BY DEF MemOK

LEMMA MemoryFields ==
    ASSUME NEW used, NEW pages, NEW tabs, NEW oth, MemOK(used, pages, tabs, oth), NEW r
    PROVE  /\ r = [bitmap |-> used, mapped |-> pages, tables |-> tabs, ok |-> TRUE]
                => IsMemory(r, oth) /\ r.mapped = pages /\ r.ok
           /\ r = [bitmap |-> used, mapped |-> pages, tables |-> tabs, ok |-> FALSE]
                => IsMemory(r, oth) /\ r.mapped = pages /\ ~ r.ok
<1>1. CASE r = [bitmap |-> used, mapped |-> pages, tables |-> tabs, ok |-> TRUE]
  <2>1. r.bitmap = used /\ r.mapped = pages /\ r.tables = tabs /\ r.ok = TRUE
    BY <1>1
  <2>2. QED
    BY <1>1, <2>1 DEF IsMemory
<1>2. CASE r = [bitmap |-> used, mapped |-> pages, tables |-> tabs, ok |-> FALSE]
  <2>1. r.bitmap = used /\ r.mapped = pages /\ r.tables = tabs /\ r.ok = FALSE
    BY <1>2
  <2>2. QED
    BY <1>2, <2>1 DEF IsMemory
<1>3. QED
  BY <1>1, <1>2

\* One round of the loop of sbrk().
LEMMA AddPage ==
    ASSUME PmmOK, NEW m, NEW oth, IsMemory(m, oth), NEW va \in VirtPages
    PROVE  /\ IsMemory(add_page(m, va), oth)
           /\ DOMAIN m.mapped \subseteq DOMAIN add_page(m, va).mapped
           /\ add_page(m, va).ok => m.ok /\ va \in DOMAIN add_page(m, va).mapped
<1>1. PICK used, pages, tabs, ok :
        /\ m = [bitmap |-> used, mapped |-> pages, tables |-> tabs, ok |-> ok]
        /\ MemOK(used, pages, tabs, oth) /\ ok \in BOOLEAN
  BY DEF IsMemory
<1>0. m.bitmap = used /\ m.mapped = pages /\ m.tables = tabs /\ m.ok = ok
  BY <1>1
<1> PICK r : r = add_page(m, va)
  OBVIOUS
<1>2. CASE ~ ok
  BY <1>1, <1>2 DEF add_page
<1>3. CASE ok /\ ~ can_allocate(used)
  <2>1. r = [bitmap |-> used, mapped |-> pages, tables |-> tabs, ok |-> FALSE]
    BY <1>1, <1>3 DEF add_page
  <2>2. QED
    <3>1. IsMemory(r, oth) /\ r.mapped = pages /\ ~ r.ok
      BY <1>1, <2>1, MemoryFields
    <3>2. QED
      BY <1>0, <3>1
<1>4. CASE ok /\ can_allocate(used)
  <2>1. PICK pa : pa = allocated(used)
    OBVIOUS
  <2>2. pa \in Pages /\ pa \notin used /\ pa \in 0 .. MAX_PAGES - 1
    BY <1>4, <2>1, Allocated
  <2>3. PICK t, all, new : t = va \div PagesPerTable /\ all = used \cup {pa} /\ new = with(pages, va, pa)
    OBVIOUS
  <2>4. t \in VirtPages
    <3>1. va \in Nat /\ t \in Nat /\ t <= va
      <4>1. va \in Nat
        BY DEF VirtPages
      <4>2. PICK K \in Nat : K = PagesPerTable /\ K > 0
        BY Naturals
      <4>3. t \in Nat /\ K * t <= va
        BY <2>3, <4>1, <4>2, Quotient, QuotientOrder
      <4>4. t <= K * t
        <5>1. 1 <= K => t * 1 <= t * K
          BY <4>2, <4>3, TimesLess
        <5>2. QED
          BY <4>2, <4>3, <5>1
      <4>5. QED
        BY <4>1, <4>2, <4>3, <4>4
    <3>2. VIRT_END \div PAGE_SIZE \in Nat
      BY Naturals, Quotient
    <3>3. QED
      BY <3>1, <3>2 DEF VirtPages
  <2>5. /\ DOMAIN new = DOMAIN pages \cup {va}
        /\ MemOK(all, new, tabs, oth) /\ MemOK(all, pages, tabs, oth)
    BY <1>1, <2>2, <2>3, PageAdded, PageLost, With
  <2>6. PICK n : n = [bitmap |-> all, mapped |-> pages, tables |-> tabs, ok |-> TRUE]
    OBVIOUS
  <2>7. r = map_page(n, va, pa)
    <3>1. ok = TRUE
      BY <1>1, <1>4
    <3>2. [m EXCEPT !.bitmap = m.bitmap \cup {pa}] = n
      <4>1. n = [bitmap |-> all, mapped |-> pages, tables |-> tabs, ok |-> ok]
        BY <2>6, <3>1
      <4>2. [m EXCEPT !.bitmap = all] = n
        BY <1>1, <4>1
      <4>3. m.bitmap \cup {pa} = all
        BY <1>0, <2>3
      <4>4. QED
        BY <4>2, <4>3
    <3>3. QED
      BY <1>0, <1>4, <2>1, <3>2 DEF add_page
  <2>8. CASE t \in DOMAIN tabs
    <3>1. map_page(n, va, pa) = [bitmap |-> all, mapped |-> new, tables |-> tabs, ok |-> TRUE]
      BY <2>3, <2>6, <2>8 DEF map_page
    <3>2. QED
      <4>1. IsMemory(r, oth) /\ r.mapped = new /\ r.ok
        BY <2>5, <2>7, <3>1, MemoryFields
      <4>2. QED
        BY <1>0, <1>4, <2>5, <4>1
  <2>9. CASE t \notin DOMAIN tabs /\ ~ can_allocate(all)
    <3>1. map_page(n, va, pa) = [bitmap |-> all, mapped |-> pages, tables |-> tabs, ok |-> FALSE]
      BY <2>3, <2>6, <2>9 DEF map_page
    <3>2. QED
      <4>1. IsMemory(r, oth) /\ r.mapped = pages /\ ~ r.ok
        BY <2>5, <2>7, <3>1, MemoryFields
      <4>2. QED
        BY <1>0, <1>4, <2>5, <4>1
  <2>10. CASE t \notin DOMAIN tabs /\ can_allocate(all)
    <3>1. PICK frame : frame = allocated(all)
      OBVIOUS
    <3>2. frame \in Pages /\ frame \notin all /\ frame \in 0 .. MAX_PAGES - 1
      BY <2>10, <3>1, Allocated
    <3>3. MemOK(all \cup {frame}, new, with(tabs, t, frame), oth)
      BY <2>4, <2>5, <3>2, TableAdded
    <3>4. map_page(n, va, pa) = [bitmap |-> all \cup {frame}, mapped |-> new,
                                 tables |-> with(tabs, t, frame), ok |-> TRUE]
      BY <2>3, <2>6, <2>10, <3>1 DEF map_page, Memory
    <3>5. QED
      <4>1. IsMemory(r, oth) /\ r.mapped = new /\ r.ok
        BY <2>7, <3>3, <3>4, MemoryFields
      <4>2. QED
        BY <1>0, <1>4, <2>5, <4>1
  <2>11. QED
    BY <2>8, <2>9, <2>10
<1>5. QED
  BY <1>1, <1>2, <1>3, <1>4

\* The loop of sbrk() from page first.
IsLoop(f, start, first, N) ==
    f = [k \in 0 .. N |-> IF k = 0 THEN start ELSE add_page(f[k - 1], first + k - 1)]

\* The loop has a value after every number of rounds.
LEMMA LoopExists ==
    ASSUME NEW start, NEW first, NEW N \in Nat
    PROVE  \E f : IsLoop(f, start, first, N)
<1> DEFINE Bad == {m \in Nat : ~ \E f : IsLoop(f, start, first, m)}
           Less == OpToRel(<, Nat)
<1>1. SUFFICES ASSUME Bad # {}
               PROVE  FALSE
  OBVIOUS
<1>2. PICK m \in Bad : \A y \in Bad : ~ (<<y, m>> \in Less)
  BY <1>1, NatLessThanWellFounded, WFMin
<1>3. m # 0
  <2>1. IsLoop([k \in 0 .. 0 |-> start], start, first, 0)
    <3>1. \A k \in 0 .. 0 : k = 0
      OBVIOUS
    <3>2. QED
      BY <3>1 DEF IsLoop
  <2>2. QED
    BY <2>1
<1>4. m - 1 \in Nat /\ m - 1 \notin Bad
  <2>1. m - 1 \in Nat /\ <<m - 1, m>> \in Less
    BY <1>3 DEF OpToRel
  <2>2. QED
    BY <1>2, <2>1
<1>5. PICK f : IsLoop(f, start, first, m - 1)
  BY <1>4
<1>6. PICK h : h = [k \in 0 .. m |-> IF k = m THEN add_page(f[m - 1], first + m - 1) ELSE f[k]]
  OBVIOUS
<1>7. \A k \in 0 .. m - 1 : f[k] = IF k = 0 THEN start ELSE add_page(f[k - 1], first + k - 1)
  BY <1>5 DEF IsLoop
<1>8. ASSUME NEW k \in 0 .. m
      PROVE  h[k] = IF k = 0 THEN start ELSE add_page(h[k - 1], first + k - 1)
  <2>1. CASE k = m
    <3>1. h[m - 1] = f[m - 1] /\ h[m] = add_page(f[m - 1], first + m - 1)
      BY <1>3, <1>4, <1>6
    <3>2. QED
      BY <1>3, <2>1, <3>1
  <2>2. CASE k # m /\ k = 0
    BY <1>4, <1>6, <1>7, <2>2
  <2>3. CASE k # m /\ k # 0
    <3>1. k \in 0 .. m - 1 /\ k - 1 \in 0 .. m - 1 /\ k - 1 # m /\ k - 1 \in 0 .. m
      BY <1>4, <2>3
    <3>2. h[k] = f[k] /\ h[k - 1] = f[k - 1]
      BY <1>6, <2>3, <3>1
    <3>3. QED
      BY <1>7, <2>3, <3>1, <3>2
  <2>4. QED
    BY <2>1, <2>2, <2>3
<1>9. IsLoop(h, start, first, m)
  <2>1. h = [k \in 0 .. m |-> h[k]]
    BY <1>6
  <2>2. QED
    BY <1>8, <2>1 DEF IsLoop
<1>10. QED
  BY <1>9

\* What the loop has done after n rounds.
LEMMA LoopKeeps ==
    ASSUME PmmOK, NEW oth, NEW start, IsMemory(start, oth), NEW first \in Nat, NEW N \in Nat,
           first + N <= VIRT_END \div PAGE_SIZE, NEW f, IsLoop(f, start, first, N)
    PROVE  /\ IsMemory(f[N], oth)
           /\ DOMAIN start.mapped \subseteq DOMAIN f[N].mapped
           /\ f[N].ok => \A va \in first .. first + N - 1 : va \in DOMAIN f[N].mapped
<1> DEFINE Good(m) == /\ IsMemory(f[m], oth)
                      /\ DOMAIN start.mapped \subseteq DOMAIN f[m].mapped
                      /\ f[m].ok => \A va \in first .. first + m - 1 : va \in DOMAIN f[m].mapped
           Bad == {m \in Nat : m <= N /\ ~ Good(m)}
           Less == OpToRel(<, Nat)
<1>0. \A k \in 0 .. N : f[k] = IF k = 0 THEN start ELSE add_page(f[k - 1], first + k - 1)
  BY DEF IsLoop
<1>1. SUFFICES ASSUME Bad # {}
               PROVE  FALSE
  OBVIOUS
<1>2. PICK m \in Bad : \A y \in Bad : ~ (<<y, m>> \in Less)
  BY <1>1, NatLessThanWellFounded, WFMin
<1>3. m # 0
  <2>1. f[0] = start /\ first .. first + 0 - 1 = {}
    BY <1>0
  <2>2. QED
    BY <2>1
<1>4. m \in 1 .. N /\ Good(m - 1)
  <2>1. m - 1 \in Nat /\ m - 1 <= N /\ <<m - 1, m>> \in Less
    BY <1>3 DEF OpToRel
  <2>2. m - 1 \notin Bad
    BY <1>2, <2>1
  <2>3. Good(m - 1)
    BY <2>1, <2>2
  <2>4. QED
    BY <1>3, <2>3
<1>5. PICK x, y, va : x = f[m - 1] /\ y = f[m] /\ va = first + m - 1
  OBVIOUS
<1>6. y = add_page(x, va)
  <2>1. m \in 0 .. N
    BY <1>4
  <2>2. QED
    BY <1>0, <1>3, <1>5, <2>1
<1>7. va \in VirtPages
  <2>1. VIRT_END \div PAGE_SIZE \in Nat
    BY Naturals, Quotient
  <2>2. QED
    BY <1>4, <1>5, <2>1 DEF VirtPages
<1>8. /\ IsMemory(x, oth) /\ DOMAIN start.mapped \subseteq DOMAIN x.mapped
      /\ x.ok => \A wa \in first .. first + (m - 1) - 1 : wa \in DOMAIN x.mapped
  BY <1>4, <1>5
<1>9. /\ IsMemory(y, oth) /\ DOMAIN x.mapped \subseteq DOMAIN y.mapped
      /\ y.ok => x.ok /\ va \in DOMAIN y.mapped
  BY <1>6, <1>7, <1>8, AddPage
<1>10. y.ok => \A wa \in first .. first + m - 1 : wa \in DOMAIN y.mapped
  <2>1. \A wa \in first .. first + m - 1 : wa = va \/ wa \in first .. first + (m - 1) - 1
    BY <1>4, <1>5
  <2>2. QED
    BY <1>8, <1>9, <2>1
<1>11. Good(m)
  BY <1>5, <1>8, <1>9, <1>10
<1>12. QED
  BY <1>11

\* sbrk() of n whole pages from a page boundary.
LEMMA Sbrk ==
    ASSUME PmmOK, NEW oth, NEW memory, IsMemory(memory, oth), memory.ok, NEW q \in Nat, NEW n \in Nat, n > 0,
           NEW at, at = PAGE_SIZE * q, NEW bytes, bytes = PAGE_SIZE * n
    PROVE  /\ IsMemory(sbrk(memory, at, bytes), oth)
           /\ DOMAIN memory.mapped \subseteq DOMAIN sbrk(memory, at, bytes).mapped
           /\ sbrk(memory, at, bytes).ok =>
                /\ at + bytes <= VIRT_END
                /\ \A va \in q .. q + n - 1 : va \in DOMAIN sbrk(memory, at, bytes).mapped
<1> DEFINE first == RoundUp(at) \div PAGE_SIZE
           last  == (at + bytes - 1) \div PAGE_SIZE
           loop[k \in 0 .. last - first + 1] ==
               IF k = 0 THEN memory ELSE add_page(loop[k - 1], first + k - 1)
<1>1. PICK P \in Nat : P = PAGE_SIZE /\ P > 0
  BY Naturals
<1>2. at \in Nat /\ bytes \in Nat /\ P * q = at /\ P * n = bytes
  BY <1>1
<1>3. first = q
  <2>1. PICK c \in Nat : RoundUp(at) = P * c /\ at <= P * c /\ P * c < at + P
    BY <1>1, <1>2, Rounded
  <2>2. c = q
    <3>1. (q < c => P * q + P <= P * c) /\ (c < q => P * c + P <= P * q)
      BY <1>1, TimesLess
    <3>2. P * c \in Nat /\ P * q \in Nat
      OBVIOUS
    <3>3. QED
      BY <1>1, <1>2, <2>1, <3>1, <3>2
  <2>3. (P * q) \div P = q
    BY <1>1, <1>2, QuotientOrder
  <2>4. QED
    BY <1>1, <2>1, <2>2, <2>3
<1>4. PICK e \in Nat : e = q + n - 1
  OBVIOUS
<1>5. P * e + P = at + bytes
  <2>1. P * (e + 1) = P * (q + n)
    BY <1>4
  <2>2. P * (e + 1) = P * e + P /\ P * (q + n) = P * q + P * n
    OBVIOUS
  <2>3. QED
    BY <1>2, <2>1, <2>2
<1>6. last = e
  <2>1. P * e \in Nat
    OBVIOUS
  <2>2. PICK z \in Nat : z = at + bytes - 1
    BY <1>1, <1>2, <1>5, <2>1
  <2>3. P * e <= z /\ z < P * e + P
    BY <1>1, <1>5, <2>1, <2>2
  <2>4. z \div P = e
    BY <1>1, <2>3, QuotientOrder
  <2>5. QED
    BY <1>1, <2>2, <2>4
<1>7. last - first + 1 = n
  BY <1>3, <1>4, <1>6
<1>8. sbrk(memory, at, bytes) = IF at + bytes > VIRT_END THEN [memory EXCEPT !.ok = FALSE]
                                ELSE loop[last - first + 1]
  BY DEF sbrk
<1>9. IsLoop(loop, memory, first, last - first + 1)
  <2>0. \E f : IsLoop(f, memory, first, last - first + 1)
    BY <1>7, LoopExists
  <2>1. \E f : f = [k \in 0 .. last - first + 1 |-> IF k = 0 THEN memory ELSE add_page(f[k - 1], first + k - 1)]
    BY <2>0, Zenon DEF IsLoop
  <2>2. loop = [k \in 0 .. last - first + 1 |-> IF k = 0 THEN memory ELSE add_page(loop[k - 1], first + k - 1)]
    BY <2>1, Zenon
  <2>3. QED
    BY <2>2, Zenon DEF IsLoop
<1> HIDE DEF loop, first, last
<1>10. PICK f, r : f = loop /\ r = sbrk(memory, at, bytes)
  OBVIOUS
<1>11. CASE at + bytes > VIRT_END
  <2>1. PICK used, pages, tabs, ok :
          /\ memory = [bitmap |-> used, mapped |-> pages, tables |-> tabs, ok |-> ok]
          /\ MemOK(used, pages, tabs, oth)
    BY DEF IsMemory
  <2>2. r = [bitmap |-> used, mapped |-> pages, tables |-> tabs, ok |-> FALSE] /\ memory.mapped = pages
    BY <1>8, <1>10, <1>11, <2>1
  <2>3. IsMemory(r, oth) /\ r.mapped = pages /\ ~ r.ok
    BY <2>1, <2>2, MemoryFields
  <2>4. QED
    BY <1>10, <2>2, <2>3
<1>12. CASE ~ (at + bytes > VIRT_END)
  <2>1. at + bytes <= VIRT_END
    BY <1>2, <1>12, Naturals
  <2>2. IsLoop(f, memory, q, n)
    BY <1>3, <1>7, <1>9, <1>10
  <2>3. q + n <= VIRT_END \div PAGE_SIZE
    <3>1. PICK d \in Nat, v \in Nat : v = VIRT_END /\ d = v \div P
      BY <1>1, Naturals, Quotient
    <3>2. v < P * d + P
      BY <1>1, <3>1, QuotientOrder
    <3>4. d <= e => P * d <= P * e
      BY <1>1, TimesLess
    <3>5. e < d
      <4>1. P * e \in Nat /\ P * d \in Nat
        OBVIOUS
      <4>2. QED
        BY <1>1, <1>5, <2>1, <3>1, <3>2, <3>4, <4>1
    <3>6. QED
      BY <1>1, <1>4, <3>1, <3>5
  <2>4. /\ IsMemory(f[n], oth)
        /\ DOMAIN memory.mapped \subseteq DOMAIN f[n].mapped
        /\ f[n].ok => \A va \in q .. q + n - 1 : va \in DOMAIN f[n].mapped
    BY <2>2, <2>3, LoopKeeps
  <2>5. r = f[n]
    BY <1>7, <1>8, <1>10, <1>12
  <2>6. QED
    BY <1>10, <2>1, <2>4, <2>5
<1>13. QED
  BY <1>11, <1>12

-----------------------------------------------------------------------------
(* The memory in every state *)

\* The break is at a page boundary and everything below it is mapped.
BreakOK == \E q \in Nat : /\ brk = PAGE_SIZE * q /\ brk <= VIRT_END
                          /\ \A va \in Nat : va < q => va \in DOMAIN mapped

MemInv == PmmOK /\ MemOK(bitmap, mapped, tables, others) /\ BreakOK

LEMMA PmmStays ==
    ASSUME UNCHANGED pmmFixed, PmmOK, MemOK(bitmap', mapped', tables', others')
    PROVE  PmmOK' /\ MemOK(bitmap, mapped, tables, others)'
<1>1. boot' = boot /\ base_' = base_ /\ pages_' = pages_
  BY DEF pmmFixed
<1>2. PmmOK'
  BY <1>1 DEF PmmOK
<1>3. Pages' = Pages
  BY <1>1 DEF Pages
<1>4. ASSUME NEW p
      PROVE  UsablePage(p)' <=> UsablePage(p)
  BY <1>1 DEF UsablePage
<1>5. MemOK(bitmap, mapped, tables, others)'
  BY <1>3, <1>4 DEF MemOK
<1>6. QED
  BY <1>2, <1>5

LEMMA NowIsMemory ==
    ASSUME MemInv
    PROVE  IsMemory(Memory(bitmap, mapped, tables), others) /\ Memory(bitmap, mapped, tables).ok
           /\ Memory(bitmap, mapped, tables).mapped = mapped
<1>1. PICK used, pages, tabs, oth : used = bitmap /\ pages = mapped /\ tabs = tables /\ oth = others
  OBVIOUS
<1>2. MemOK(used, pages, tabs, oth)
  BY <1>1 DEF MemInv
<1>3. PICK r : r = Memory(used, pages, tabs)
  OBVIOUS
<1>4. r = [bitmap |-> used, mapped |-> pages, tables |-> tabs, ok |-> TRUE]
  BY <1>3 DEF Memory
<1>5. IsMemory(r, oth) /\ r.mapped = pages /\ r.ok
  BY <1>2, <1>4, MemoryFields
<1>6. QED
  BY <1>1, <1>3, <1>5

\* A call of sbrk() for n pages, which may fail at any page of them.
LEMMA SbrkStep ==
    ASSUME MemInv, NEW n \in Nat, n > 0, NEW bytes, bytes = PAGE_SIZE * n,
           sbrk_effect(sbrk_now(bytes), bytes), UNCHANGED others
    PROVE  /\ MemInv'
           /\ sbrk_now(bytes).ok => brk' = brk + bytes
           /\ ~ sbrk_now(bytes).ok => brk' = brk
<1>1. PICK q \in Nat : brk = PAGE_SIZE * q /\ brk <= VIRT_END /\ \A va \in Nat : va < q => va \in DOMAIN mapped
  BY DEF MemInv, BreakOK
<1>2. PICK memory, at, oth, m : /\ memory = Memory(bitmap, mapped, tables) /\ at = brk /\ oth = others
                                /\ m = sbrk_now(bytes)
  OBVIOUS
<1>3. IsMemory(memory, oth) /\ memory.ok /\ memory.mapped = mapped
  BY <1>2, NowIsMemory
<1>4. m = sbrk(memory, at, bytes)
  BY <1>2 DEF sbrk_now
<1>5. /\ IsMemory(m, oth)
      /\ DOMAIN memory.mapped \subseteq DOMAIN m.mapped
      /\ m.ok => at + bytes <= VIRT_END /\ \A va \in q .. q + n - 1 : va \in DOMAIN m.mapped
  <2>1. PmmOK
    BY DEF MemInv
  <2>2. at = PAGE_SIZE * q
    BY <1>1, <1>2
  <2>3. QED
    BY <1>3, <1>4, <2>1, <2>2, Sbrk
<1>6. /\ bitmap' = m.bitmap /\ mapped' = m.mapped /\ tables' = m.tables
      /\ brk' = (IF m.ok THEN brk + bytes ELSE brk) /\ UNCHANGED pmmFixed
  BY <1>2 DEF sbrk_effect
<1>7. MemOK(bitmap', mapped', tables', others')
  BY <1>2, <1>5, <1>6 DEF IsMemory
<1>8. PmmOK' /\ MemOK(bitmap, mapped, tables, others)'
  BY <1>6, <1>7, PmmStays DEF MemInv
<1>9. BreakOK'
  <2>1. PICK pages, next : pages = mapped' /\ next = brk'
    OBVIOUS
  <2>2. CASE m.ok
    <3>1. next = PAGE_SIZE * (q + n) /\ next <= VIRT_END
      <4>1. PAGE_SIZE * (q + n) = PAGE_SIZE * q + PAGE_SIZE * n
        BY Naturals
      <4>2. QED
        BY <1>1, <1>2, <1>5, <1>6, <2>1, <2>2, <4>1
    <3>2. ASSUME NEW va \in Nat, va < q + n
          PROVE  va \in DOMAIN pages
      <4>1. va < q \/ va \in q .. q + n - 1
        BY <3>2
      <4>2. QED
        BY <1>1, <1>3, <1>5, <1>6, <2>1, <2>2, <4>1
    <3>3. q + n \in Nat
      OBVIOUS
    <3>4. QED
      BY <2>1, <3>1, <3>2, <3>3 DEF BreakOK
  <2>3. CASE ~ m.ok
    <3>1. \A va \in Nat : va < q => va \in DOMAIN pages
      BY <1>1, <1>3, <1>5, <1>6, <2>1
    <3>2. brk' = brk
      BY <1>6, <2>3
    <3>3. QED
      BY <1>1, <2>1, <3>1, <3>2 DEF BreakOK
  <2>4. QED
    BY <2>2, <2>3
<1>10. QED
  BY <1>2, <1>6, <1>8, <1>9 DEF MemInv

\* The size that allocate() rounds up to, and the pages that it asks for.
LEMMA SizeFacts ==
    ASSUME NEW size \in Sizes
    PROVE  /\ aligned(size) \in Nat /\ aligned(size) >= size /\ size > 0
           /\ \E u \in Nat : aligned(size) = ALIGN * u
           /\ \E n \in Nat : /\ n > 0 /\ pages_needed(aligned(size)) * PAGE_SIZE = PAGE_SIZE * n
                             /\ PAGE_SIZE * n >= aligned(size) + HEADER
<1>1. size \in Nat /\ size > 0
  BY Naturals
<1>2. PICK A \in Nat : A = ALIGN /\ A > 0
  BY Naturals
<1>3. PICK x \in Nat, u \in Nat : x = size + A - 1 /\ u = x \div A
  BY <1>1, <1>2, Quotient
<1>4. A * u \in Nat /\ x < A * u + A
  BY <1>2, <1>3, QuotientOrder
<1>5. aligned(size) = A * u /\ A * u >= size
  <2>1. u * A = A * u
    BY <1>2, <1>3
  <2>2. QED
    BY <1>1, <1>2, <1>3, <1>4, <2>1 DEF aligned
<1>6. PICK a \in Nat : a = aligned(size)
  BY <1>4, <1>5
<1>7. PICK P \in Nat, H \in Nat : P = PAGE_SIZE /\ P > 0 /\ H = HEADER /\ H > 0
  BY Naturals
<1>8. PICK y \in Nat, n \in Nat : y = a + H + P - 1 /\ n = y \div P
  BY <1>7, Quotient
<1>9. P * n \in Nat /\ y < P * n + P
  BY <1>7, <1>8, QuotientOrder
<1>10. n > 0
  <2>1. n = 0 => P * n = 0
    OBVIOUS
  <2>2. QED
    BY <1>7, <1>8, <1>9, <2>1
<1>11. pages_needed(a) * P = P * n /\ P * n >= a + H
  <2>1. pages_needed(a) = n
    BY <1>7, <1>8 DEF pages_needed
  <2>2. n * P = P * n
    OBVIOUS
  <2>3. QED
    BY <1>7, <1>8, <1>9, <2>1, <2>2
<1>12. QED
  BY <1>1, <1>2, <1>5, <1>6, <1>7, <1>10, <1>11

LEMMA MemInit ==
    ASSUME Init
    PROVE  MemInv
<1>1. PmmOK
  BY DEF Init, PmmInit, PmmOK
<1>2. PICK used, none, memory, m : /\ used = initial_bitmap(boot) /\ none = Nothing
                                   /\ memory = Memory(used, none, none)
                                   /\ m = sbrk(memory, 0, PAGE_SIZE)
  OBVIOUS
<1>3. MemOK(used, none, none, {})
  <2>1. used \subseteq 0 .. MAX_PAGES - 1
    BY <1>2 DEF initial_bitmap
  <2>2. \A p \in Pages : p \notin used => UsablePage(p)
    BY <1>1, <1>2, FreeIsUsable DEF free_pages, PmmOK
  <2>3. DOMAIN none = {}
    BY <1>2 DEF Nothing
  <2>4. QED
    BY <2>1, <2>2, <2>3 DEF MemOK
<1>4. IsMemory(memory, {}) /\ memory.ok
  <2>1. memory = [bitmap |-> used, mapped |-> none, tables |-> none, ok |-> TRUE]
    BY <1>2 DEF Memory
  <2>2. QED
    BY <1>3, <2>1, MemoryFields
<1>5. /\ IsMemory(m, {})
      /\ m.ok => 0 + PAGE_SIZE <= VIRT_END /\ \A va \in 0 .. 0 + 1 - 1 : va \in DOMAIN m.mapped
  <2>1. 0 = PAGE_SIZE * 0 /\ PAGE_SIZE = PAGE_SIZE * 1
    BY Naturals
  <2>2. PICK at, bytes : at = 0 /\ bytes = PAGE_SIZE
    OBVIOUS
  <2>3. /\ IsMemory(sbrk(memory, at, bytes), {})
        /\ sbrk(memory, at, bytes).ok =>
             /\ at + bytes <= VIRT_END
             /\ \A va \in 0 .. 0 + 1 - 1 : va \in DOMAIN sbrk(memory, at, bytes).mapped
    BY <1>1, <1>4, <2>1, <2>2, Sbrk
  <2>4. QED
    BY <1>2, <2>2, <2>3
<1>6. /\ bitmap = m.bitmap /\ mapped = m.mapped /\ tables = m.tables /\ others = {}
      /\ brk = IF m.ok THEN PAGE_SIZE ELSE 0
  BY <1>2 DEF Init
<1>7. MemOK(bitmap, mapped, tables, others)
  BY <1>5, <1>6 DEF IsMemory
<1>8. BreakOK
  <2>1. CASE m.ok
    <3>1. brk = PAGE_SIZE * 1 /\ brk <= VIRT_END
      BY <1>5, <1>6, <2>1, Naturals
    <3>2. \A va \in Nat : va < 1 => va \in DOMAIN mapped
      BY <1>5, <1>6, <2>1
    <3>3. QED
      BY <3>1, <3>2 DEF BreakOK
  <2>2. CASE ~ m.ok
    <3>1. brk = PAGE_SIZE * 0 /\ brk <= VIRT_END
      BY <1>6, <2>2, Naturals
    <3>2. \A va \in Nat : va < 0 => va \in DOMAIN mapped
      OBVIOUS
    <3>3. QED
      BY <3>1, <3>2 DEF BreakOK
  <2>3. QED
    BY <2>1, <2>2
<1>9. QED
  BY <1>1, <1>7, <1>8 DEF MemInv

-----------------------------------------------------------------------------
(* The list of blocks *)

Block == [size : Nat, free : BOOLEAN, next : Int, prev : Int]

BlocksOK(bs) == DOMAIN bs \subseteq Nat /\ \A a \in DOMAIN bs : bs[a] \in Block

\* next is the block with the next higher address, prev the one with the next lower.
NextOK(bs) == \A a \in DOMAIN bs :
    /\ bs[a].next = null => \A c \in DOMAIN bs : c <= a
    /\ bs[a].next # null => /\ bs[a].next \in DOMAIN bs /\ bs[a].next > a
                            /\ \A c \in DOMAIN bs : c > a => c >= bs[a].next
PrevOK(bs) == \A a \in DOMAIN bs :
    /\ bs[a].prev = null => \A c \in DOMAIN bs : c >= a
    /\ bs[a].prev # null => /\ bs[a].prev \in DOMAIN bs /\ bs[a].prev < a
                            /\ \A c \in DOMAIN bs : c < a => c <= bs[a].prev

\* Every block ends where the next one begins or before; the last one, where the heap does.
Limit(bs, a, top) == IF bs[a].next = null THEN top ELSE bs[a].next
SpaceOK(bs, top, lent) == \A a \in DOMAIN bs :
    /\ a + HEADER + bs[a].size <= Limit(bs, a, top)
    /\ lent = {} => a + HEADER + bs[a].size = Limit(bs, a, top)

LastOK(bs)  == DOMAIN bs # {} => \E a \in DOMAIN bs : bs[a].next = null
AlignOK(bs) == \A a \in DOMAIN bs : \E u \in Nat : a = ALIGN * u

ChainOK(bs, top, lent) ==
    /\ BlocksOK(bs) /\ NextOK(bs) /\ PrevOK(bs) /\ LastOK(bs) /\ AlignOK(bs)
    /\ top \in Nat /\ SpaceOK(bs, top, lent)

\* No two neighbours are free.
Coalesced(bs) == \A a \in DOMAIN bs : bs[a].free /\ bs[a].next # null => ~ bs[bs[a].next].free

LEMMA NextOfPrev ==
    ASSUME NEW bs, BlocksOK(bs), NextOK(bs), PrevOK(bs), NEW a \in DOMAIN bs
    PROVE  /\ bs[a].prev # null => bs[a].prev \in DOMAIN bs /\ bs[bs[a].prev].next = a
           /\ bs[a].next # null => bs[a].next \in DOMAIN bs /\ bs[bs[a].next].prev = a
<1>0. a \in Nat /\ bs[a].next \in Int /\ bs[a].prev \in Int
  BY DEF BlocksOK, Block
<1>1. ASSUME bs[a].prev # null
      PROVE  bs[a].prev \in DOMAIN bs /\ bs[bs[a].prev].next = a
  <2>1. PICK p \in DOMAIN bs : p = bs[a].prev /\ p < a /\ \A c \in DOMAIN bs : c < a => c <= p
    BY <1>1 DEF PrevOK
  <2>2. p \in Nat /\ bs[p].next \in Int
    BY DEF BlocksOK, Block
  <2>3. bs[p].next # null
    <3>1. ~ (a <= p)
      BY <1>0, <2>1, <2>2
    <3>2. QED
      BY <3>1 DEF NextOK
  <2>4. bs[p].next \in DOMAIN bs /\ bs[p].next > p /\ a >= bs[p].next
    BY <2>1, <2>3 DEF NextOK
  <2>5. bs[p].next = a
    BY <1>0, <2>1, <2>2, <2>4
  <2>6. QED
    BY <2>1, <2>5
<1>2. ASSUME bs[a].next # null
      PROVE  bs[a].next \in DOMAIN bs /\ bs[bs[a].next].prev = a
  <2>1. PICK p \in DOMAIN bs : p = bs[a].next /\ p > a /\ \A c \in DOMAIN bs : c > a => c >= p
    BY <1>2 DEF NextOK
  <2>2. p \in Nat /\ bs[p].prev \in Int
    BY DEF BlocksOK, Block
  <2>3. bs[p].prev # null
    <3>1. ~ (a >= p)
      BY <1>0, <2>1, <2>2
    <3>2. QED
      BY <3>1 DEF PrevOK
  <2>4. bs[p].prev \in DOMAIN bs /\ bs[p].prev < p /\ a <= bs[p].prev
    BY <2>1, <2>3 DEF PrevOK
  <2>5. bs[p].prev = a
    BY <1>0, <2>1, <2>2, <2>4
  <2>6. QED
    BY <2>1, <2>5
<1>3. QED
  BY <1>1, <1>2

-----------------------------------------------------------------------------
(* free(): a block takes in the next one *)

LEMMA Resized ==
    ASSUME NEW b \in Block, NEW n \in Nat, NEW x \in Int
    PROVE  /\ resized(b, n, x) \in Block
           /\ resized(b, n, x).size = n /\ resized(b, n, x).next = x
           /\ resized(b, n, x).free = b.free /\ resized(b, n, x).prev = b.prev
BY DEF resized, Block

\* Block a with the space of c, which follows it and comes before after.
IsMerged(nb, bs, a, c, after) ==
    /\ c \in DOMAIN bs /\ c > a /\ DOMAIN nb = DOMAIN bs \ {c} /\ a \in DOMAIN nb
    /\ nb[a].size = bs[a].size + HEADER + bs[c].size /\ nb[a].next = after
    /\ nb[a].prev = bs[a].prev /\ nb[a].free = bs[a].free
    /\ \A x \in DOMAIN bs \ {c} : x # a =>
        /\ nb[x].size = bs[x].size /\ nb[x].free = bs[x].free /\ nb[x].next = bs[x].next
        /\ nb[x].prev = IF x = after THEN a ELSE bs[x].prev
    /\ BlocksOK(nb)

LEMMA MergedFields ==
    ASSUME NEW bs, BlocksOK(bs), NextOK(bs), NEW a \in DOMAIN bs, bs[a].next # null,
           NEW c, c = bs[a].next, NEW nb, nb = merged(bs, a), NEW after, after = bs[c].next
    PROVE  IsMerged(nb, bs, a, c, after)
<1>1. c \in DOMAIN bs /\ c > a /\ a \in Nat /\ c \in Nat
  BY DEF NextOK, BlocksOK
<1>3. after \in Int /\ (after = null \/ after > c)
  BY <1>1 DEF NextOK, BlocksOK, Block
<1>4. after # a
  BY <1>1, <1>3 DEF null
<1>5. nb = [x \in DOMAIN bs \ {c} |->
              CASE x = a     -> resized(bs[a], bs[a].size + HEADER + bs[c].size, after)
                [] x = after -> [bs[x] EXCEPT !.prev = a]
                [] OTHER     -> bs[x]]
  BY DEF merged
<1>6. DOMAIN nb = DOMAIN bs \ {c} /\ a \in DOMAIN nb
  BY <1>1, <1>5
<1>7. bs[a] \in Block /\ bs[c] \in Block /\ HEADER \in Nat
  BY <1>1, Naturals DEF BlocksOK
<1>8. nb[a] = resized(bs[a], bs[a].size + HEADER + bs[c].size, after)
  BY <1>1, <1>4, <1>5
<1>9. /\ nb[a].size = bs[a].size + HEADER + bs[c].size /\ nb[a].next = after
      /\ nb[a].prev = bs[a].prev /\ nb[a].free = bs[a].free /\ nb[a] \in Block
  <2>1. PICK n \in Nat : n = bs[a].size + HEADER + bs[c].size
    BY <1>7 DEF Block
  <2>2. PICK b, v : b \in Block /\ b = bs[a] /\ v = resized(b, n, after)
    BY <1>7
  <2>3. v \in Block /\ v.size = n /\ v.next = after /\ v.free = b.free /\ v.prev = b.prev
    BY <1>3, <2>2, Resized
  <2>4. nb[a] = v
    BY <1>8, <2>1, <2>2
  <2>5. QED
    BY <2>1, <2>2, <2>3, <2>4
<1>10. ASSUME NEW x \in DOMAIN bs \ {c}, x # a
       PROVE  /\ nb[x].size = bs[x].size /\ nb[x].free = bs[x].free /\ nb[x].next = bs[x].next
              /\ nb[x].prev = IF x = after THEN a ELSE bs[x].prev
              /\ nb[x] \in Block
  <2>1. bs[x] \in Block
    BY DEF BlocksOK
  <2>2. CASE x = after
    <3>1. nb[x] = [bs[x] EXCEPT !.prev = a]
      BY <1>5, <1>10, <2>2
    <3>2. QED
      BY <1>1, <2>1, <2>2, <3>1 DEF Block
  <2>3. CASE x # after
    <3>1. nb[x] = bs[x]
      BY <1>5, <1>10, <2>3
    <3>2. QED
      BY <2>1, <2>3, <3>1
  <2>4. QED
    BY <2>2, <2>3
<1>11. BlocksOK(nb)
  BY <1>6, <1>9, <1>10 DEF BlocksOK
<1>12. QED
  BY <1>1, <1>6, <1>9, <1>10, <1>11 DEF IsMerged

LEMMA MergedChain ==
    ASSUME NEW bs, NEW top, NEW lent, ChainOK(bs, top, lent), NEW a \in DOMAIN bs, bs[a].next # null
    PROVE  ChainOK(merged(bs, a), top, lent)
<1>0. BlocksOK(bs) /\ NextOK(bs) /\ PrevOK(bs) /\ LastOK(bs) /\ AlignOK(bs) /\ top \in Nat /\ SpaceOK(bs, top, lent)
  BY DEF ChainOK
<1>1. PICK c, nb, after : c = bs[a].next /\ nb = merged(bs, a) /\ after = bs[c].next
  OBVIOUS
<1>2. /\ c \in DOMAIN bs /\ c > a /\ DOMAIN nb = DOMAIN bs \ {c} /\ a \in DOMAIN nb
      /\ nb[a].size = bs[a].size + HEADER + bs[c].size /\ nb[a].next = after
      /\ nb[a].prev = bs[a].prev /\ nb[a].free = bs[a].free
      /\ \A x \in DOMAIN bs \ {c} : x # a =>
          /\ nb[x].size = bs[x].size /\ nb[x].free = bs[x].free /\ nb[x].next = bs[x].next
          /\ nb[x].prev = IF x = after THEN a ELSE bs[x].prev
      /\ BlocksOK(nb)
  <2>1. IsMerged(nb, bs, a, c, after)
    BY <1>0, <1>1, MergedFields
  <2>2. QED
    BY <2>1 DEF IsMerged
<1>3. \A x \in DOMAIN bs : /\ x \in Nat /\ bs[x].next \in Int /\ bs[x].prev \in Int /\ bs[x].size \in Nat
  BY <1>0 DEF BlocksOK, Block
<1>4. \A d \in DOMAIN bs \ {c} : (d > a => d > c) /\ (d < c => d <= a)
  <2>1. \A d \in DOMAIN bs : d > a => d >= c
    BY <1>0, <1>1 DEF NextOK
  <2>2. QED
    BY <1>2, <1>3, <2>1
<1>5. \A x \in DOMAIN bs : x # a => bs[x].next # c
  <2>1. SUFFICES ASSUME NEW x \in DOMAIN bs, x # a, bs[x].next = c
                 PROVE  FALSE
    OBVIOUS
  <2>2. c # null
    BY <1>1
  <2>3. c > x /\ (a > x => a >= c)
    BY <1>0, <2>1, <2>2 DEF NextOK
  <2>4. x \in DOMAIN bs \ {c}
    BY <1>3, <2>3
  <2>5. QED
    BY <1>2, <1>3, <1>4, <2>1, <2>3, <2>4
<1>6. NextOK(nb)
  <2>1. SUFFICES ASSUME NEW x \in DOMAIN nb
                 PROVE  /\ nb[x].next = null => \A d \in DOMAIN nb : d <= x
                        /\ nb[x].next # null => /\ nb[x].next \in DOMAIN nb /\ nb[x].next > x
                                                /\ \A d \in DOMAIN nb : d > x => d >= nb[x].next
    BY DEF NextOK
  <2>2. CASE x = a
    <3>1. after = null => \A d \in DOMAIN bs : d <= c
      BY <1>0, <1>1, <1>2 DEF NextOK
    <3>2. after # null => after \in DOMAIN bs /\ after > c /\ \A d \in DOMAIN bs : d > c => d >= after
      BY <1>0, <1>1, <1>2 DEF NextOK
    <3>3. ASSUME after = null, NEW d \in DOMAIN nb
          PROVE  d <= a
      BY <1>2, <1>3, <1>4, <3>1, <3>3
    <3>4. after # null => after \in DOMAIN nb /\ after > a
      BY <1>2, <1>3, <3>2
    <3>5. ASSUME after # null, NEW d \in DOMAIN nb, d > a
          PROVE  d >= after
      BY <1>2, <1>4, <3>2, <3>5
    <3>6. QED
      BY <1>2, <2>2, <3>3, <3>4, <3>5
  <2>3. CASE x # a
    <3>1. nb[x].next = bs[x].next /\ x \in DOMAIN bs
      BY <1>2, <2>3
    <3>2. bs[x].next # c
      BY <1>5, <2>3, <3>1
    <3>3. QED
      BY <1>0, <1>2, <3>1, <3>2 DEF NextOK
  <2>4. QED
    BY <2>2, <2>3
<1>7. PrevOK(nb)
  <2>1. SUFFICES ASSUME NEW x \in DOMAIN nb
                 PROVE  /\ nb[x].prev = null => \A d \in DOMAIN nb : d >= x
                        /\ nb[x].prev # null => /\ nb[x].prev \in DOMAIN nb /\ nb[x].prev < x
                                                /\ \A d \in DOMAIN nb : d < x => d <= nb[x].prev
    BY DEF PrevOK
  <2>2. CASE x # a /\ x = after
    <3>1. nb[x].prev = a /\ a # null
      <4>1. a # null
        BY <1>3 DEF null
      <4>2. QED
        BY <1>2, <2>2, <4>1
    <3>2. x > c /\ bs[x].prev = c
      <4>1. after # null
        BY <1>2, <1>3, <2>1, <2>2 DEF null
      <4>2. QED
        BY <1>0, <1>1, <1>2, <2>2, <4>1, NextOfPrev DEF NextOK
    <3>3. \A d \in DOMAIN bs : d < x => d <= c
      <4>1. c # null
        BY <1>1
      <4>2. QED
        BY <1>0, <1>2, <3>2, <4>1 DEF PrevOK
    <3>4. ASSUME NEW d \in DOMAIN nb, d < x
          PROVE  d <= a
      BY <1>2, <1>3, <1>4, <3>3, <3>4
    <3>5. a < x
      BY <1>2, <1>3, <3>2
    <3>6. QED
      BY <1>2, <3>1, <3>4, <3>5
  <2>3. CASE x = a \/ x # after
    <3>1. nb[x].prev = bs[x].prev /\ x \in DOMAIN bs
      BY <1>2, <2>3
    <3>2. bs[x].prev # c
      <4>1. SUFFICES ASSUME bs[x].prev = c
                     PROVE  FALSE
        OBVIOUS
      <4>2. c # null
        BY <1>1
      <4>3. after = x
        BY <1>0, <1>1, <3>1, <4>1, <4>2, NextOfPrev
      <4>4. x = a
        BY <2>3, <4>3
      <4>5. c < a
        BY <1>0, <3>1, <4>1, <4>2, <4>4 DEF PrevOK
      <4>6. QED
        BY <1>2, <1>3, <4>5
    <3>3. QED
      BY <1>0, <1>2, <3>1, <3>2 DEF PrevOK
  <2>4. QED
    BY <2>2, <2>3
<1>8. LastOK(nb)
  <2>1. PICK l \in DOMAIN bs : bs[l].next = null
    BY <1>0 DEF LastOK
  <2>2. CASE l = c
    BY <1>1, <1>2, <2>1, <2>2 DEF LastOK
  <2>3. CASE l # c
    <3>1. l # a
      BY <2>1
    <3>2. QED
      BY <1>2, <2>1, <2>3, <3>1 DEF LastOK
  <2>4. QED
    BY <2>2, <2>3
<1>9. AlignOK(nb)
  BY <1>0, <1>2 DEF AlignOK
<1>10. SpaceOK(nb, top, lent)
  <2>1. HEADER \in Nat
    BY Naturals
  <2>2. SUFFICES ASSUME NEW x \in DOMAIN nb
                 PROVE  /\ x + HEADER + nb[x].size <= Limit(nb, x, top)
                        /\ lent = {} => x + HEADER + nb[x].size = Limit(nb, x, top)
    BY DEF SpaceOK
  <2>3. CASE x = a
    <3>1. a + HEADER + bs[a].size <= c /\ (lent = {} => a + HEADER + bs[a].size = c)
      BY <1>0, <1>1 DEF SpaceOK, Limit
    <3>2. /\ c + HEADER + bs[c].size <= Limit(bs, c, top)
          /\ lent = {} => c + HEADER + bs[c].size = Limit(bs, c, top)
      BY <1>0, <1>2 DEF SpaceOK
    <3>3. Limit(nb, a, top) = Limit(bs, c, top)
      BY <1>1, <1>2 DEF Limit
    <3>4. Limit(bs, c, top) \in Int
      BY <1>0, <1>2, <1>3 DEF Limit
    <3>5. QED
      BY <1>2, <1>3, <2>1, <2>3, <3>1, <3>2, <3>3, <3>4
  <2>4. CASE x # a
    <3>1. nb[x].next = bs[x].next /\ nb[x].size = bs[x].size /\ x \in DOMAIN bs
      BY <1>2, <2>4
    <3>2. QED
      BY <1>0, <3>1 DEF SpaceOK, Limit
  <2>5. QED
    BY <2>3, <2>4
<1>11. QED
  BY <1>0, <1>1, <1>2, <1>6, <1>7, <1>8, <1>9, <1>10 DEF ChainOK

\* What clients hold.
UsedBlocks(bs) == {a \in DOMAIN bs : ~ bs[a].free}
KeepsUsed(nb, bs) ==
    UsedBlocks(nb) = UsedBlocks(bs) /\ \A a \in UsedBlocks(bs) : nb[a].size = bs[a].size

\* No two neighbours are free except a and its neighbours, or a and the one before.
FreeNear(bs, a) == \A x \in DOMAIN bs :
    x # a /\ bs[x].next # a /\ bs[x].free /\ bs[x].next # null => ~ bs[bs[x].next].free
FreeBefore(bs, a) == \A x \in DOMAIN bs :
    bs[x].next # a /\ bs[x].free /\ bs[x].next # null => ~ bs[bs[x].next].free

LEMMA MergedKeeps ==
    ASSUME NEW bs, NEW nb, NEW a, NEW c, NEW after, IsMerged(nb, bs, a, c, after), bs[a].free, bs[c].free
    PROVE  KeepsUsed(nb, bs)
<1>1. /\ DOMAIN nb = DOMAIN bs \ {c} /\ a \in DOMAIN nb /\ (nb[a].free <=> bs[a].free)
      /\ \A x \in DOMAIN bs \ {c} : x # a => nb[x].size = bs[x].size /\ (nb[x].free <=> bs[x].free)
  BY DEF IsMerged
<1>2. UsedBlocks(nb) = UsedBlocks(bs)
  BY <1>1 DEF UsedBlocks
<1>3. \A x \in UsedBlocks(bs) : nb[x].size = bs[x].size
  BY <1>1 DEF UsedBlocks
<1>4. QED
  BY <1>2, <1>3 DEF KeepsUsed

LEMMA MergedWithNext ==
    ASSUME NEW bs, NEW top, NEW lent, ChainOK(bs, top, lent), NEW a \in DOMAIN bs, bs[a].free,
           FreeNear(bs, a), NEW nb, nb = merged_with_next(bs, a)
    PROVE  ChainOK(nb, top, lent) /\ a \in DOMAIN nb /\ nb[a].free /\ FreeBefore(nb, a) /\ KeepsUsed(nb, bs)
<1>0. BlocksOK(bs) /\ NextOK(bs) /\ PrevOK(bs)
  BY DEF ChainOK
<1>1. CASE bs[a].next # null /\ bs[bs[a].next].free
  <2>1. nb = merged(bs, a)
    BY <1>1 DEF merged_with_next
  <2>2. ChainOK(nb, top, lent)
    BY <1>1, <2>1, MergedChain
  <2>3. PICK c, after : c = bs[a].next /\ after = bs[c].next
    OBVIOUS
  <2>4. IsMerged(nb, bs, a, c, after)
    BY <1>0, <1>1, <2>1, <2>3, MergedFields
  <2>5. /\ c \in DOMAIN bs /\ c > a /\ DOMAIN nb = DOMAIN bs \ {c} /\ a \in DOMAIN nb
        /\ nb[a].next = after /\ (nb[a].free <=> bs[a].free)
        /\ \A x \in DOMAIN bs \ {c} : x # a => (nb[x].free <=> bs[x].free) /\ nb[x].next = bs[x].next
    BY <2>4 DEF IsMerged
  <2>6. a \in Nat /\ c \in Nat /\ after \in Int
    BY <1>0, <2>3, <2>5 DEF BlocksOK, Block
  <2>7. after # null => after \in DOMAIN bs /\ after > c
    BY <1>0, <2>3, <2>5 DEF NextOK
  <2>8. FreeBefore(nb, a)
    <3>1. SUFFICES ASSUME NEW x \in DOMAIN nb, nb[x].next # a, nb[x].free, nb[x].next # null
                   PROVE  ~ nb[nb[x].next].free
      BY DEF FreeBefore
    <3>2. CASE x = a
      <4>1. after # null /\ nb[x].next = after
        BY <2>5, <3>1, <3>2
      <4>2. after # a /\ after # c /\ c # a
        BY <2>5, <2>6, <2>7, <4>1
      <4>3. ~ bs[after].free
        BY <1>1, <2>3, <2>5, <4>1, <4>2 DEF FreeNear
      <4>4. QED
        BY <2>5, <2>7, <4>1, <4>2, <4>3
    <3>3. CASE x # a
      <4>1. nb[x].next = bs[x].next /\ bs[x].free /\ x \in DOMAIN bs
        BY <2>5, <3>1, <3>3
      <4>2. PICK y : y = bs[x].next
        OBVIOUS
      <4>3. y \in DOMAIN bs /\ y # a /\ y # null
        BY <1>0, <3>1, <4>1, <4>2 DEF NextOK
      <4>4. y # c
        <5>1. bs[x].next # null => bs[bs[x].next].prev = x
          BY <1>0, <4>1, NextOfPrev
        <5>2. bs[a].next # null => bs[bs[a].next].prev = a
          BY <1>0, NextOfPrev
        <5>3. QED
          BY <1>1, <2>3, <3>3, <4>2, <4>3, <5>1, <5>2
      <4>5. ~ bs[y].free
        BY <3>3, <4>1, <4>2, <4>3 DEF FreeNear
      <4>6. QED
        BY <2>5, <4>1, <4>2, <4>3, <4>4, <4>5
    <3>4. QED
      BY <3>2, <3>3
  <2>9. KeepsUsed(nb, bs)
    BY <1>1, <2>3, <2>4, MergedKeeps
  <2>10. QED
    BY <2>2, <2>5, <2>8, <2>9
<1>2. CASE ~ (bs[a].next # null /\ bs[bs[a].next].free)
  <2>1. nb = bs
    BY <1>2 DEF merged_with_next
  <2>2. FreeBefore(bs, a)
    BY <1>2 DEF FreeNear, FreeBefore
  <2>3. KeepsUsed(bs, bs)
    BY DEF KeepsUsed
  <2>4. QED
    BY <2>1, <2>2, <2>3
<1>3. QED
  BY <1>1, <1>2

LEMMA MergedWithPrev ==
    ASSUME NEW bs, NEW top, NEW lent, ChainOK(bs, top, lent), NEW a \in DOMAIN bs, bs[a].free,
           FreeBefore(bs, a), NEW nb, nb = merged_with_prev(bs, a)
    PROVE  ChainOK(nb, top, lent) /\ Coalesced(nb) /\ KeepsUsed(nb, bs)
<1>0. BlocksOK(bs) /\ NextOK(bs) /\ PrevOK(bs)
  BY DEF ChainOK
<1>1. CASE bs[a].prev # null /\ bs[bs[a].prev].free
  <2>1. PICK p, after : p = bs[a].prev /\ after = bs[a].next
    OBVIOUS
  <2>2. p \in DOMAIN bs /\ bs[p].next = a
    BY <1>0, <1>1, <2>1, NextOfPrev
  <2>3. a # null
    <3>1. a \in Nat
      BY <1>0 DEF BlocksOK
    <3>2. QED
      BY <3>1 DEF null
  <2>4. nb = merged(bs, p)
    BY <1>1, <2>1 DEF merged_with_prev
  <2>5. ChainOK(nb, top, lent)
    BY <2>2, <2>3, <2>4, MergedChain
  <2>6. IsMerged(nb, bs, p, a, after)
    BY <1>0, <2>1, <2>2, <2>3, <2>4, MergedFields
  <2>7. /\ a > p /\ DOMAIN nb = DOMAIN bs \ {a} /\ p \in DOMAIN nb
        /\ nb[p].next = after /\ (nb[p].free <=> bs[p].free)
        /\ \A x \in DOMAIN bs \ {a} : x # p => (nb[x].free <=> bs[x].free) /\ nb[x].next = bs[x].next
    BY <2>6 DEF IsMerged
  <2>8. a \in Nat /\ p \in Nat /\ after \in Int
    BY <1>0, <2>1, <2>2 DEF BlocksOK, Block
  <2>9. after # null => after \in DOMAIN bs /\ after > a
    BY <1>0, <2>1 DEF NextOK
  <2>10. Coalesced(nb)
    <3>1. SUFFICES ASSUME NEW x \in DOMAIN nb, nb[x].free, nb[x].next # null
                   PROVE  ~ nb[nb[x].next].free
      BY DEF Coalesced
    <3>2. CASE x = p
      <4>1. after # null /\ nb[x].next = after
        BY <2>7, <3>1, <3>2
      <4>2. after # a /\ after # p
        BY <2>7, <2>8, <2>9, <4>1
      <4>3. ~ bs[after].free
        BY <2>1, <4>1, <4>2 DEF FreeBefore
      <4>4. QED
        BY <2>7, <2>9, <4>1, <4>2, <4>3
    <3>3. CASE x # p
      <4>1. nb[x].next = bs[x].next /\ bs[x].free /\ x \in DOMAIN bs
        BY <2>7, <3>1, <3>3
      <4>2. PICK y : y = bs[x].next
        OBVIOUS
      <4>3. y \in DOMAIN bs /\ y # null
        BY <1>0, <3>1, <4>1, <4>2 DEF NextOK
      <4>4. y # a
        <5>1. bs[x].next # null => bs[bs[x].next].prev = x
          BY <1>0, <4>1, NextOfPrev
        <5>2. QED
          BY <2>1, <3>3, <4>2, <4>3, <5>1
      <4>5. ~ bs[y].free
        BY <4>1, <4>2, <4>3, <4>4 DEF FreeBefore
      <4>6. QED
        BY <2>7, <4>1, <4>2, <4>3, <4>4, <4>5
    <3>4. QED
      BY <3>2, <3>3
  <2>11. KeepsUsed(nb, bs)
    BY <1>1, <2>1, <2>6, MergedKeeps
  <2>12. QED
    BY <2>5, <2>10, <2>11
<1>2. CASE ~ (bs[a].prev # null /\ bs[bs[a].prev].free)
  <2>1. nb = bs
    BY <1>2 DEF merged_with_prev
  <2>2. Coalesced(bs)
    <3>1. SUFFICES ASSUME NEW x \in DOMAIN bs, bs[x].free, bs[x].next # null
                   PROVE  ~ bs[bs[x].next].free
      BY DEF Coalesced
    <3>2. bs[x].next # a
      <4>1. bs[x].next = a => bs[a].prev = x
        BY <1>0, <3>1, NextOfPrev
      <4>2. x # null
        <5>1. x \in Nat
          BY <1>0 DEF BlocksOK
        <5>2. QED
          BY <5>1 DEF null
      <4>3. QED
        BY <1>2, <3>1, <4>1, <4>2
    <3>3. QED
      BY <3>1, <3>2 DEF FreeBefore
  <2>3. KeepsUsed(bs, bs)
    BY DEF KeepsUsed
  <2>4. QED
    BY <2>1, <2>2, <2>3
<1>3. QED
  BY <1>1, <1>2

\* Block a with another flag.
IsMarked(nb, bs, a, flag) ==
    /\ DOMAIN nb = DOMAIN bs
    /\ (nb[a].free <=> flag) /\ nb[a].size = bs[a].size /\ nb[a].next = bs[a].next /\ nb[a].prev = bs[a].prev
    /\ \A x \in DOMAIN bs : x # a => nb[x] = bs[x]
    /\ BlocksOK(nb)

LEMMA Marked ==
    ASSUME NEW bs, BlocksOK(bs), NEW a \in DOMAIN bs, NEW nb
    PROVE  /\ nb = [bs EXCEPT ![a].free = TRUE] => IsMarked(nb, bs, a, TRUE)
           /\ nb = [bs EXCEPT ![a].free = FALSE] => IsMarked(nb, bs, a, FALSE)
<1>0. bs[a] \in Block
  BY DEF BlocksOK
<1>1. CASE nb = [bs EXCEPT ![a].free = TRUE]
  <2>1. DOMAIN nb = DOMAIN bs /\ nb[a] = [bs[a] EXCEPT !.free = TRUE] /\ \A x \in DOMAIN bs : x # a => nb[x] = bs[x]
    BY <1>1
  <2>2. /\ nb[a].free /\ nb[a].size = bs[a].size /\ nb[a].next = bs[a].next /\ nb[a].prev = bs[a].prev
        /\ nb[a] \in Block
    BY <1>0, <2>1 DEF Block
  <2>3. BlocksOK(nb)
    BY <2>1, <2>2 DEF BlocksOK
  <2>4. IsMarked(nb, bs, a, TRUE)
    BY <2>1, <2>2, <2>3 DEF IsMarked
  <2>5. nb # [bs EXCEPT ![a].free = FALSE]
    <3>1. SUFFICES ASSUME nb = [bs EXCEPT ![a].free = FALSE]
                   PROVE  FALSE
      OBVIOUS
    <3>2. ~ nb[a].free
      BY <1>0, <3>1 DEF Block
    <3>3. QED
      BY <2>2, <3>2
  <2>6. QED
    BY <2>4, <2>5
<1>2. CASE nb # [bs EXCEPT ![a].free = TRUE] /\ nb = [bs EXCEPT ![a].free = FALSE]
  <2>1. DOMAIN nb = DOMAIN bs /\ nb[a] = [bs[a] EXCEPT !.free = FALSE] /\ \A x \in DOMAIN bs : x # a => nb[x] = bs[x]
    BY <1>2
  <2>2. /\ ~ nb[a].free /\ nb[a].size = bs[a].size /\ nb[a].next = bs[a].next /\ nb[a].prev = bs[a].prev
        /\ nb[a] \in Block
    BY <1>0, <2>1 DEF Block
  <2>3. BlocksOK(nb)
    BY <2>1, <2>2 DEF BlocksOK
  <2>4. IsMarked(nb, bs, a, FALSE)
    BY <2>1, <2>2, <2>3 DEF IsMarked
  <2>5. QED
    BY <1>2, <2>4
<1>3. QED
  BY <1>1, <1>2

LEMMA MarkedChain ==
    ASSUME NEW bs, NEW top, NEW lent, ChainOK(bs, top, lent), NEW a \in DOMAIN bs, NEW nb, NEW flag,
           IsMarked(nb, bs, a, flag)
    PROVE  ChainOK(nb, top, lent)
<1>1. DOMAIN nb = DOMAIN bs /\ BlocksOK(nb)
  BY DEF IsMarked
<1>2. \A x \in DOMAIN bs : nb[x].size = bs[x].size /\ nb[x].next = bs[x].next /\ nb[x].prev = bs[x].prev
  BY DEF IsMarked
<1>3. NextOK(nb)
  BY <1>1, <1>2 DEF ChainOK, NextOK
<1>4. PrevOK(nb)
  BY <1>1, <1>2 DEF ChainOK, PrevOK
<1>5. LastOK(nb) /\ AlignOK(nb)
  BY <1>1, <1>2 DEF ChainOK, LastOK, AlignOK
<1>6. SpaceOK(nb, top, lent)
  BY <1>1, <1>2 DEF ChainOK, SpaceOK, Limit
<1>7. QED
  BY <1>1, <1>3, <1>4, <1>5, <1>6 DEF ChainOK

\* Clients hold the same as before, block a excepted.
UsedWithout(nb, bs, a) ==
    UsedBlocks(nb) = UsedBlocks(bs) \ {a} /\ \A x \in UsedBlocks(bs) \ {a} : nb[x].size = bs[x].size

\* free() of block a.
LEMMA FreeBlock ==
    ASSUME NEW bs, NEW top, NEW lent, ChainOK(bs, top, lent), Coalesced(bs), NEW a \in UsedBlocks(bs),
           NEW freed, IsMarked(freed, bs, a, TRUE),
           NEW nb, nb = merged_with_prev(merged_with_next(freed, a), a)
    PROVE  ChainOK(nb, top, lent) /\ Coalesced(nb) /\ UsedWithout(nb, bs, a)
<1>0. a \in DOMAIN bs /\ ~ bs[a].free /\ BlocksOK(bs)
  BY DEF UsedBlocks, ChainOK
<1>2. ChainOK(freed, top, lent)
  BY <1>0, MarkedChain
<1>3. /\ DOMAIN freed = DOMAIN bs /\ freed[a].free
      /\ \A x \in DOMAIN bs : freed[x].size = bs[x].size /\ freed[x].next = bs[x].next
      /\ \A x \in DOMAIN bs : x # a => freed[x] = bs[x]
  BY DEF IsMarked
<1>4. FreeNear(freed, a)
  <2>1. SUFFICES ASSUME NEW x \in DOMAIN freed, x # a, freed[x].next # a, freed[x].free, freed[x].next # null
                 PROVE  ~ freed[freed[x].next].free
    BY DEF FreeNear
  <2>2. PICK y : y = freed[x].next
    OBVIOUS
  <2>3. freed[x] = bs[x] /\ x \in DOMAIN bs
    BY <1>3, <2>1
  <2>4. y \in DOMAIN bs /\ ~ bs[y].free
    BY <2>1, <2>2, <2>3 DEF ChainOK, NextOK, Coalesced
  <2>5. freed[y] = bs[y]
    BY <1>3, <2>1, <2>2, <2>4
  <2>6. QED
    BY <2>2, <2>4, <2>5
<1>5. PICK mid : mid = merged_with_next(freed, a)
  OBVIOUS
<1>6. ChainOK(mid, top, lent) /\ a \in DOMAIN mid /\ mid[a].free /\ FreeBefore(mid, a) /\ KeepsUsed(mid, freed)
  <2>1. a \in DOMAIN freed /\ freed[a].free
    BY <1>0, <1>3
  <2>2. QED
    BY <1>2, <1>4, <1>5, <2>1, MergedWithNext
<1>7. ChainOK(nb, top, lent) /\ Coalesced(nb) /\ KeepsUsed(nb, mid)
  BY <1>5, <1>6, MergedWithPrev
<1>8. UsedBlocks(freed) = UsedBlocks(bs) \ {a}
  BY <1>3 DEF UsedBlocks
<1>9. UsedBlocks(nb) = UsedBlocks(freed) /\ \A x \in UsedBlocks(freed) : nb[x].size = freed[x].size
  BY <1>6, <1>7 DEF KeepsUsed
<1>10. \A x \in UsedBlocks(bs) \ {a} : nb[x].size = bs[x].size
  <2>1. UsedBlocks(bs) \subseteq DOMAIN bs
    BY DEF UsedBlocks
  <2>2. QED
    BY <1>3, <1>8, <1>9, <2>1
<1>11. QED
  BY <1>7, <1>8, <1>9, <1>10 DEF UsedWithout

-----------------------------------------------------------------------------
(* allocate(): a block is split *)

\* Block a keeps n bytes and new takes the rest.
IsSplit(nb, bs, a, n, new) ==
    /\ DOMAIN nb = DOMAIN bs \cup {new}
    /\ nb[a].size = n /\ nb[a].next = new /\ nb[a].prev = bs[a].prev /\ nb[a].free = bs[a].free
    /\ nb[new].size = bs[a].size - n - HEADER /\ nb[new].next = bs[a].next /\ nb[new].prev = a /\ nb[new].free
    /\ \A x \in DOMAIN bs : x # a =>
        /\ nb[x].size = bs[x].size /\ nb[x].free = bs[x].free /\ nb[x].next = bs[x].next
        /\ nb[x].prev = IF x = bs[a].next THEN new ELSE bs[x].prev
    /\ BlocksOK(nb)

LEMMA SplitFields ==
    ASSUME NEW bs, BlocksOK(bs), NextOK(bs), NEW a \in DOMAIN bs, NEW n \in Nat, bs[a].size >= n + HEADER,
           NEW new, new = a + HEADER + n, new \notin DOMAIN bs, NEW nb, nb = split(bs, a, n)
    PROVE  IsSplit(nb, bs, a, n, new)
<1>1. HEADER \in Nat /\ HEADER > 0 /\ a \in Nat /\ bs[a] \in Block /\ new \in Nat
  BY Naturals DEF BlocksOK
<1>2. PICK b, rest, succ : /\ b = bs[a] /\ succ = b.next
                           /\ rest = [size |-> b.size - n - HEADER, free |-> TRUE, next |-> b.next, prev |-> a]
  OBVIOUS
<1>3. b \in Block /\ succ \in Int /\ succ # a
  <2>1. succ = null \/ succ > a
    BY <1>2 DEF NextOK
  <2>2. QED
    BY <1>1, <1>2, <2>1 DEF Block, null
<1>4. PICK old : old = [x \in DOMAIN bs |->
               CASE x = a    -> resized(b, n, new)
                 [] x = succ -> [bs[x] EXCEPT !.prev = new]
                 [] OTHER    -> bs[x]]
  OBVIOUS
<1>5. nb = with(old, new, rest)
  BY <1>2, <1>4 DEF split
<1>6. DOMAIN old = DOMAIN bs
  BY <1>4
<1>7. DOMAIN nb = DOMAIN bs \cup {new} /\ nb[new] = rest /\ \A x \in DOMAIN bs : nb[x] = old[x]
  BY <1>5, <1>6 DEF with
<1>8. /\ nb[new].size = b.size - n - HEADER /\ nb[new].next = succ /\ nb[new].prev = a /\ nb[new].free
      /\ nb[new] \in Block
  BY <1>1, <1>2, <1>3, <1>7 DEF Block
<1>9. /\ nb[a].size = n /\ nb[a].next = new /\ nb[a].prev = b.prev /\ nb[a].free = b.free /\ nb[a] \in Block
  <2>1. PICK v : v = resized(b, n, new)
    OBVIOUS
  <2>2. v \in Block /\ v.size = n /\ v.next = new /\ v.free = b.free /\ v.prev = b.prev
    <3>1. PICK i \in Int : i = new
      BY <1>1
    <3>2. v = resized(b, n, i)
      BY <2>1, <3>1
    <3>3. v \in Block /\ v.size = n /\ v.next = i /\ v.free = b.free /\ v.prev = b.prev
      BY <1>3, <3>2, Resized
    <3>4. QED
      BY <3>1, <3>3
  <2>3. nb[a] = v
    BY <1>3, <1>4, <1>7, <2>1
  <2>4. QED
    BY <2>2, <2>3
<1>10. ASSUME NEW x \in DOMAIN bs, x # a
       PROVE  /\ nb[x].size = bs[x].size /\ nb[x].free = bs[x].free /\ nb[x].next = bs[x].next
              /\ nb[x].prev = IF x = succ THEN new ELSE bs[x].prev
              /\ nb[x] \in Block
  <2>1. bs[x] \in Block
    BY DEF BlocksOK
  <2>2. CASE x = succ
    <3>1. nb[x] = [bs[x] EXCEPT !.prev = new]
      BY <1>4, <1>7, <1>10, <2>2
    <3>2. QED
      BY <1>1, <2>1, <2>2, <3>1 DEF Block
  <2>3. CASE x # succ
    <3>1. nb[x] = bs[x]
      BY <1>4, <1>7, <1>10, <2>3
    <3>2. QED
      BY <2>1, <2>3, <3>1
  <2>4. QED
    BY <2>2, <2>3
<1>11. BlocksOK(nb)
  <2>1. DOMAIN bs \subseteq Nat
    BY DEF BlocksOK
  <2>2. QED
    BY <1>1, <1>7, <1>8, <1>9, <1>10, <2>1 DEF BlocksOK
<1>12. QED
  BY <1>2, <1>7, <1>8, <1>9, <1>10, <1>11 DEF IsSplit

LEMMA SplitChain ==
    ASSUME NEW bs, NEW top, NEW lent, ChainOK(bs, top, lent), NEW a \in DOMAIN bs, NEW n \in Nat,
           \E u \in Nat : n = ALIGN * u, bs[a].size >= n + HEADER,
           NEW new, new = a + HEADER + n, NEW nb, nb = split(bs, a, n)
    PROVE  IsSplit(nb, bs, a, n, new) /\ new \notin DOMAIN bs /\ ChainOK(nb, top, lent)
<1>0. BlocksOK(bs) /\ NextOK(bs) /\ PrevOK(bs) /\ LastOK(bs) /\ AlignOK(bs) /\ top \in Nat /\ SpaceOK(bs, top, lent)
  BY DEF ChainOK
<1>1. HEADER \in Nat /\ HEADER > 0 /\ a \in Nat /\ new \in Nat /\ new > a
  BY <1>0, Naturals DEF BlocksOK
<1>2. \A x \in DOMAIN bs : /\ x \in Nat /\ bs[x].next \in Int /\ bs[x].prev \in Int /\ bs[x].size \in Nat
  BY <1>0 DEF BlocksOK, Block
<1>3. PICK succ : succ = bs[a].next
  OBVIOUS
<1>4. succ # null => succ \in DOMAIN bs /\ succ > new /\ \A d \in DOMAIN bs : d > a => d >= succ
  <2>1. SUFFICES ASSUME succ # null
                 PROVE  succ \in DOMAIN bs /\ succ > new /\ \A d \in DOMAIN bs : d > a => d >= succ
    OBVIOUS
  <2>2. succ \in DOMAIN bs /\ \A d \in DOMAIN bs : d > a => d >= succ
    BY <1>0, <1>3, <2>1 DEF NextOK
  <2>3. a + HEADER + bs[a].size <= succ
    BY <1>0, <1>3, <2>1 DEF SpaceOK, Limit
  <2>4. QED
    BY <1>1, <1>2, <2>2, <2>3
<1>5. succ = null => \A d \in DOMAIN bs : d <= a
  BY <1>0, <1>3 DEF NextOK
\* The new block lies between a and its successor.
<1>6. \A d \in DOMAIN bs : d # new /\ (d > a => d > new) /\ (d < new => d <= a) /\ (d <= a => d < new)
  BY <1>1, <1>2, <1>4, <1>5
<1>7. new \notin DOMAIN bs
  BY <1>6
<1>8. IsSplit(nb, bs, a, n, new)
  BY <1>0, <1>7, SplitFields
<1>9. /\ DOMAIN nb = DOMAIN bs \cup {new}
      /\ nb[a].size = n /\ nb[a].next = new /\ nb[a].prev = bs[a].prev
      /\ nb[new].size = bs[a].size - n - HEADER /\ nb[new].next = succ /\ nb[new].prev = a
      /\ \A x \in DOMAIN bs : x # a => nb[x].size = bs[x].size /\ nb[x].next = bs[x].next
      /\ \A x \in DOMAIN bs : x # a /\ x = succ => nb[x].prev = new
      /\ \A x \in DOMAIN bs : x # a /\ x # succ => nb[x].prev = bs[x].prev
      /\ BlocksOK(nb)
  BY <1>3, <1>8 DEF IsSplit
<1>10. new # null /\ a # null
  BY <1>1 DEF null
<1>11. NextOK(nb)
  <2>1. SUFFICES ASSUME NEW x \in DOMAIN nb
                 PROVE  /\ nb[x].next = null => \A d \in DOMAIN nb : d <= x
                        /\ nb[x].next # null => /\ nb[x].next \in DOMAIN nb /\ nb[x].next > x
                                                /\ \A d \in DOMAIN nb : d > x => d >= nb[x].next
    BY DEF NextOK
  <2>2. CASE x = a
    <3>1. \A d \in DOMAIN nb : d > a => d >= new
      BY <1>1, <1>2, <1>6, <1>9
    <3>2. QED
      BY <1>1, <1>9, <1>10, <2>2, <3>1
  <2>3. CASE x = new
    <3>1. ASSUME succ = null, NEW d \in DOMAIN nb
          PROVE  d <= new
      BY <1>1, <1>2, <1>5, <1>9, <3>1
    <3>2. ASSUME succ # null, NEW d \in DOMAIN nb, d > new
          PROVE  d >= succ
      BY <1>1, <1>2, <1>4, <1>9, <3>2
    <3>3. QED
      BY <1>4, <1>9, <2>3, <3>1, <3>2
  <2>4. CASE x # a /\ x # new
    <3>1. x \in DOMAIN bs /\ nb[x].next = bs[x].next
      BY <1>9, <2>1, <2>4
    <3>2. ASSUME bs[x].next = null
          PROVE  \A d \in DOMAIN nb : d <= x
      <4>1. \A d \in DOMAIN bs : d <= x
        BY <1>0, <3>1, <3>2 DEF NextOK
      <4>2. new <= x
        BY <1>1, <1>2, <1>6, <2>4, <3>1, <4>1
      <4>3. QED
        BY <1>9, <4>1, <4>2
    <3>3. ASSUME bs[x].next # null
          PROVE  /\ bs[x].next \in DOMAIN bs /\ bs[x].next > x
                 /\ \A d \in DOMAIN nb : d > x => d >= bs[x].next
      <4>1. bs[x].next \in DOMAIN bs /\ bs[x].next > x /\ \A d \in DOMAIN bs : d > x => d >= bs[x].next
        BY <1>0, <3>1, <3>3 DEF NextOK
      <4>2. new > x => new >= bs[x].next
        <5>1. SUFFICES ASSUME new > x
                       PROVE  new >= bs[x].next
          OBVIOUS
        <5>2. x < a
          BY <1>1, <1>2, <1>6, <2>4, <3>1, <5>1
        <5>3. a >= bs[x].next
          BY <4>1, <5>2
        <5>4. QED
          BY <1>1, <1>2, <3>1, <5>3
      <4>3. QED
        BY <1>9, <4>1, <4>2
    <3>4. QED
      BY <1>9, <3>1, <3>2, <3>3
  <2>5. QED
    BY <2>2, <2>3, <2>4
<1>12. PrevOK(nb)
  <2>1. SUFFICES ASSUME NEW x \in DOMAIN nb
                 PROVE  /\ nb[x].prev = null => \A d \in DOMAIN nb : d >= x
                        /\ nb[x].prev # null => /\ nb[x].prev \in DOMAIN nb /\ nb[x].prev < x
                                                /\ \A d \in DOMAIN nb : d < x => d <= nb[x].prev
    BY DEF PrevOK
  <2>2. CASE x = new
    <3>1. \A d \in DOMAIN nb : d < new => d <= a
      BY <1>1, <1>2, <1>6, <1>9
    <3>2. QED
      BY <1>1, <1>9, <1>10, <2>2, <3>1
  <2>3. CASE x # new /\ x # a /\ x = succ
    <3>1. x \in DOMAIN bs /\ nb[x].prev = new /\ succ # null
      <4>1. x \in DOMAIN bs
        BY <1>9, <2>1, <2>3
      <4>2. x # null
        BY <1>2, <4>1 DEF null
      <4>3. QED
        BY <1>9, <2>3, <4>1, <4>2
    <3>2. \A d \in DOMAIN nb : d < x => d <= new
      BY <1>1, <1>2, <1>4, <1>9, <2>3, <3>1
    <3>3. QED
      BY <1>4, <1>9, <1>10, <2>3, <3>1, <3>2
  <2>4. CASE x # new /\ (x = a \/ x # succ)
    <3>1. x \in DOMAIN bs /\ nb[x].prev = bs[x].prev
      BY <1>9, <2>1, <2>4
    <3>2. ASSUME bs[x].prev = null
          PROVE  \A d \in DOMAIN nb : d >= x
      <4>1. \A d \in DOMAIN bs : d >= x
        BY <1>0, <3>1, <3>2 DEF PrevOK
      <4>2. new >= x
        BY <1>1, <1>2, <3>1, <4>1
      <4>3. QED
        BY <1>9, <4>1, <4>2
    <3>3. ASSUME bs[x].prev # null
          PROVE  /\ bs[x].prev \in DOMAIN bs /\ bs[x].prev < x
                 /\ \A d \in DOMAIN nb : d < x => d <= bs[x].prev
      <4>1. bs[x].prev \in DOMAIN bs /\ bs[x].prev < x /\ \A d \in DOMAIN bs : d < x => d <= bs[x].prev
        BY <1>0, <3>1, <3>3 DEF PrevOK
      <4>2. new < x => new <= bs[x].prev
        <5>1. SUFFICES ASSUME new < x
                       PROVE  new <= bs[x].prev
          OBVIOUS
        <5>2. x > a
          BY <1>1, <1>2, <3>1, <5>1
        <5>3. succ # null /\ x > succ
          BY <1>2, <1>4, <1>5, <2>4, <3>1, <5>2
        <5>4. succ <= bs[x].prev /\ succ > new /\ succ \in DOMAIN bs
          BY <1>4, <4>1, <5>3
        <5>5. QED
          BY <1>1, <1>2, <3>1, <5>4
      <4>3. QED
        BY <1>9, <4>1, <4>2
    <3>4. QED
      BY <1>9, <3>1, <3>2, <3>3
  <2>5. QED
    BY <2>2, <2>3, <2>4
<1>13. LastOK(nb)
  <2>1. PICK l \in DOMAIN bs : bs[l].next = null
    BY <1>0 DEF LastOK
  <2>2. CASE l = a
    BY <1>3, <1>9, <2>1, <2>2 DEF LastOK
  <2>3. CASE l # a
    BY <1>9, <2>1, <2>3 DEF LastOK
  <2>4. QED
    BY <2>2, <2>3
<1>14. AlignOK(nb)
  <2>1. \E u \in Nat : new = ALIGN * u
    <3>1. PICK A \in Nat : A = ALIGN /\ A > 0
      BY Naturals
    <3>2. PICK i \in Nat : a = A * i
      BY <1>0, <3>1 DEF AlignOK
    <3>3. PICK j \in Nat : n = A * j
      BY <3>1
    <3>4. PICK h \in Nat : HEADER = A * h
      <4>1. HEADER % A = 0
        BY <3>1, Naturals
      <4>2. HEADER \div A \in Nat /\ HEADER % A = HEADER - A * (HEADER \div A)
        BY <1>1, <3>1, Quotient
      <4>3. A * (HEADER \div A) \in Nat
        BY <4>2
      <4>4. HEADER = A * (HEADER \div A)
        BY <1>1, <4>1, <4>2, <4>3
      <4>5. QED
        BY <4>2, <4>4
    <3>5. A * (i + h + j) = A * i + A * h + A * j
      OBVIOUS
    <3>6. i + h + j \in Nat /\ new = A * (i + h + j)
      BY <3>2, <3>3, <3>4, <3>5
    <3>7. QED
      BY <3>1, <3>6
  <2>2. QED
    BY <1>0, <1>9, <2>1 DEF AlignOK
<1>15. SpaceOK(nb, top, lent)
  <2>1. SUFFICES ASSUME NEW x \in DOMAIN nb
                 PROVE  /\ x + HEADER + nb[x].size <= Limit(nb, x, top)
                        /\ lent = {} => x + HEADER + nb[x].size = Limit(nb, x, top)
    BY DEF SpaceOK
  <2>2. CASE x = a
    <3>1. Limit(nb, a, top) = new
      BY <1>9, <1>10 DEF Limit
    <3>2. QED
      BY <1>1, <1>9, <2>2, <3>1
  <2>3. CASE x = new
    <3>1. /\ a + HEADER + bs[a].size <= Limit(bs, a, top)
          /\ lent = {} => a + HEADER + bs[a].size = Limit(bs, a, top)
      BY <1>0 DEF SpaceOK
    <3>2. Limit(nb, new, top) = Limit(bs, a, top)
      BY <1>3, <1>9 DEF Limit
    <3>3. new + HEADER + nb[new].size = a + HEADER + bs[a].size
      BY <1>1, <1>2, <1>9
    <3>4. QED
      BY <2>3, <3>1, <3>2, <3>3
  <2>4. CASE x # a /\ x # new
    <3>1. nb[x].next = bs[x].next /\ nb[x].size = bs[x].size /\ x \in DOMAIN bs
      BY <1>9, <2>1, <2>4
    <3>2. QED
      BY <1>0, <3>1 DEF SpaceOK, Limit
  <2>5. QED
    BY <2>2, <2>3, <2>4
<1>16. QED
  BY <1>0, <1>7, <1>8, <1>9, <1>11, <1>12, <1>13, <1>14, <1>15 DEF ChainOK

\* allocate() takes block a.
LEMMA TakeBlock ==
    ASSUME NEW bs, NEW top, NEW lent, ChainOK(bs, top, lent), Coalesced(bs), NEW n \in Nat,
           \E u \in Nat : n = ALIGN * u, Fits(bs, n) # {}, NEW a, a = Min(Fits(bs, n)), NEW nb, nb = take(bs, n)
    PROVE  /\ a \in DOMAIN bs /\ bs[a].free
           /\ ChainOK(nb, top, lent) /\ Coalesced(nb)
           /\ UsedBlocks(nb) = UsedBlocks(bs) \cup {a} /\ nb[a].size >= n
           /\ \A x \in UsedBlocks(bs) : nb[x].size = bs[x].size
<1>0. BlocksOK(bs) /\ NextOK(bs) /\ PrevOK(bs)
  BY DEF ChainOK
<1>1. a \in DOMAIN bs /\ bs[a].free /\ bs[a].size >= n
  <2>1. Fits(bs, n) \subseteq Nat
    BY <1>0 DEF Fits, BlocksOK
  <2>2. a \in Fits(bs, n)
    BY <2>1, FirstIsIn
  <2>3. QED
    BY <2>2 DEF Fits
<1>2. HEADER \in Nat /\ HEADER > 0 /\ MIN_SPLIT_SIZE \in Nat /\ a \in Nat /\ bs[a].size \in Nat
  BY <1>0, <1>1, Naturals DEF BlocksOK, Block
<1>3. CASE bs[a].size >= n + HEADER + MIN_SPLIT_SIZE
  <2>1. PICK new, mid : new = a + HEADER + n /\ mid = split(bs, a, n)
    OBVIOUS
  <2>2. nb = [mid EXCEPT ![a].free = FALSE]
    BY <1>3, <2>1 DEF take
  <2>3. bs[a].size >= n + HEADER
    BY <1>2, <1>3
  <2>4. IsSplit(mid, bs, a, n, new) /\ new \notin DOMAIN bs /\ ChainOK(mid, top, lent)
    BY <1>1, <2>1, <2>3, SplitChain
  <2>5. /\ DOMAIN mid = DOMAIN bs \cup {new}
        /\ mid[a].size = n /\ mid[a].next = new
        /\ mid[new].next = bs[a].next /\ mid[new].free
        /\ \A x \in DOMAIN bs : x # a => /\ mid[x].size = bs[x].size /\ mid[x].next = bs[x].next
                                         /\ mid[x].free <=> bs[x].free
        /\ BlocksOK(mid)
    BY <2>4 DEF IsSplit
  <2>6. a \in DOMAIN mid
    BY <1>1, <2>5
  <2>7. IsMarked(nb, mid, a, FALSE)
    BY <2>2, <2>5, <2>6, Marked
  <2>8. ChainOK(nb, top, lent)
    BY <2>4, <2>6, <2>7, MarkedChain
  <2>9. /\ DOMAIN nb = DOMAIN bs \cup {new} /\ ~ nb[a].free /\ nb[a].size = n /\ nb[a].next = new
        /\ nb[new] = mid[new]
        /\ \A x \in DOMAIN bs : x # a => nb[x] = mid[x]
    <3>1. new # a
      BY <1>1, <2>4
    <3>2. QED
      BY <2>5, <2>7, <3>1 DEF IsMarked
  <2>10. UsedBlocks(nb) = UsedBlocks(bs) \cup {a}
    <3>1. nb[new].free
      BY <2>5, <2>9
    <3>2. \A x \in DOMAIN bs : x # a => (nb[x].free <=> bs[x].free)
      BY <2>5, <2>9
    <3>3. QED
      BY <1>1, <2>9, <3>1, <3>2 DEF UsedBlocks
  <2>11. \A x \in UsedBlocks(bs) : nb[x].size = bs[x].size
    <3>1. \A x \in UsedBlocks(bs) : x \in DOMAIN bs /\ x # a
      BY <1>1 DEF UsedBlocks
    <3>2. QED
      BY <2>5, <2>9, <3>1
  <2>12. Coalesced(nb)
    <3>1. SUFFICES ASSUME NEW x \in DOMAIN nb, nb[x].free, nb[x].next # null
                   PROVE  ~ nb[nb[x].next].free
      BY DEF Coalesced
    <3>2. CASE x = new
      <4>1. PICK y : y = bs[a].next /\ y = nb[x].next
        BY <2>5, <2>9, <3>2
      <4>2. y \in DOMAIN bs /\ y > a /\ ~ bs[y].free
        BY <1>0, <1>1, <3>1, <4>1 DEF NextOK, Coalesced
      <4>3. y # a
        BY <1>2, <4>2
      <4>4. ~ nb[y].free
        BY <2>5, <2>9, <4>2, <4>3
      <4>5. QED
        BY <4>1, <4>4
    <3>3. CASE x # new
      <4>1. x \in DOMAIN bs /\ x # a
        BY <2>9, <3>1, <3>3
      <4>2. nb[x].next = bs[x].next /\ bs[x].free
        BY <2>5, <2>9, <3>1, <4>1
      <4>3. PICK y : y = bs[x].next /\ y = nb[x].next
        BY <4>2
      <4>4. y \in DOMAIN bs /\ ~ bs[y].free
        BY <1>0, <3>1, <4>1, <4>2, <4>3 DEF NextOK, Coalesced
      <4>5. ~ nb[y].free
        BY <2>5, <2>9, <4>4
      <4>6. QED
        BY <4>3, <4>5
    <3>4. QED
      BY <3>2, <3>3
  <2>13. nb[a].size >= n
    BY <2>9
  <2>14. QED
    BY <1>1, <2>8, <2>10, <2>11, <2>12, <2>13
<1>4. CASE ~ (bs[a].size >= n + HEADER + MIN_SPLIT_SIZE)
  <2>1. nb = [bs EXCEPT ![a].free = FALSE]
    BY <1>4 DEF take
  <2>2. IsMarked(nb, bs, a, FALSE)
    BY <1>0, <1>1, <2>1, Marked
  <2>3. ChainOK(nb, top, lent)
    BY <1>1, <2>2, MarkedChain
  <2>4. /\ DOMAIN nb = DOMAIN bs /\ ~ nb[a].free /\ nb[a].size = bs[a].size
        /\ \A x \in DOMAIN bs : x # a => nb[x] = bs[x]
    BY <2>2 DEF IsMarked
  <2>5. UsedBlocks(nb) = UsedBlocks(bs) \cup {a}
    BY <1>1, <2>4 DEF UsedBlocks
  <2>6. \A x \in UsedBlocks(bs) : nb[x].size = bs[x].size
    BY <2>4 DEF UsedBlocks
  <2>7. Coalesced(nb)
    <3>1. SUFFICES ASSUME NEW x \in DOMAIN nb, nb[x].free, nb[x].next # null
                   PROVE  ~ nb[nb[x].next].free
      BY DEF Coalesced
    <3>2. x \in DOMAIN bs /\ x # a /\ nb[x] = bs[x]
      BY <2>4, <3>1
    <3>3. PICK y : y = bs[x].next /\ y = nb[x].next
      BY <3>2
    <3>4. y \in DOMAIN bs /\ ~ bs[y].free
      BY <1>0, <3>1, <3>2, <3>3 DEF NextOK, Coalesced
    <3>5. ~ nb[y].free
      BY <2>4, <3>4
    <3>6. QED
      BY <3>3, <3>5
  <2>8. QED
    BY <1>1, <2>3, <2>4, <2>5, <2>6, <2>7
<1>5. QED
  BY <1>3, <1>4

-----------------------------------------------------------------------------
(* allocate(): the list grows *)

\* The last block is free and takes in the new memory.
LEMMA GrownLast ==
    ASSUME NEW bs, NEW top, NEW lent, ChainOK(bs, top, lent), Coalesced(bs), NEW n \in Nat, NEW bytes \in Nat,
           bytes >= n + HEADER, NEW last \in DOMAIN bs, bs[last].next = null, bs[last].free,
           NEW nb, nb = [bs EXCEPT ![last].size = bs[last].size + bytes]
    PROVE  ChainOK(nb, top + bytes, lent) /\ Coalesced(nb) /\ KeepsUsed(nb, bs) /\ Fits(nb, n) # {}
<1>0. BlocksOK(bs) /\ NextOK(bs) /\ PrevOK(bs) /\ LastOK(bs) /\ AlignOK(bs) /\ top \in Nat /\ SpaceOK(bs, top, lent)
  BY DEF ChainOK
<1>1. bs[last] \in Block /\ bs[last].size \in Nat /\ HEADER \in Nat /\ last \in Nat
  BY <1>0, Naturals DEF BlocksOK, Block
<1>2. DOMAIN nb = DOMAIN bs /\ \A x \in DOMAIN bs : x # last => nb[x] = bs[x]
  OBVIOUS
<1>3. /\ nb[last].size = bs[last].size + bytes /\ nb[last].next = bs[last].next /\ nb[last].prev = bs[last].prev
      /\ nb[last].free /\ nb[last] \in Block
  <2>1. PICK s \in Nat : s = bs[last].size + bytes
    BY <1>1
  <2>2. nb[last] = [bs[last] EXCEPT !.size = s]
    BY <2>1
  <2>3. QED
    BY <1>1, <2>1, <2>2 DEF Block
<1>4. \A x \in DOMAIN bs : nb[x].next = bs[x].next /\ nb[x].prev = bs[x].prev /\ (nb[x].free <=> bs[x].free)
  BY <1>2, <1>3
<1>5. BlocksOK(nb)
  BY <1>0, <1>2, <1>3 DEF BlocksOK
<1>6. NextOK(nb)
  BY <1>0, <1>2, <1>4 DEF NextOK
<1>7. PrevOK(nb)
  BY <1>0, <1>2, <1>4 DEF PrevOK
<1>8. LastOK(nb) /\ AlignOK(nb)
  BY <1>0, <1>2, <1>4 DEF LastOK, AlignOK
<1>9. SpaceOK(nb, top + bytes, lent)
  <2>1. SUFFICES ASSUME NEW x \in DOMAIN nb
                 PROVE  /\ x + HEADER + nb[x].size <= Limit(nb, x, top + bytes)
                        /\ lent = {} => x + HEADER + nb[x].size = Limit(nb, x, top + bytes)
    BY DEF SpaceOK
  <2>2. CASE x = last
    <3>1. /\ last + HEADER + bs[last].size <= top
          /\ lent = {} => last + HEADER + bs[last].size = top
      BY <1>0 DEF SpaceOK, Limit
    <3>2. Limit(nb, last, top + bytes) = top + bytes
      BY <1>3 DEF Limit
    <3>3. QED
      BY <1>0, <1>1, <1>3, <2>2, <3>1, <3>2
  <2>3. CASE x # last
    <3>1. nb[x] = bs[x] /\ x \in DOMAIN bs
      BY <1>2, <2>3
    <3>2. bs[x].next # null
      <4>1. bs[x].next = null => last <= x
        BY <1>0, <3>1 DEF NextOK
      <4>2. x <= last /\ x \in Nat
        BY <1>0, <3>1 DEF NextOK, BlocksOK
      <4>3. QED
        BY <1>1, <2>3, <4>1, <4>2
    <3>3. QED
      BY <1>0, <3>1, <3>2 DEF SpaceOK, Limit
  <2>4. QED
    BY <2>2, <2>3
<1>10. Coalesced(nb)
  <2>1. SUFFICES ASSUME NEW x \in DOMAIN nb, nb[x].free, nb[x].next # null
                 PROVE  ~ nb[nb[x].next].free
    BY DEF Coalesced
  <2>2. x \in DOMAIN bs /\ nb[x].next = bs[x].next /\ bs[x].free
    BY <1>2, <1>4, <2>1
  <2>3. bs[x].next \in DOMAIN bs /\ ~ bs[bs[x].next].free
    BY <1>0, <2>1, <2>2 DEF NextOK, Coalesced
  <2>4. QED
    BY <1>4, <2>2, <2>3
<1>11. KeepsUsed(nb, bs)
  BY <1>2, <1>4 DEF KeepsUsed, UsedBlocks
<1>12. last \in Fits(nb, n)
  BY <1>1, <1>2, <1>3 DEF Fits
<1>13. PICK high \in Nat : high = top + bytes
  BY <1>0
<1>14. ChainOK(nb, high, lent)
  BY <1>5, <1>6, <1>7, <1>8, <1>9, <1>13 DEF ChainOK
<1>15. QED
  BY <1>10, <1>11, <1>12, <1>13, <1>14

\* The last block is used and the new memory becomes a block.
LEMMA GrownNew ==
    ASSUME NEW bs, NEW top, NEW lent, ChainOK(bs, top, lent), Coalesced(bs), NEW n \in Nat, NEW bytes \in Nat,
           bytes >= n + HEADER, \E u \in Nat : top = ALIGN * u,
           NEW last \in DOMAIN bs, bs[last].next = null, ~ bs[last].free,
           NEW more, more = [size |-> bytes - HEADER, free |-> TRUE, next |-> null, prev |-> last],
           NEW nb, nb = with([bs EXCEPT ![last].next = top], top, more)
    PROVE  ChainOK(nb, top + bytes, lent) /\ Coalesced(nb) /\ KeepsUsed(nb, bs) /\ Fits(nb, n) # {}
<1>0. BlocksOK(bs) /\ NextOK(bs) /\ PrevOK(bs) /\ LastOK(bs) /\ AlignOK(bs) /\ top \in Nat /\ SpaceOK(bs, top, lent)
  BY DEF ChainOK
<1>1. bs[last] \in Block /\ bs[last].size \in Nat /\ HEADER \in Nat /\ HEADER > 0 /\ last \in Nat
  BY <1>0, Naturals DEF BlocksOK, Block
<1>2. last + HEADER + bs[last].size <= top /\ (lent = {} => last + HEADER + bs[last].size = top) /\ last < top
  <2>1. last + HEADER + bs[last].size <= top /\ (lent = {} => last + HEADER + bs[last].size = top)
    BY <1>0 DEF SpaceOK, Limit
  <2>2. QED
    BY <1>0, <1>1, <2>1
<1>3. \A x \in DOMAIN bs : x \in Nat /\ x <= last /\ x < top
  BY <1>0, <1>1, <1>2 DEF NextOK, BlocksOK
<1>4. top \notin DOMAIN bs /\ top # null /\ last # null
  BY <1>0, <1>1, <1>3 DEF null
<1>5. PICK old : old = [bs EXCEPT ![last].next = top]
  OBVIOUS
<1>6. nb = with(old, top, more)
  BY <1>5
<1>7. DOMAIN old = DOMAIN bs /\ old[last] = [bs[last] EXCEPT !.next = top] /\ \A x \in DOMAIN bs : x # last => old[x] = bs[x]
  BY <1>5
<1>8. DOMAIN nb = DOMAIN bs \cup {top} /\ nb[top] = more /\ \A x \in DOMAIN bs : nb[x] = old[x]
  BY <1>4, <1>6, <1>7 DEF with
<1>9. /\ nb[last].size = bs[last].size /\ nb[last].next = top /\ nb[last].prev = bs[last].prev
      /\ ~ nb[last].free /\ nb[last] \in Block
  <2>1. nb[last] = [bs[last] EXCEPT !.next = top]
    BY <1>7, <1>8
  <2>2. QED
    BY <1>0, <1>1, <2>1 DEF Block
<1>10. /\ nb[top].size = bytes - HEADER /\ nb[top].free /\ nb[top].next = null /\ nb[top].prev = last
       /\ nb[top] \in Block
  <2>1. PICK s \in Nat, l \in Int, e \in Int : s = bytes - HEADER /\ l = last /\ e = null
    BY <1>1 DEF null
  <2>2. more = [size |-> s, free |-> TRUE, next |-> e, prev |-> l]
    BY <2>1
  <2>3. more \in Block /\ more.size = s /\ more.free /\ more.next = e /\ more.prev = l
    BY <2>2 DEF Block
  <2>4. QED
    BY <1>8, <2>1, <2>3
<1>11. \A x \in DOMAIN bs : x # last => nb[x] = bs[x]
  BY <1>7, <1>8
<1>12. BlocksOK(nb)
  BY <1>0, <1>8, <1>9, <1>10, <1>11 DEF BlocksOK
<1>13. \A x \in DOMAIN bs : x # last => bs[x].next # null
  <2>1. \A x \in DOMAIN bs : bs[x].next = null => last <= x
    BY <1>0 DEF NextOK
  <2>2. QED
    BY <1>1, <1>3, <2>1
<1>14. NextOK(nb)
  <2>1. SUFFICES ASSUME NEW x \in DOMAIN nb
                 PROVE  /\ nb[x].next = null => \A d \in DOMAIN nb : d <= x
                        /\ nb[x].next # null => /\ nb[x].next \in DOMAIN nb /\ nb[x].next > x
                                                /\ \A d \in DOMAIN nb : d > x => d >= nb[x].next
    BY DEF NextOK
  <2>2. CASE x = top
    <3>1. \A d \in DOMAIN nb : d <= top
      BY <1>0, <1>3, <1>8
    <3>2. QED
      BY <1>10, <2>2, <3>1
  <2>3. CASE x = last
    <3>1. \A d \in DOMAIN nb : d > last => d >= top
      BY <1>0, <1>1, <1>3, <1>8
    <3>2. top \in DOMAIN nb /\ top > last
      BY <1>0, <1>1, <1>2, <1>8
    <3>3. QED
      BY <1>4, <1>9, <2>3, <3>1, <3>2
  <2>4. CASE x # top /\ x # last
    <3>1. x \in DOMAIN bs /\ nb[x] = bs[x]
      BY <1>8, <1>11, <2>1, <2>4
    <3>2. /\ bs[x].next \in DOMAIN bs /\ bs[x].next > x
          /\ \A d \in DOMAIN bs : d > x => d >= bs[x].next
      BY <1>0, <1>13, <2>4, <3>1 DEF NextOK
    <3>3. top >= bs[x].next
      BY <1>0, <1>3, <3>2
    <3>4. QED
      BY <1>8, <1>13, <2>4, <3>1, <3>2, <3>3
  <2>5. QED
    BY <2>2, <2>3, <2>4
<1>15. PrevOK(nb)
  <2>1. SUFFICES ASSUME NEW x \in DOMAIN nb
                 PROVE  /\ nb[x].prev = null => \A d \in DOMAIN nb : d >= x
                        /\ nb[x].prev # null => /\ nb[x].prev \in DOMAIN nb /\ nb[x].prev < x
                                                /\ \A d \in DOMAIN nb : d < x => d <= nb[x].prev
    BY DEF PrevOK
  <2>2. CASE x = top
    <3>1. \A d \in DOMAIN nb : d < top => d <= last
      BY <1>0, <1>3, <1>8
    <3>2. QED
      BY <1>2, <1>4, <1>8, <1>10, <2>2, <3>1
  <2>3. CASE x # top
    <3>1. x \in DOMAIN bs /\ nb[x].prev = bs[x].prev
      BY <1>8, <1>9, <1>11, <2>1, <2>3
    <3>2. top > x
      BY <1>0, <1>3, <3>1
    <3>3. ~ (top < x) /\ top >= x
      BY <1>0, <1>3, <3>1, <3>2
    <3>4. bs[x].prev = null => \A d \in DOMAIN bs : d >= x
      BY <1>0, <3>1 DEF PrevOK
    <3>5. bs[x].prev # null => /\ bs[x].prev \in DOMAIN bs /\ bs[x].prev < x
                               /\ \A d \in DOMAIN bs : d < x => d <= bs[x].prev
      BY <1>0, <3>1 DEF PrevOK
    <3>6. QED
      BY <1>8, <3>1, <3>3, <3>4, <3>5
  <2>4. QED
    BY <2>2, <2>3
<1>16. LastOK(nb)
  BY <1>8, <1>10 DEF LastOK
<1>17. AlignOK(nb)
  BY <1>0, <1>8 DEF AlignOK
<1>18. SpaceOK(nb, top + bytes, lent)
  <2>1. SUFFICES ASSUME NEW x \in DOMAIN nb
                 PROVE  /\ x + HEADER + nb[x].size <= Limit(nb, x, top + bytes)
                        /\ lent = {} => x + HEADER + nb[x].size = Limit(nb, x, top + bytes)
    BY DEF SpaceOK
  <2>2. CASE x = last
    <3>1. Limit(nb, last, top + bytes) = top
      BY <1>4, <1>9 DEF Limit
    <3>2. QED
      BY <1>2, <1>9, <2>2, <3>1
  <2>3. CASE x = top
    <3>1. Limit(nb, top, top + bytes) = top + bytes
      BY <1>10 DEF Limit
    <3>2. QED
      BY <1>0, <1>1, <1>10, <2>3, <3>1
  <2>4. CASE x # top /\ x # last
    <3>1. x \in DOMAIN bs /\ nb[x] = bs[x] /\ bs[x].next # null
      BY <1>8, <1>11, <1>13, <2>1, <2>4
    <3>2. QED
      BY <1>0, <3>1 DEF SpaceOK, Limit
  <2>5. QED
    BY <2>2, <2>3, <2>4
<1>19. Coalesced(nb)
  <2>1. SUFFICES ASSUME NEW x \in DOMAIN nb, nb[x].free, nb[x].next # null
                 PROVE  ~ nb[nb[x].next].free
    BY DEF Coalesced
  <2>2. x # top /\ x # last
    BY <1>9, <1>10, <2>1
  <2>3. x \in DOMAIN bs /\ nb[x] = bs[x]
    BY <1>8, <1>11, <2>1, <2>2
  <2>4. PICK y : y = bs[x].next
    OBVIOUS
  <2>5. y \in DOMAIN bs /\ ~ bs[y].free
    BY <1>0, <2>1, <2>3, <2>4 DEF NextOK, Coalesced
  <2>6. ~ nb[y].free
    BY <1>9, <1>11, <2>5
  <2>7. QED
    BY <2>3, <2>4, <2>6
<1>20. KeepsUsed(nb, bs)
  <2>1. \A x \in DOMAIN bs : nb[x].size = bs[x].size /\ (nb[x].free <=> bs[x].free)
    BY <1>9, <1>11
  <2>2. UsedBlocks(nb) = UsedBlocks(bs)
    BY <1>8, <1>10, <2>1 DEF UsedBlocks
  <2>3. QED
    BY <2>1, <2>2 DEF KeepsUsed, UsedBlocks
<1>21. top \in Fits(nb, n)
  BY <1>1, <1>8, <1>10 DEF Fits
<1>22. PICK high \in Nat : high = top + bytes
  BY <1>0
<1>23. ChainOK(nb, high, lent)
  BY <1>12, <1>14, <1>15, <1>16, <1>17, <1>18, <1>22 DEF ChainOK
<1>24. QED
  BY <1>19, <1>20, <1>21, <1>22, <1>23

LEMMA GrownChain ==
    ASSUME NEW bs, NEW top, NEW lent, ChainOK(bs, top, lent), Coalesced(bs), NEW n \in Nat, NEW bytes \in Nat,
           bytes >= n + HEADER, \E u \in Nat : top = ALIGN * u, DOMAIN bs # {}, NEW nb, nb = grown(bs, top, bytes)
    PROVE  ChainOK(nb, top + bytes, lent) /\ Coalesced(nb) /\ KeepsUsed(nb, bs) /\ Fits(nb, n) # {}
<1>1. PICK last : last = Last(bs)
  OBVIOUS
<1>2. last \in DOMAIN bs /\ bs[last].next = null
  BY <1>1 DEF ChainOK, LastOK, Last
<1>3. CASE bs[last].free
  <2>1. nb = [bs EXCEPT ![last].size = bs[last].size + bytes]
    BY <1>1, <1>3 DEF grown
  <2>2. QED
    BY <1>2, <1>3, <2>1, GrownLast
<1>4. CASE ~ bs[last].free
  <2>1. PICK more : more = [size |-> bytes - HEADER, free |-> TRUE, next |-> null, prev |-> last]
    OBVIOUS
  <2>2. nb = with([bs EXCEPT ![last].next = top], top, more)
    BY <1>1, <1>4, <2>1 DEF grown
  <2>3. QED
    BY <1>2, <1>4, <2>1, <2>2, GrownNew
<1>5. QED
  BY <1>3, <1>4

-----------------------------------------------------------------------------
(* What clients hold *)

LiveOK(held, bs) ==
    /\ DOMAIN held \subseteq Nat
    /\ \A p \in DOMAIN held : p - HEADER \in UsedBlocks(bs) /\ held[p] \in Sizes /\ held[p] <= bs[p - HEADER].size
    /\ \A a \in UsedBlocks(bs) : a + HEADER \in DOMAIN held

LEMMA LiveStays ==
    ASSUME NEW held, NEW bs, NEW nb, LiveOK(held, bs), KeepsUsed(nb, bs)
    PROVE  LiveOK(held, nb)
BY DEF LiveOK, KeepsUsed

\* allocate() finds room in the list bs.
LEMMA GotBlock ==
    ASSUME NEW bs, NEW top, NEW lent, ChainOK(bs, top, lent), Coalesced(bs), NEW held, LiveOK(held, bs),
           NEW size \in Sizes, NEW n, n = aligned(size), Fits(bs, n) # {}, NEW nb, nb = take(bs, n),
           NEW got, got = with(held, Min(Fits(bs, n)) + HEADER, size)
    PROVE  ChainOK(nb, top, lent) /\ Coalesced(nb) /\ LiveOK(got, nb)
<1>1. n \in Nat /\ n >= size /\ size \in Nat /\ HEADER \in Nat /\ \E u \in Nat : n = ALIGN * u
  BY SizeFacts, Naturals
<1>2. PICK a, p : a = Min(Fits(bs, n)) /\ p = a + HEADER
  OBVIOUS
<1>3. /\ a \in DOMAIN bs /\ bs[a].free
      /\ ChainOK(nb, top, lent) /\ Coalesced(nb)
      /\ UsedBlocks(nb) = UsedBlocks(bs) \cup {a} /\ nb[a].size >= n
      /\ \A x \in UsedBlocks(bs) : nb[x].size = bs[x].size
  BY <1>1, <1>2, TakeBlock
<1>4. a \in Nat /\ nb[a].size \in Nat
  <2>1. a \in DOMAIN nb
    BY <1>3 DEF UsedBlocks
  <2>2. QED
    BY <1>3, <2>1 DEF ChainOK, BlocksOK, Block
<1>5. /\ DOMAIN got = DOMAIN held \cup {p} /\ got[p] = size
      /\ \A x \in DOMAIN held : x # p => got[x] = held[x]
  BY <1>2 DEF with
<1>6. p \in Nat /\ p - HEADER = a
  BY <1>1, <1>2, <1>4
<1>7. ASSUME NEW x \in DOMAIN got
      PROVE  x \in Nat /\ x - HEADER \in UsedBlocks(nb) /\ got[x] \in Sizes /\ got[x] <= nb[x - HEADER].size
  <2>1. CASE x = p
    BY <1>1, <1>3, <1>4, <1>5, <1>6, <2>1
  <2>2. CASE x # p
    BY <1>3, <1>5, <2>2 DEF LiveOK
  <2>3. QED
    BY <2>1, <2>2
<1>8. \A x \in UsedBlocks(nb) : x + HEADER \in DOMAIN got
  BY <1>2, <1>3, <1>5 DEF LiveOK
<1>9. LiveOK(got, nb)
  BY <1>7, <1>8 DEF LiveOK
<1>10. QED
  BY <1>3, <1>9

\* free() of what a client holds at p.
LEMMA FreedPayload ==
    ASSUME NEW bs, NEW top, NEW lent, ChainOK(bs, top, lent), Coalesced(bs), NEW held, LiveOK(held, bs),
           NEW p \in DOMAIN held, NEW a, a = p - HEADER, NEW freed, IsMarked(freed, bs, a, TRUE),
           NEW nb, nb = merged_with_prev(merged_with_next(freed, a), a),
           NEW rest, rest = [q \in DOMAIN held \ {p} |-> held[q]]
    PROVE  ChainOK(nb, top, lent) /\ Coalesced(nb) /\ LiveOK(rest, nb)
<1>1. a \in UsedBlocks(bs) /\ p \in Nat /\ HEADER \in Nat
  BY Naturals DEF LiveOK
<1>2. a \in DOMAIN bs /\ BlocksOK(bs) /\ a \in Nat
  BY <1>1 DEF UsedBlocks, ChainOK, BlocksOK
<1>4. /\ ChainOK(nb, top, lent) /\ Coalesced(nb)
      /\ UsedBlocks(nb) = UsedBlocks(bs) \ {a}
      /\ \A x \in UsedBlocks(bs) \ {a} : nb[x].size = bs[x].size
  <2>1. ChainOK(nb, top, lent) /\ Coalesced(nb) /\ UsedWithout(nb, bs, a)
    BY <1>1, FreeBlock
  <2>2. QED
    BY <2>1 DEF UsedWithout
<1>5. DOMAIN rest = DOMAIN held \ {p} /\ \A x \in DOMAIN held : x # p => rest[x] = held[x]
  OBVIOUS
<1>6. ASSUME NEW x \in DOMAIN rest
      PROVE  x \in Nat /\ x - HEADER \in UsedBlocks(nb) /\ rest[x] \in Sizes /\ rest[x] <= nb[x - HEADER].size
  <2>1. x \in DOMAIN held /\ x # p /\ x \in Nat
    BY <1>5 DEF LiveOK
  <2>2. x - HEADER # a
    BY <1>1, <2>1
  <2>3. QED
    BY <1>4, <1>5, <2>1, <2>2 DEF LiveOK
<1>7. \A x \in UsedBlocks(nb) : x + HEADER \in DOMAIN rest
  <2>1. SUFFICES ASSUME NEW x \in UsedBlocks(nb)
                 PROVE  x + HEADER \in DOMAIN rest
    OBVIOUS
  <2>2. x \in UsedBlocks(bs) /\ x # a
    BY <1>4
  <2>3. x \in Nat
    BY <1>2, <2>2 DEF UsedBlocks, BlocksOK
  <2>4. x + HEADER \in DOMAIN held /\ x + HEADER # p
    BY <1>1, <2>2, <2>3 DEF LiveOK
  <2>5. QED
    BY <1>5, <2>4
<1>8. LiveOK(rest, nb)
  BY <1>6, <1>7 DEF LiveOK
<1>9. QED
  BY <1>4, <1>8

\* Somebody else's sbrk() moves the end of the heap away from the last block.
LEMMA BreakMoved ==
    ASSUME NEW bs, NEW top, NEW lent, ChainOK(bs, top, lent), NEW high \in Nat, high >= top,
           NEW more, more # {}
    PROVE  ChainOK(bs, high, more)
<1>1. \A a \in DOMAIN bs : a \in Nat /\ bs[a].size \in Nat /\ bs[a].next \in Int /\ HEADER \in Nat
  BY Naturals DEF ChainOK, BlocksOK, Block
<1>2. SpaceOK(bs, high, more)
  <2>1. SUFFICES ASSUME NEW a \in DOMAIN bs
                 PROVE  a + HEADER + bs[a].size <= Limit(bs, a, high)
    BY DEF SpaceOK
  <2>2. a + HEADER + bs[a].size <= Limit(bs, a, top) /\ top \in Nat
    BY DEF ChainOK, SpaceOK
  <2>3. QED
    BY <1>1, <2>2 DEF Limit
<1>3. QED
  BY <1>2 DEF ChainOK

-----------------------------------------------------------------------------
(* The invariant *)

ListInv == ChainOK(block, brk, given) /\ Coalesced(block) /\ LiveOK(live, block)

HeapInv == MemInv /\ ListInv /\ given \subseteq Addresses

LEMMA MemUnchanged ==
    ASSUME MemInv, UNCHANGED <<pmmVars, brk, mapped, tables, others>>
    PROVE  MemInv'
<1>1. UNCHANGED pmmFixed /\ bitmap' = bitmap /\ brk' = brk /\ mapped' = mapped /\ tables' = tables /\ others' = others
  BY DEF pmmVars
<1>2. MemOK(bitmap', mapped', tables', others')
  BY <1>1 DEF MemInv
<1>3. PmmOK' /\ MemOK(bitmap, mapped, tables, others)'
  BY <1>1, <1>2, PmmStays DEF MemInv
<1>4. BreakOK'
  BY <1>1 DEF MemInv, BreakOK
<1>5. QED
  BY <1>3, <1>4 DEF MemInv

LEMMA BreakAligned ==
    ASSUME MemInv
    PROVE  brk \in Nat /\ \E u \in Nat : brk = ALIGN * u
<1>1. PICK q \in Nat : brk = PAGE_SIZE * q
  BY DEF MemInv, BreakOK
<1>2. PICK P \in Nat, A \in Nat : P = PAGE_SIZE /\ A = ALIGN /\ A > 0
  BY Naturals
<1>3. PICK d \in Nat : d = P \div A
  BY <1>2, Quotient
<1>4. P = A * d
  <2>1. P % A = 0 /\ P % A = P - A * d
    BY <1>2, <1>3, Naturals, Quotient
  <2>2. A * d \in Nat
    OBVIOUS
  <2>3. QED
    BY <2>1, <2>2
<1>5. (A * d) * q = A * (d * q) /\ d * q \in Nat /\ P * q \in Nat
  OBVIOUS
<1>6. QED
  BY <1>1, <1>2, <1>4, <1>5

LEMMA InitOK ==
    ASSUME Init
    PROVE  HeapInv
<1>1. MemInv
  BY MemInit
<1>2. PICK m : m = sbrk(Memory(initial_bitmap(boot), Nothing, Nothing), 0, PAGE_SIZE)
  OBVIOUS
<1>3. /\ brk = (IF m.ok THEN PAGE_SIZE ELSE 0) /\ live = Nothing /\ given = {}
      /\ block = IF m.ok THEN with(Nothing, 0, [size |-> PAGE_SIZE - HEADER, free |-> TRUE,
                                                 next |-> null, prev |-> null])
                 ELSE Nothing
  BY <1>2 DEF Init
<1>4. DOMAIN Nothing = {}
  BY DEF Nothing
<1>5. CASE m.ok
  <2>1. PICK only : only = [size |-> PAGE_SIZE - HEADER, free |-> TRUE, next |-> null, prev |-> null]
    OBVIOUS
  <2>2. PICK bs : bs = with(Nothing, 0, only)
    OBVIOUS
  <2>3. DOMAIN bs = {0} /\ bs[0] = only
    BY <1>4, <2>2 DEF with
  <2>4. PICK s \in Nat, e \in Int : s = PAGE_SIZE - HEADER /\ e = null
    BY Naturals DEF null
  <2>5. only = [size |-> s, free |-> TRUE, next |-> e, prev |-> e]
    BY <2>1, <2>4
  <2>6. only \in Block /\ only.size = s /\ only.free /\ only.next = e /\ only.prev = e
    BY <2>5 DEF Block
  <2>7. BlocksOK(bs)
    BY <2>3, <2>6 DEF BlocksOK
  <2>8. NextOK(bs) /\ PrevOK(bs) /\ LastOK(bs)
    BY <2>3, <2>4, <2>6 DEF NextOK, PrevOK, LastOK
  <2>9. AlignOK(bs)
    <3>1. 0 = ALIGN * 0
      BY Naturals
    <3>2. QED
      BY <2>3, <3>1 DEF AlignOK
  <2>10. SpaceOK(bs, PAGE_SIZE, {})
    <3>1. 0 + HEADER + s = PAGE_SIZE
      BY <2>4, Naturals
    <3>2. Limit(bs, 0, PAGE_SIZE) = PAGE_SIZE
      BY <2>3, <2>4, <2>6 DEF Limit
    <3>3. 0 + HEADER + bs[0].size = Limit(bs, 0, PAGE_SIZE) /\ PAGE_SIZE \in Nat
      BY <2>3, <2>6, <3>1, <3>2, Naturals
    <3>4. 0 + HEADER + bs[0].size <= Limit(bs, 0, PAGE_SIZE)
      BY <3>2, <3>3
    <3>5. QED
      BY <2>3, <3>3, <3>4 DEF SpaceOK
  <2>11. ChainOK(bs, PAGE_SIZE, {})
    BY <2>7, <2>8, <2>9, <2>10, Naturals DEF ChainOK
  <2>12. Coalesced(bs)
    BY <2>3, <2>4, <2>6 DEF Coalesced
  <2>13. LiveOK(Nothing, bs)
    BY <1>4, <2>3, <2>6 DEF LiveOK, UsedBlocks
  <2>14. block = bs /\ brk = PAGE_SIZE
    BY <1>3, <1>5, <2>1, <2>2
  <2>15. QED
    BY <1>1, <1>3, <2>11, <2>12, <2>13, <2>14 DEF HeapInv, ListInv
<1>6. CASE ~ m.ok
  <2>1. block = Nothing /\ brk = 0
    BY <1>3, <1>6
  <2>2. ChainOK(Nothing, 0, {})
    BY <1>4 DEF ChainOK, BlocksOK, NextOK, PrevOK, LastOK, AlignOK, SpaceOK
  <2>3. Coalesced(Nothing) /\ LiveOK(Nothing, Nothing)
    BY <1>4 DEF Coalesced, LiveOK, UsedBlocks
  <2>4. QED
    BY <1>1, <1>3, <2>1, <2>2, <2>3 DEF HeapInv, ListInv
<1>7. QED
  BY <1>5, <1>6

LEMMA AllocateStep ==
    ASSUME HeapInv, NEW size \in Sizes, allocate(size)
    PROVE  HeapInv'
<1>0. /\ MemInv /\ ChainOK(block, brk, given) /\ Coalesced(block) /\ LiveOK(live, block)
      /\ given \subseteq Addresses
  BY DEF HeapInv, ListInv
<1>1. PICK n, bytes : n = aligned(size) /\ bytes = pages_needed(n) * PAGE_SIZE
  OBVIOUS
<1>2. UNCHANGED <<given, others>> /\ DOMAIN block # {}
  BY DEF allocate
<1>3. (given \subseteq Addresses)'
  BY <1>0, <1>2 DEF Addresses
<1>4. PICK k \in Nat : k > 0 /\ bytes = PAGE_SIZE * k /\ PAGE_SIZE * k >= n + HEADER
  BY <1>1, SizeFacts
<1>5. n \in Nat /\ bytes \in Nat
  BY <1>1, <1>4, SizeFacts, Naturals
<1>6. PICK bs, top, lent, held : bs = block /\ top = brk /\ lent = given /\ held = live
  OBVIOUS
<1>7. CASE /\ Fits(block, n) # {} /\ block' = take(block, n)
           /\ live' = with(live, Min(Fits(block, n)) + HEADER, size)
           /\ UNCHANGED <<pmmVars, brk, mapped, tables>>
  <2>1. MemInv'
    BY <1>0, <1>2, <1>7, MemUnchanged
  <2>2. PICK nb, got : nb = take(bs, n) /\ got = with(held, Min(Fits(bs, n)) + HEADER, size)
    OBVIOUS
  <2>3. ChainOK(bs, top, lent) /\ Coalesced(bs) /\ LiveOK(held, bs) /\ Fits(bs, n) # {}
    BY <1>0, <1>6, <1>7
  <2>4. ChainOK(nb, top, lent) /\ Coalesced(nb) /\ LiveOK(got, nb)
    BY <1>1, <2>2, <2>3, GotBlock
  <2>5. block' = nb /\ live' = got /\ brk' = top /\ given' = lent
    BY <1>2, <1>6, <1>7, <2>2
  <2>6. ListInv'
    BY <2>4, <2>5 DEF ListInv
  <2>7. QED
    BY <1>3, <2>1, <2>6 DEF HeapInv
<1>8. CASE /\ sbrk_now(bytes).ok /\ sbrk_effect(sbrk_now(bytes), bytes)
           /\ block' = take(grown(block, brk, bytes), n)
           /\ live' = with(live, Min(Fits(grown(block, brk, bytes), n)) + HEADER, size)
  <2>1. MemInv' /\ brk' = brk + bytes
    BY <1>0, <1>2, <1>4, <1>8, SbrkStep
  <2>2. PICK high, gs : high = top + bytes /\ gs = grown(bs, top, bytes)
    OBVIOUS
  <2>3. PICK nb, got : nb = take(gs, n) /\ got = with(held, Min(Fits(gs, n)) + HEADER, size)
    OBVIOUS
  <2>4. ChainOK(bs, top, lent) /\ Coalesced(bs) /\ LiveOK(held, bs) /\ DOMAIN bs # {}
    BY <1>0, <1>2, <1>6
  <2>5. \E u \in Nat : top = ALIGN * u
    BY <1>0, <1>6, BreakAligned
  <2>6. bytes >= n + HEADER
    BY <1>4
  <2>7. ChainOK(gs, high, lent) /\ Coalesced(gs) /\ KeepsUsed(gs, bs) /\ Fits(gs, n) # {}
    BY <1>5, <2>2, <2>4, <2>5, <2>6, GrownChain
  <2>8. LiveOK(held, gs)
    BY <2>4, <2>7, LiveStays
  <2>9. ChainOK(nb, high, lent) /\ Coalesced(nb) /\ LiveOK(got, nb)
    BY <1>1, <2>3, <2>7, <2>8, GotBlock
  <2>10. block' = nb /\ live' = got /\ brk' = high /\ given' = lent
    BY <1>2, <1>6, <1>8, <2>1, <2>2, <2>3
  <2>11. ListInv'
    BY <2>9, <2>10 DEF ListInv
  <2>12. QED
    BY <1>3, <2>1, <2>11 DEF HeapInv
<1>9. CASE ~ sbrk_now(bytes).ok /\ sbrk_effect(sbrk_now(bytes), bytes) /\ UNCHANGED <<block, live>>
  <2>1. MemInv' /\ brk' = brk
    BY <1>0, <1>2, <1>4, <1>9, SbrkStep
  <2>2. ChainOK(bs, top, lent) /\ Coalesced(bs) /\ LiveOK(held, bs)
    BY <1>0, <1>6
  <2>3. block' = bs /\ live' = held /\ brk' = top /\ given' = lent
    BY <1>2, <1>6, <1>9, <2>1
  <2>4. ListInv'
    BY <2>2, <2>3 DEF ListInv
  <2>5. QED
    BY <1>3, <2>1, <2>4 DEF HeapInv
<1>10. QED
  BY <1>1, <1>7, <1>8, <1>9 DEF allocate

LEMMA FreeStep ==
    ASSUME HeapInv, NEW p \in DOMAIN live, free(p)
    PROVE  HeapInv'
<1>0. /\ MemInv /\ ChainOK(block, brk, given) /\ Coalesced(block) /\ LiveOK(live, block)
      /\ given \subseteq Addresses
  BY DEF HeapInv, ListInv
<1>1. UNCHANGED <<pmmVars, brk, mapped, tables, given, others>>
  BY DEF free
<1>2. MemInv'
  BY <1>0, <1>1, MemUnchanged
<1>3. PICK bs, top, lent, held, a : bs = block /\ top = brk /\ lent = given /\ held = live /\ a = p - HEADER
  OBVIOUS
<1>4. PICK freed : freed = [bs EXCEPT ![a].free = TRUE]
  OBVIOUS
<1>5. PICK nb, rest : /\ nb = merged_with_prev(merged_with_next(freed, a), a)
                      /\ rest = [q \in DOMAIN held \ {p} |-> held[q]]
  OBVIOUS
<1>6. block' = nb /\ live' = rest
  BY <1>3, <1>4, <1>5 DEF free
<1>7. ChainOK(bs, top, lent) /\ Coalesced(bs) /\ LiveOK(held, bs) /\ p \in DOMAIN held
  BY <1>0, <1>3
<1>8. IsMarked(freed, bs, a, TRUE)
  <2>1. a \in DOMAIN bs /\ BlocksOK(bs)
    BY <1>3, <1>7 DEF LiveOK, UsedBlocks, ChainOK
  <2>2. QED
    BY <1>4, <2>1, Marked
<1>9. ChainOK(nb, top, lent) /\ Coalesced(nb) /\ LiveOK(rest, nb)
  <2>1. a = p - HEADER
    BY <1>3
  <2>2. QED
    BY <1>5, <1>7, <1>8, <2>1, FreedPayload
<1>10. brk' = top /\ given' = lent
  BY <1>1, <1>3
<1>11. ListInv'
  BY <1>6, <1>9, <1>10 DEF ListInv
<1>12. (given \subseteq Addresses)'
  BY <1>0, <1>1 DEF Addresses
<1>13. QED
  BY <1>2, <1>11, <1>12 DEF HeapInv

LEMMA SbrkCallStep ==
    ASSUME HeapInv, NEW n \in Increments, sbrk_call(n)
    PROVE  HeapInv'
<1>0. /\ MemInv /\ ChainOK(block, brk, given) /\ Coalesced(block) /\ LiveOK(live, block)
      /\ given \subseteq Addresses
  BY DEF HeapInv, ListInv
<1>1. n \in Nat /\ n > 0 /\ n % PAGE_SIZE = 0
  BY HeapConstants
<1>2. PICK P \in Nat : P = PAGE_SIZE /\ P > 0
  BY Naturals
<1>3. PICK k \in Nat : n = P * k /\ k > 0
  <2>1. PICK d \in Nat : d = n \div P
    BY <1>1, <1>2, Quotient
  <2>2. n % P = n - P * d /\ P * d \in Nat
    BY <1>1, <1>2, <2>1, Quotient
  <2>3. n = P * d
    BY <1>1, <1>2, <2>2
  <2>4. d = 0 => P * d = 0
    OBVIOUS
  <2>5. QED
    BY <1>1, <2>3, <2>4
<1>4. /\ sbrk_effect(sbrk_now(n), n) /\ UNCHANGED <<block, live, others>>
      /\ given' = IF sbrk_now(n).ok THEN given \cup brk .. brk + n - 1 ELSE given
  BY DEF sbrk_call
<1>5. /\ MemInv'
      /\ sbrk_now(n).ok => brk' = brk + n
      /\ ~ sbrk_now(n).ok => brk' = brk
  BY <1>0, <1>2, <1>3, <1>4, SbrkStep
<1>6. PICK bs, held, lent, more : bs = block /\ held = live /\ lent = given /\ more = given'
  OBVIOUS
<1>7. PICK top \in Nat : top = brk
  BY <1>0, BreakAligned
<1>8. bs = block' /\ held = live' /\ Coalesced(bs) /\ LiveOK(held, bs) /\ ChainOK(bs, top, lent)
  BY <1>0, <1>4, <1>6, <1>7
<1>9. CASE sbrk_now(n).ok
  <2>1. PICK high \in Nat : high = brk' /\ high = top + n
    BY <1>1, <1>5, <1>7, <1>9
  <2>2. more = lent \cup top .. top + n - 1
    BY <1>4, <1>6, <1>7, <1>9
  <2>3. more # {}
    <3>1. top \in top .. top + n - 1
      BY <1>1
    <3>2. QED
      BY <2>2, <3>1
  <2>4. ChainOK(bs, high, more)
    BY <1>1, <1>8, <2>1, <2>3, BreakMoved
  <2>5. ListInv'
    BY <1>6, <1>8, <2>1, <2>4 DEF ListInv
  <2>6. more \subseteq Addresses
    <3>1. high <= VIRT_END /\ VIRT_END \in Nat
      BY <1>5, <2>1, Naturals DEF MemInv, BreakOK
    <3>2. \A x \in top .. top + n - 1 : x \in Addresses
      BY <1>1, <2>1, <3>1 DEF Addresses
    <3>3. QED
      BY <1>0, <1>6, <2>2, <3>2
  <2>7. QED
    BY <1>5, <1>6, <2>5, <2>6 DEF HeapInv, Addresses
<1>10. CASE ~ sbrk_now(n).ok
  <2>1. brk' = top /\ more = lent
    BY <1>4, <1>5, <1>6, <1>7, <1>10
  <2>2. ListInv'
    BY <1>6, <1>8, <2>1 DEF ListInv
  <2>3. QED
    BY <1>0, <1>5, <1>6, <2>1, <2>2 DEF HeapInv, Addresses
<1>11. QED
  BY <1>9, <1>10

LEMMA OthersAllocateStep ==
    ASSUME HeapInv, others_allocate
    PROVE  HeapInv'
<1>0. MemInv /\ ListInv /\ given \subseteq Addresses /\ PmmOK /\ BreakOK
  BY DEF HeapInv, MemInv
<1>1. UNCHANGED pmmFixed /\ UNCHANGED heapVars /\ can_allocate(bitmap)
  BY DEF others_allocate
<1>2. PICK used, pages, tabs, oth, p : /\ used = bitmap /\ pages = mapped /\ tabs = tables /\ oth = others
                                       /\ p = allocated(used)
  OBVIOUS
<1>3. p \in Pages /\ p \notin used /\ p \in 0 .. MAX_PAGES - 1
  BY <1>0, <1>1, <1>2, Allocated
<1>4. MemOK(used, pages, tabs, oth)
  BY <1>0, <1>2 DEF MemInv
<1>5. MemOK(used \cup {p}, pages, tabs, oth \cup {p})
  <2>1. UsablePage(p)
    BY <1>3, <1>4 DEF MemOK
  <2>2. QED
    BY <1>3, <1>4, <2>1 DEF MemOK
<1>6. bitmap' = used \cup {p} /\ mapped' = pages /\ tables' = tabs /\ others' = oth \cup {p}
  BY <1>1, <1>2 DEF others_allocate, heapVars
<1>7. PmmOK' /\ MemOK(bitmap, mapped, tables, others)'
  <2>1. MemOK(bitmap', mapped', tables', others')
    BY <1>5, <1>6
  <2>2. QED
    BY <1>0, <1>1, <2>1, PmmStays
<1>8. BreakOK' /\ ListInv' /\ (given \subseteq Addresses)'
  BY <1>0, <1>1 DEF heapVars, BreakOK, ListInv, Addresses
<1>9. QED
  BY <1>7, <1>8 DEF HeapInv, MemInv

LEMMA OthersFreeStep ==
    ASSUME HeapInv, NEW p \in others, others_free(p)
    PROVE  HeapInv'
<1>0. MemInv /\ ListInv /\ given \subseteq Addresses /\ PmmOK /\ BreakOK
  BY DEF HeapInv, MemInv
<1>1. UNCHANGED pmmFixed /\ UNCHANGED heapVars
  BY DEF others_free
<1>2. PICK used, pages, tabs, oth : /\ used = bitmap /\ pages = mapped /\ tabs = tables /\ oth = others
  OBVIOUS
<1>3. MemOK(used, pages, tabs, oth) /\ p \in oth
  BY <1>0, <1>2 DEF MemInv
<1>4. MemOK(used \ {p}, pages, tabs, oth \ {p})
  BY <1>3 DEF MemOK
<1>5. bitmap' = used \ {p} /\ mapped' = pages /\ tables' = tabs /\ others' = oth \ {p}
  BY <1>1, <1>2 DEF others_free, free_page, heapVars
<1>6. PmmOK' /\ MemOK(bitmap, mapped, tables, others)'
  <2>1. MemOK(bitmap', mapped', tables', others')
    BY <1>4, <1>5
  <2>2. QED
    BY <1>0, <1>1, <2>1, PmmStays
<1>7. BreakOK' /\ ListInv' /\ (given \subseteq Addresses)'
  BY <1>0, <1>1 DEF heapVars, BreakOK, ListInv, Addresses
<1>8. QED
  BY <1>6, <1>7 DEF HeapInv, MemInv

\* The heap and the physical memory manager keep HeapInv: pages with one owner each, mapped
\* up to the break, and a list of blocks in order that clients' memory lies in, through every
\* allocate(), free() and sbrk(), also those that run out of pages half way.
THEOREM HeapInvariant == Spec => []HeapInv
<1>1. Init => HeapInv
  BY InitOK
<1>2. HeapInv /\ [Next]_vars => HeapInv'
  <2>1. SUFFICES ASSUME HeapInv, [Next]_vars
                 PROVE  HeapInv'
    OBVIOUS
  <2>2. CASE \E size \in Sizes : allocate(size)
    BY <2>1, <2>2, AllocateStep
  <2>3. CASE \E p \in DOMAIN live : free(p)
    BY <2>1, <2>3, FreeStep
  <2>4. CASE \E n \in Increments : sbrk_call(n)
    BY <2>1, <2>4, SbrkCallStep
  <2>5. CASE others_allocate
    BY <2>1, <2>5, OthersAllocateStep
  <2>6. CASE \E p \in others : others_free(p)
    BY <2>1, <2>6, OthersFreeStep
  <2>7. CASE UNCHANGED vars
    <3>1. UNCHANGED <<pmmVars, brk, mapped, tables, others>> /\ UNCHANGED heapVars
      BY <2>7 DEF vars, heapVars
    <3>2. MemInv'
      BY <2>1, <3>1, MemUnchanged DEF HeapInv
    <3>3. ListInv' /\ (given \subseteq Addresses)'
      BY <2>1, <3>1 DEF HeapInv, heapVars, ListInv, Addresses
    <3>4. QED
      BY <3>2, <3>3 DEF HeapInv
  <2>8. QED
    BY <2>1, <2>2, <2>3, <2>4, <2>5, <2>6, <2>7 DEF Next
<1>3. QED
  BY <1>1, <1>2, PTL DEF Spec

-----------------------------------------------------------------------------
(* What follows *)

LEMMA OwnedPart ==
    ASSUME HeapInv
    PROVE  PagesOwned
<1>1. MemOK(bitmap, mapped, tables, others) /\ BreakOK
  BY DEF HeapInv, MemInv
<1>2. ASSUME NEW va \in VirtPages, va * PAGE_SIZE < brk
      PROVE  va \in DOMAIN mapped
  <2>1. PICK q \in Nat : brk = PAGE_SIZE * q /\ \A wa \in Nat : wa < q => wa \in DOMAIN mapped
    BY <1>1 DEF BreakOK
  <2>2. PICK P \in Nat : P = PAGE_SIZE /\ P > 0
    BY Naturals
  <2>3. va \in Nat
    BY DEF VirtPages
  <2>4. P * va < P * q
    BY <1>2, <2>1, <2>2, <2>3
  <2>5. va < q
    BY <2>2, <2>3, <2>4, TimesLess
  <2>6. QED
    BY <2>1, <2>3, <2>5
<1>3. /\ \A va, wa \in DOMAIN mapped : mapped[va] = mapped[wa] => va = wa
      /\ \A t, u \in DOMAIN tables : tables[t] = tables[u] => t = u
  BY <1>1 DEF MemOK
<1>4. Values(mapped) \cap Values(tables) = {}
  <2>1. \A va \in DOMAIN mapped, t \in DOMAIN tables : mapped[va] # tables[t]
    BY <1>1 DEF MemOK
  <2>2. QED
    BY <2>1 DEF Values
<1>5. /\ others \cap (Values(mapped) \cup Values(tables)) = {}
      /\ Values(mapped) \cup Values(tables) \cup others \subseteq bitmap
  <2>1. /\ \A va \in DOMAIN mapped : mapped[va] \in bitmap /\ mapped[va] \notin others
        /\ \A t \in DOMAIN tables : tables[t] \in bitmap /\ tables[t] \notin others
        /\ others \subseteq bitmap
    BY <1>1 DEF MemOK
  <2>2. QED
    BY <2>1 DEF Values
<1>6. QED
  BY <1>2, <1>3, <1>4, <1>5 DEF PagesOwned

\* sbrk(): PagesOwned holds for every memory map and every sequence of calls, so no physical
\* page is ever mapped twice or given to two owners, and nothing below the break is unmapped.
THEOREM PagesHaveOneOwner == Spec => []PagesOwned
<1>1. HeapInv => PagesOwned
  BY OwnedPart
<1>2. QED
  BY <1>1, HeapInvariant, PTL

LEMMA UsablePart ==
    ASSUME HeapInv
    PROVE  OnlyUsablePages
<1>1. MemOK(bitmap, mapped, tables, others)
  BY DEF HeapInv, MemInv
<1>2. QED
  BY <1>1 DEF OnlyUsablePages, MemOK, Values, free_pages

\* The constructor of PhysicalMemoryManager and allocate(): whatever memory map the boot
\* loader reports, no page of the kernel, of the multiboot2 information, of a reserved region or
\* at address 0 is handed out.
THEOREM HandedOutIsUsable == Spec => []OnlyUsablePages
<1>1. HeapInv => OnlyUsablePages
  BY UsablePart
<1>2. QED
  BY <1>1, HeapInvariant, PTL

LEMMA TypePart ==
    ASSUME HeapInv
    PROVE  TypeOK
<1>1. /\ MemOK(bitmap, mapped, tables, others) /\ ChainOK(block, brk, given) /\ LiveOK(live, block)
      /\ given \subseteq Addresses
  BY DEF HeapInv, MemInv, ListInv
<1>2. PICK top \in Nat, V \in Nat, H \in Nat : top = brk /\ V = VIRT_END /\ top <= V /\ H = HEADER /\ H > 0
  <2>1. brk <= VIRT_END
    BY DEF HeapInv, MemInv, BreakOK
  <2>2. QED
    BY <1>1, <2>1, Naturals DEF ChainOK
<1>3. PICK bs : bs = block
  OBVIOUS
<1>4. BlocksOK(bs) /\ NextOK(bs) /\ PrevOK(bs) /\ SpaceOK(bs, top, given)
  BY <1>1, <1>2, <1>3 DEF ChainOK
<1>5. \A a \in DOMAIN bs : /\ a \in Nat /\ bs[a] \in Block /\ bs[a].size \in Nat
                           /\ bs[a].next \in Int /\ bs[a].prev \in Int /\ bs[a].free \in BOOLEAN
  BY <1>4 DEF BlocksOK, Block
<1>6. ASSUME NEW a \in DOMAIN bs
      PROVE  a + H + bs[a].size <= top
  <2>1. a + H + bs[a].size <= Limit(bs, a, top)
    BY <1>2, <1>4 DEF SpaceOK
  <2>2. CASE bs[a].next = null
    BY <2>1, <2>2 DEF Limit
  <2>3. CASE bs[a].next # null
    <3>1. PICK c \in DOMAIN bs : c = bs[a].next
      BY <1>4, <2>3 DEF NextOK
    <3>2. a + H + bs[a].size <= c
      BY <2>1, <2>3, <3>1 DEF Limit
    <3>3. PICK l \in DOMAIN bs : bs[l].next = null
      BY <1>1, <1>3 DEF ChainOK, LastOK
    <3>4. c <= l
      BY <1>4, <3>3 DEF NextOK
    <3>5. l + H + bs[l].size <= top
      BY <1>2, <1>4, <3>3 DEF SpaceOK, Limit
    <3>6. QED
      BY <1>2, <1>5, <3>2, <3>4, <3>5
  <2>4. QED
    BY <2>2, <2>3
<1>7. \A a \in DOMAIN bs : a \in Addresses /\ bs[a].size \in 0 .. VIRT_END
  BY <1>2, <1>5, <1>6 DEF Addresses
<1>8. ASSUME NEW a \in DOMAIN bs
      PROVE  bs[a] \in [size : 0 .. VIRT_END, free : BOOLEAN, next : Addresses \cup {null},
                        prev : Addresses \cup {null}]
  <2>1. bs[a].next \in Addresses \cup {null} /\ bs[a].prev \in Addresses \cup {null}
    BY <1>4, <1>7 DEF NextOK, PrevOK
  <2>2. QED
    BY <1>5, <1>7, <2>1 DEF Block
<1>9. ASSUME NEW p \in DOMAIN live
      PROVE  p \in Addresses /\ live[p] \in Sizes
  <2>1. p \in Nat /\ p - HEADER \in DOMAIN bs /\ live[p] \in Sizes /\ live[p] <= bs[p - HEADER].size
    BY <1>1, <1>3 DEF LiveOK, UsedBlocks
  <2>2. PICK a \in DOMAIN bs : a = p - HEADER
    BY <2>1
  <2>3. live[p] \in Nat /\ live[p] > 0
    BY <2>1, Naturals
  <2>4. a + H + bs[a].size <= top /\ a \in Nat /\ bs[a].size \in Nat
    BY <1>5, <1>6
  <2>5. QED
    BY <1>2, <2>1, <2>2, <2>3, <2>4 DEF Addresses
<1>10. brk \in 0 .. VIRT_END
  BY <1>2
<1>11. /\ DOMAIN live \subseteq Addresses /\ Values(live) \subseteq Sizes
  BY <1>9 DEF Values
<1>12. /\ bitmap \subseteq 0 .. MAX_PAGES - 1 /\ others \subseteq Pages
       /\ DOMAIN mapped \subseteq VirtPages /\ Values(mapped) \subseteq Pages
       /\ DOMAIN tables \subseteq VirtPages /\ Values(tables) \subseteq Pages
  BY <1>1 DEF MemOK, Values
<1>13. QED
  BY <1>1, <1>3, <1>7, <1>8, <1>10, <1>11, <1>12 DEF TypeOK

LEMMA MaxIs ==
    ASSUME NEW S, S \subseteq Nat, NEW m \in S, \A y \in S : m >= y
    PROVE  Max(S) = m
<1>1. Max(S) \in S /\ \A y \in S : Max(S) >= y
  BY DEF Max
<1>2. Max(S) \in Nat /\ m \in Nat /\ Max(S) >= m /\ m >= Max(S)
  BY <1>1
<1>3. QED
  BY <1>2

LEMMA MinIs ==
    ASSUME NEW S, S \subseteq Nat, NEW m \in S, \A y \in S : m <= y
    PROVE  Min(S) = m
<1>1. Min(S) \in S /\ \A y \in S : Min(S) <= y
  BY FirstIsIn
<1>2. Min(S) \in Nat /\ m \in Nat /\ Min(S) >= m /\ m >= Min(S)
  BY <1>1
<1>3. QED
  BY <1>2

LEMMA OrderPart ==
    ASSUME HeapInv
    PROVE  ListInOrder
<1>1. ChainOK(block, brk, given) /\ Coalesced(block)
  BY DEF HeapInv, ListInv
<1>2. BlocksOK(block) /\ NextOK(block) /\ PrevOK(block)
  BY <1>1 DEF ChainOK
<1>3. ASSUME NEW a \in DOMAIN block, NEW above, above = {c \in DOMAIN block : c > a},
             NEW below, below = {c \in DOMAIN block : c < a}
      PROVE  /\ block[a].next = IF above = {} THEN null ELSE Min(above)
             /\ block[a].prev = IF below = {} THEN null ELSE Max(below)
             /\ block[a].free /\ above # {} => ~ block[Min(above)].free
  <2>1. above \subseteq Nat /\ below \subseteq Nat /\ a \in Nat /\ DOMAIN block \subseteq Nat
    BY <1>2, <1>3 DEF BlocksOK
  <2>2. block[a].next = null => above = {}
    <3>1. block[a].next = null => \A c \in DOMAIN block : c <= a
      BY <1>2 DEF NextOK
    <3>2. QED
      BY <1>3, <2>1, <3>1
  <2>3. block[a].next # null => block[a].next \in above /\ \A y \in above : block[a].next <= y
    <3>1. block[a].next # null => /\ block[a].next \in DOMAIN block /\ block[a].next > a
                                  /\ \A c \in DOMAIN block : c > a => c >= block[a].next
      BY <1>2 DEF NextOK
    <3>2. QED
      BY <1>3, <2>1, <3>1
  <2>4. block[a].next # null => Min(above) = block[a].next
    BY <2>1, <2>3, MinIs
  <2>5. block[a].prev = null => below = {}
    <3>1. block[a].prev = null => \A c \in DOMAIN block : c >= a
      BY <1>2 DEF PrevOK
    <3>2. QED
      BY <1>3, <2>1, <3>1
  <2>6. block[a].prev # null => block[a].prev \in below /\ \A y \in below : block[a].prev >= y
    <3>1. block[a].prev # null => /\ block[a].prev \in DOMAIN block /\ block[a].prev < a
                                  /\ \A c \in DOMAIN block : c < a => c <= block[a].prev
      BY <1>2 DEF PrevOK
    <3>2. QED
      BY <1>3, <2>1, <3>1
  <2>7. block[a].prev # null => Max(below) = block[a].prev
    BY <2>1, <2>6, MaxIs
  <2>8. block[a].next = IF above = {} THEN null ELSE Min(above)
    BY <2>2, <2>3, <2>4
  <2>9. block[a].prev = IF below = {} THEN null ELSE Max(below)
    BY <2>5, <2>6, <2>7
  <2>10. block[a].free /\ above # {} => ~ block[Min(above)].free
    BY <1>1, <2>2, <2>4 DEF Coalesced
  <2>11. QED
    BY <2>8, <2>9, <2>10
<1>4. TypeOK
  BY TypePart
<1>5. QED
  BY <1>3, <1>4 DEF ListInOrder

\* allocate() and free(): ListInOrder holds for every size of pages, headers and requests: the
\* list runs through all blocks by rising address in both directions and no two neighbours are free.
THEOREM ListIsOrdered == Spec => []ListInOrder
<1>1. HeapInv => ListInOrder
  BY OrderPart
<1>2. QED
  BY <1>1, HeapInvariant, PTL

LEMMA SpacePart ==
    ASSUME HeapInv
    PROVE  NoOverlap
<1>1. ChainOK(block, brk, given) /\ LiveOK(live, block)
  BY DEF HeapInv, ListInv
<1>2. BlocksOK(block) /\ AlignOK(block) /\ SpaceOK(block, brk, given)
  BY <1>1 DEF ChainOK
<1>3. HEADER \in Nat
  BY Naturals
<1>4. {p - HEADER : p \in DOMAIN live} = {a \in DOMAIN block : ~ block[a].free}
  <2>1. \A p \in DOMAIN live : p - HEADER \in UsedBlocks(block)
    BY <1>1 DEF LiveOK
  <2>2. ASSUME NEW a \in UsedBlocks(block)
        PROVE  a \in {p - HEADER : p \in DOMAIN live}
    <3>1. a \in Nat
      BY <1>2 DEF UsedBlocks, BlocksOK
    <3>2. PICK p \in DOMAIN live : p = a + HEADER
      BY <1>1 DEF LiveOK
    <3>3. a = p - HEADER
      BY <1>3, <3>1, <3>2
    <3>4. QED
      BY <3>3
  <2>3. {p - HEADER : p \in DOMAIN live} = UsedBlocks(block)
    BY <2>1, <2>2
  <2>4. QED
    BY <2>3 DEF UsedBlocks
<1>5. ASSUME NEW p \in DOMAIN live
      PROVE  p % ALIGN = 0 /\ live[p] <= block[p - HEADER].size
  <2>1. p \in Nat /\ p - HEADER \in DOMAIN block /\ live[p] <= block[p - HEADER].size
    BY <1>1 DEF LiveOK, UsedBlocks
  <2>2. PICK A \in Nat : A = ALIGN /\ A > 0 /\ HEADER % A = 0
    BY Naturals
  <2>3. PICK i \in Nat : p - HEADER = A * i
    BY <1>2, <2>1, <2>2 DEF AlignOK
  <2>4. PICK h \in Nat : HEADER = A * h
    <3>1. PICK d \in Nat : d = HEADER \div A
      BY <1>3, <2>2, Quotient
    <3>2. HEADER % A = HEADER - A * d /\ A * d \in Nat
      BY <1>3, <2>2, <3>1, Quotient
    <3>3. QED
      BY <1>3, <2>2, <3>2
  <2>5. PICK u \in Nat : u = i + h
    OBVIOUS
  <2>6. p = A * u
    <3>1. A * (i + h) = A * i + A * h
      OBVIOUS
    <3>2. A * i \in Nat /\ A * h \in Nat
      OBVIOUS
    <3>3. QED
      BY <2>1, <2>3, <2>4, <2>5, <3>1, <3>2
  <2>7. p \div A = u
    <3>1. A * u <= p /\ p < A * u + A
      BY <2>1, <2>2, <2>6
    <3>2. QED
      BY <2>1, <2>2, <3>1, QuotientOrder
  <2>8. p % A = p - A * u
    BY <2>1, <2>2, <2>7, Quotient
  <2>9. p % A = 0
    BY <2>1, <2>6, <2>8
  <2>10. QED
    BY <2>1, <2>2, <2>9
<1>6. ASSUME NEW a \in DOMAIN block, NEW limit, limit = IF block[a].next = null THEN brk ELSE block[a].next
      PROVE  End(a) <= limit /\ (given = {} => End(a) = limit)
  BY <1>2, <1>6 DEF SpaceOK, Limit, End
<1>7. QED
  BY <1>4, <1>5, <1>6 DEF NoOverlap

\* allocate() and free(): NoOverlap holds for every sequence of calls: what clients hold lies in
\* used blocks, aligned and long enough, no block reaches into the next one, and no memory is lost.
THEOREM BlocksAreDisjoint == Spec => []NoOverlap
<1>1. HeapInv => NoOverlap
  BY SpacePart
<1>2. QED
  BY <1>1, HeapInvariant, PTL
=============================================================================
