---------------------------- MODULE MemoryProofs ----------------------------
(***************************************************************************)
(* Lemmas about the allocator and about map_memory(), for any size of the  *)
(* address space, of pages and of tables. They are what the proofs about   *)
(* GuestMemory rest on.                                                    *)
(*                                                                         *)
(* map_memory() works page by page on copies of tables. The tables it      *)
(* would leave if it stopped are View(w, T). What it adds to them is an    *)
(* empty table in an empty entry, which changes no translation, or a page  *)
(* in an empty entry, which changes the translation of that page and no    *)
(* other, provided the table of pages is linked once (TablesPrivate). That *)
(* all tables stay so is part of the invariant WalkOK. WalkInv adds which  *)
(* pages are mapped so far, and how many tables that took at most.         *)
(***************************************************************************)
EXTENDS PageTable, PhysAllocator, WellFoundedInduction, TLAPS

-----------------------------------------------------------------------------
(* The allocator. What it hands out never overlaps what it handed out      *)
(* before or a slot the hypervisor had. The code compares the start of an  *)
(* allocation with the last byte of a slot, not its end; that is enough    *)
(* only because everything is aligned to pages of more than one byte, so   *)
(* alignment is part of the inductive invariant.                           *)

(* A multiple of the page size. *)
Aligned(x) == \E k \in Nat : x = k * PageSize

(* All ranges handed out are above next and above the hypervisor's slots.  *)
AllocInv ==
    /\ next \in Nat /\ Aligned(next)
    /\ known \in GuestSlots
    /\ \A a \in held : a.lo \in Nat /\ a.hi \in Nat /\ a.lo < a.hi /\ next <= a.lo
    /\ \A a \in held, s \in known : s.hi <= a.lo
    /\ \A a, b \in held : a # b => a.hi <= b.lo \/ b.hi <= a.lo

(* A number that leaves no rest is a multiple of the page size. *)
LEMMA RestIsMultiple ==
    ASSUME NEW x \in Nat, x % PageSize = 0
    PROVE  Aligned(x)
  <1>1. PageSize \in Nat /\ PageSize > 0
    BY SpaceAssumption
  <1>2. x \div PageSize \in Nat /\ x = (x \div PageSize) * PageSize
    BY <1>1
  <1> QED
    BY <1>2 DEF Aligned

(* page_align() returns a multiple of the page size, not below its input.  *)
LEMMA PageAlignAligns ==
    ASSUME NEW size \in Nat
    PROVE  /\ PageAlign(size) \in Nat /\ Aligned(PageAlign(size))
           /\ size <= PageAlign(size)
  <1>1. PageSize \in Nat /\ PageSize > 0
    BY SpaceAssumption
  <1> DEFINE k == (size + PageSize - 1) \div PageSize
  <1>2. k \in Nat
    BY <1>1
  <1>3. k * PageSize \in Nat
    BY <1>1, <1>2
  <1>4. size <= k * PageSize
    <2>1. size + PageSize - 1 < k * PageSize + PageSize
      BY <1>1
    <2> QED
      BY <2>1, <1>1, <1>3
  <1>5. PageAlign(size) = k * PageSize
    BY DEF PageAlign
  <1> HIDE DEF k
  <1> QED
    BY <1>2, <1>3, <1>4, <1>5 DEF Aligned

(* Multiples: one that is not below the byte before another is not below   *)
(* the other.                                                              *)
LEMMA AlignedAbove ==
    ASSUME NEW x \in Nat, NEW y \in Nat, Aligned(x), Aligned(y), x >= y - 1
    PROVE  x >= y
  <1>1. PICK i \in Nat : x = i * PageSize
    BY DEF Aligned
  <1>2. PICK j \in Nat : y = j * PageSize
    BY DEF Aligned
  <1>3. PageSize \in Nat /\ PageSize > 1
    BY SpaceAssumption
  <1>4. CASE i >= j
    <2>1. i * PageSize >= j * PageSize
      BY <1>3, <1>4
    <2> QED
      BY <2>1, <1>1, <1>2
  <1>5. CASE i < j
    <2>1. (i + 1) * PageSize <= j * PageSize
      BY <1>3, <1>5
    <2>2. (i + 1) * PageSize = i * PageSize + PageSize
      BY <1>3
    <2>3. x + PageSize <= y
      BY <2>1, <2>2, <1>1, <1>2
    <2> QED
      BY <2>3, <1>3
  <1> QED
    BY <1>4, <1>5

(* The difference of two multiples is one. *)
LEMMA AlignedDifference ==
    ASSUME NEW x \in Nat, NEW y \in Nat, Aligned(x), Aligned(y), x >= y
    PROVE  x - y \in Nat /\ Aligned(x - y)
  <1>1. PICK i \in Nat : x = i * PageSize
    BY DEF Aligned
  <1>2. PICK j \in Nat : y = j * PageSize
    BY DEF Aligned
  <1>3. PageSize \in Nat /\ PageSize > 1
    BY SpaceAssumption
  <1>4. i >= j
    <2>1. SUFFICES ASSUME i < j PROVE FALSE
      OBVIOUS
    <2>2. (i + 1) * PageSize <= j * PageSize
      BY <1>3, <2>1
    <2>3. (i + 1) * PageSize = i * PageSize + PageSize
      BY <1>3
    <2> QED
      BY <2>2, <2>3, <1>1, <1>2, <1>3
  <1>5. x - y = (i - j) * PageSize
    BY <1>1, <1>2, <1>3
  <1> QED
    BY <1>4, <1>5 DEF Aligned

(* What next_addr() returns for a whole number of pages is free: above the *)
(* hypervisor's slots and below everything handed out.                     *)
LEMMA NextAddrIsFree ==
    ASSUME AllocInv, NEW size \in Nat, size > 0, Aligned(size), NextAddr(size)
    PROVE  /\ next - size \in Nat /\ Aligned(next - size)
           /\ next - size < next
           /\ \A s \in known : s.hi <= next - size
  <1>1. next \in Nat /\ Aligned(next) /\ next >= size
    BY DEF AllocInv, NextAddr
  <1>2. next - size \in Nat /\ Aligned(next - size)
    BY <1>1, AlignedDifference
  <1>3. ASSUME NEW s \in known
        PROVE  s.hi <= next - size
    <2>1. s.hi \in Nat /\ s.hi % PageSize = 0
      BY <1>3, GuestSlotsAssumption DEF AllocInv, Slots
    <2>2. Aligned(s.hi)
      BY <2>1, RestIsMultiple
    <2>3. next - size >= s.hi - 1
      BY <1>3 DEF NextAddr
    <2> QED
      BY <2>1, <2>2, <2>3, <1>2, AlignedAbove
  <1> QED
    BY <1>1, <1>2, <1>3

(* Handing out the range below next keeps the invariant. *)
LEMMA HandOut ==
    ASSUME AllocInv, NEW size \in Nat, size > 0, Aligned(size), NextAddr(size),
           next' = next - size, known' = known,
           held' = held \cup {[lo |-> next - size, hi |-> next]}
    PROVE  AllocInv'
  <1> DEFINE new == [lo |-> next - size, hi |-> next]
  <1>1. /\ next - size \in Nat /\ Aligned(next - size)
        /\ next - size < next
        /\ \A s \in known : s.hi <= next - size
    BY NextAddrIsFree
  <1>2. new.lo = next - size /\ new.hi = next
    OBVIOUS
  <1>3. next \in Nat
    BY DEF AllocInv
  <1> HIDE DEF new
  <1>4. held' = held \cup {new}
    BY DEF new
  <1>5. next' \in Nat /\ Aligned(next)' /\ known' \in GuestSlots
    BY <1>1 DEF AllocInv, Aligned
  <1>6. \A a \in held' : a.lo \in Nat /\ a.hi \in Nat /\ a.lo < a.hi /\ next' <= a.lo
    BY <1>1, <1>2, <1>3, <1>4 DEF AllocInv
  <1>7. \A a \in held', s \in known' : s.hi <= a.lo
    BY <1>1, <1>2, <1>4 DEF AllocInv
  <1>8. \A a, b \in held' : a # b => a.hi <= b.lo \/ b.hi <= a.lo
    BY <1>2, <1>4 DEF AllocInv
  <1> QED
    BY <1>5, <1>6, <1>7, <1>8 DEF AllocInv

(* Every step of the allocator, and the hypervisor adding memory, keep the *)
(* invariant.                                                              *)
LEMMA AllocStep ==
    AllocInv /\ [AllocNext]_allocVars => AllocInv'
  <1> SUFFICES ASSUME AllocInv, [AllocNext]_allocVars
               PROVE  AllocInv'
    OBVIOUS
  <1>1. ASSUME NEW size \in Sizes, PhysAlloc(size)
        PROVE  AllocInv'
    <2>1. size \in Nat /\ size > 0
      BY SizeAssumption
    <2>2. PageAlign(size) \in Nat /\ PageAlign(size) > 0 /\ Aligned(PageAlign(size))
      BY <2>1, PageAlignAligns
    <2> QED
      BY <1>1, <2>2, HandOut DEF PhysAlloc
  <1>2. ASSUME NEW size \in Sizes, size % PageSize = 0, AllocMmioRange(size)
        PROVE  AllocInv'
    <2>1. size \in Nat /\ size > 0
      BY SizeAssumption
    <2>2. Aligned(size)
      BY <1>2, <2>1, RestIsMultiple
    <2> QED
      BY <1>2, <2>1, <2>2, HandOut DEF AllocMmioRange
  <1>3. ASSUME NEW s \in slots, DropPhysMem(s)
        PROVE  AllocInv'
    BY <1>3 DEF DropPhysMem, AllocInv, Aligned
  <1>4. ASSUME NEW s \in HvSlots, HypervisorAddsSlot(s)
        PROVE  AllocInv'
    BY <1>4 DEF HypervisorAddsSlot, AllocInv, Aligned
  <1>5. CASE UNCHANGED allocVars
    BY <1>5 DEF allocVars, AllocInv, Aligned
  <1> QED
    BY <1>1, <1>2, <1>3, <1>4, <1>5 DEF AllocNext

(* It holds at the start. *)
LEMMA AllocInitial == AllocInit => AllocInv
  <1> SUFFICES ASSUME AllocInit
               PROVE  AllocInv
    OBVIOUS
  <1>1. Top \in Nat /\ Top % PageSize = 0
    BY SpaceAssumption
  <1>2. Aligned(Top)
    BY <1>1, RestIsMultiple
  <1> QED
    BY <1>1, <1>2 DEF AllocInit, AllocInv

(* It says that ranges do not overlap. *)
LEMMA AllocDisjoint == AllocInv => Disjoint
  <1> SUFFICES ASSUME AllocInv
               PROVE  Disjoint
    OBVIOUS
  <1>1. \A a, b \in held : a # b => ~Overlap(a, b)
    BY DEF AllocInv, Overlap
  <1>2. \A a \in held, s \in known : ~Overlap(a, s)
    <2> TAKE a \in held, s \in known
    <2>1. s.hi \in Nat /\ a.lo \in Nat /\ s.hi <= a.lo
      BY GuestSlotsAssumption DEF AllocInv, Slots
    <2> QED
      BY <2>1 DEF Overlap
  <1> QED
    BY <1>1, <1>2 DEF Disjoint

(* What PhysMemAllocator hands out, in any order of memory and MMIO ranges *)
(* and whatever is given back, overlaps neither anything it handed out     *)
(* before nor a slot the hypervisor had when vmsh attached.                *)
THEOREM AllocationsDisjoint == AllocSpec => []Disjoint
  BY AllocInitial, AllocDisjoint, AllocStep, PTL DEF AllocSpec

-----------------------------------------------------------------------------
(* Numbers                                                                 *)

(* Division with rest. *)
LEMMA Division ==
    ASSUME NEW x \in Nat, NEW d \in Nat, d > 0
    PROVE  x \div d \in Nat /\ x % d \in 0 .. d - 1 /\ x = (x \div d) * d + (x % d)
  <1>1. x \div d \in Int
    OBVIOUS
  <1>2. x % d \in 0 .. d - 1
    OBVIOUS
  <1>3. x = d * (x \div d) + (x % d)
    OBVIOUS
  <1>4. (x \div d) * d = d * (x \div d)
    BY <1>1
  <1>5. x \div d >= 0
    OBVIOUS
  <1> QED
    BY <1>1, <1>2, <1>3, <1>4, <1>5

(* Products of natural numbers. *)
LEMMA Products ==
    ASSUME NEW a \in Nat, NEW b \in Nat, NEW e \in Nat
    PROVE  /\ a * e \in Nat /\ b * e \in Nat /\ (a + b) * e = a * e + b * e /\ a * e = e * a
           /\ a * (b * e) = (a * b) * e
           /\ (a >= b => a * e >= b * e)
  OBVIOUS

(* Quotient and rest are unique. *)
LEMMA Quotient ==
    ASSUME NEW x \in Nat, NEW d \in Nat, d > 0, NEW q \in Nat, NEW r \in 0 .. d - 1, x = q * d + r
    PROVE  x \div d = q /\ x % d = r
  <1> DEFINE p == x \div d
             s == x % d
  <1>1. p \in Nat /\ s \in 0 .. d - 1 /\ x = p * d + s
    BY Division
  <1> HIDE DEF p, s
  <1>2. ~(p < q)
    <2>1. SUFFICES ASSUME p < q PROVE FALSE
      OBVIOUS
    <2>2. (p + 1) * d <= q * d
      BY <1>1, <2>1
    <2>3. (p + 1) * d = p * d + d
      BY <1>1
    <2> QED
      BY <1>1, <2>2, <2>3
  <1>3. ~(q < p)
    <2>1. SUFFICES ASSUME q < p PROVE FALSE
      OBVIOUS
    <2>2. (q + 1) * d <= p * d
      BY <1>1, <2>1
    <2>3. (q + 1) * d = q * d + d
      BY <1>1
    <2> QED
      BY <1>1, <2>2, <2>3
  <1>4. p = q
    BY <1>1, <1>2, <1>3
  <1>5. s = r
    BY <1>1, <1>4
  <1> QED
    BY <1>4, <1>5 DEF p, s

(* To divide by a product is to divide twice, as get_index() does. *)
LEMMA DivDiv ==
    ASSUME NEW x \in Nat, NEW d \in Nat, d > 0, NEW e \in Nat, e > 0
    PROVE  x \div (d * e) = (x \div d) \div e
  <1> DEFINE a == x \div d
             r == x % d
             b == a \div e
             q == a % e
  <1>1. a \in Nat /\ r \in 0 .. d - 1 /\ x = a * d + r
    BY Division
  <1> HIDE DEF a, r
  <1>2. b \in Nat /\ q \in 0 .. e - 1 /\ a = b * e + q
    BY <1>1, Division
  <1> HIDE DEF b, q
  <1>3. d * e \in Nat /\ d * e > 0
    OBVIOUS
  <1>4. x = b * (d * e) + (q * d + r)
    <2>1. b * e \in Nat /\ (b * e + q) * d = (b * e) * d + q * d
      BY <1>2, Products
    <2>2. (b * e) * d = b * (d * e)
      BY <1>2, Products
    <2>3. (b * e) * d \in Nat /\ q * d \in Nat
      BY <1>2, <2>1, Products
    <2> QED
      BY <1>1, <1>2, <2>1, <2>2, <2>3
  <1>5. q * d + r \in 0 .. (d * e) - 1
    <2>1. (q + 1) * d <= e * d
      BY <1>2, Products
    <2>2. (q + 1) * d = q * d + d /\ q * d \in Nat /\ e * d = d * e
      BY <1>2, Products
    <2> QED
      BY <2>1, <2>2, <1>1, <1>3
  <1> DEFINE de == d * e
             z == q * d + r
  <1>6. x \div de = b
    <2>1. de \in Nat /\ de > 0 /\ z \in 0 .. de - 1 /\ x = b * de + z
      BY <1>3, <1>4, <1>5
    <2> HIDE DEF de, z
    <2> QED
      BY <2>1, <1>2, Quotient
  <1> QED
    BY <1>6 DEF a, b

(* The four indices of a page are its digits. *)
LEMMA Indices ==
    ASSUME NEW v \in Pages
    PROVE  /\ Index(v, 0) \in Entries /\ Index(v, 1) \in Entries
           /\ Index(v, 2) \in Entries /\ Index(v, 3) \in Entries
           /\ Index(v, 2) = (v \div EntryCount) % EntryCount
           /\ v = ((Index(v, 0) * EntryCount + Index(v, 1)) * EntryCount + Index(v, 2)) * EntryCount
                    + Index(v, 3)
  <1> DEFINE E == EntryCount
             a == v \div E
             b == a \div E
             c == b \div E
  <1>1. E \in Nat /\ E > 0 /\ E * E \in Nat /\ E * E > 0
    BY EntryAssumption
  <1>2. v \in Nat /\ v < E * E * E * E
    BY <1>1 DEF Pages, PageCount
  <1> HIDE DEF E
  <1>3. a \in Nat /\ v % E \in 0 .. E - 1 /\ v = a * E + (v % E)
    BY <1>1, <1>2, Division
  <1> HIDE DEF a
  <1>4. b \in Nat /\ a % E \in 0 .. E - 1 /\ a = b * E + (a % E)
    BY <1>1, <1>3, Division
  <1> HIDE DEF b
  <1>5. c \in Nat /\ b % E \in 0 .. E - 1 /\ b = c * E + (b % E)
    BY <1>1, <1>4, Division
  <1>6. v \div (E * E) = b
    BY <1>1, <1>2, DivDiv DEF a, b
  <1>7. v \div (E * E * E) = c
    BY <1>1, <1>2, <1>6, DivDiv
  <1> HIDE DEF c
  <1>8. c < E
    <2>1. SUFFICES ASSUME c >= E PROVE FALSE
      BY <1>1, <1>5
    <2>2. b >= E * E
      <3>1. c * E >= E * E
        BY <2>1, <1>1, <1>5, Products
      <3> QED
        BY <3>1, <1>1, <1>5
    <2>3. a >= E * E * E
      <3>1. b * E >= E * E * E
        BY <2>2, <1>1, <1>4, Products
      <3> QED
        BY <3>1, <1>1, <1>4
    <2>4. v >= E * E * E * E
      <3>1. a * E >= E * E * E * E
        BY <2>3, <1>1, <1>3, Products
      <3> QED
        BY <3>1, <1>1, <1>3
    <2> QED
      BY <2>4, <1>1, <1>2
  <1>9. c % E = c
    <2>1. c = 0 * E + c /\ c \in 0 .. E - 1
      BY <1>1, <1>5, <1>8
    <2> QED
      BY <2>1, <1>1, <1>5, Quotient
  <1>10. Index(v, 3) = v % E
    <2>1. v \div 1 = v
      BY <1>2
    <2> QED
      BY <2>1 DEF Index, PagesOf, E
  <1>11. Index(v, 2) = a % E
    BY DEF Index, PagesOf, E, a
  <1>12. Index(v, 1) = b % E
    BY <1>6 DEF Index, PagesOf, E
  <1>13. Index(v, 0) = c
    BY <1>7, <1>9 DEF Index, PagesOf, E
  <1>14. Entries = 0 .. E - 1
    BY DEF Entries, E
  <1>15. v = ((c * E + (b % E)) * E + (a % E)) * E + (v % E)
    BY <1>3, <1>4, <1>5
  <1>16. c \in 0 .. E - 1
    BY <1>1, <1>5, <1>8
  <1> QED
    BY <1>3, <1>4, <1>5, <1>10, <1>11, <1>12, <1>13, <1>14, <1>15, <1>16 DEF E, a

(* So they name it. *)
LEMMA SamePage ==
    ASSUME NEW u \in Pages, NEW v \in Pages,
           Index(u, 0) = Index(v, 0), Index(u, 1) = Index(v, 1),
           Index(u, 2) = Index(v, 2), Index(u, 3) = Index(v, 3)
    PROVE  u = v
  <1>1. u = ((Index(u, 0) * EntryCount + Index(u, 1)) * EntryCount + Index(u, 2)) * EntryCount
                    + Index(u, 3)
    BY Indices, Zenon
  <1>2. v = ((Index(v, 0) * EntryCount + Index(v, 1)) * EntryCount + Index(v, 2)) * EntryCount
                    + Index(v, 3)
    BY Indices, Zenon
  <1> QED
    BY <1>1, <1>2, Zenon

(* The loops of map_memory_single() that start at page first come to every *)
(* page behind it that has the same entries in the upper two tables.       *)
LEMMA VisitsAll ==
    ASSUME NEW first \in Pages, NEW v \in Pages, first <= v,
           Index(v, 0) = Index(first, 0), Index(v, 1) = Index(first, 1)
    PROVE  IsVisited(v, first)
  <1> DEFINE E == EntryCount
             i == Index(v, 0)
             j == Index(v, 1)
             k == Index(v, 2)
             l == Index(v, 3)
             kk == Index(first, 2)
             ll == Index(first, 3)
             b == (i * E + j) * E
  <1>1. i \in Entries /\ j \in Entries /\ k \in Entries /\ l \in Entries /\ v = (b + k) * E + l
    BY Indices, Zenon
  <1>2. kk \in Entries /\ ll \in Entries /\ first = (b + kk) * E + ll
    BY Indices, Zenon
  <1>3. E \in Nat /\ E > 0
    BY EntryAssumption
  <1> HIDE DEF i, j, k, l, kk, ll, E
  <1>4. i \in Nat /\ j \in Nat /\ k \in Nat /\ kk \in Nat /\ l \in 0 .. E - 1 /\ ll \in 0 .. E - 1
    BY <1>1, <1>2 DEF Entries, E
  <1>5. b \in Nat
    <2>1. i * E + j \in Nat
      BY <1>3, <1>4, Products
    <2> QED
      BY <2>1, <1>3, Products
  <1> HIDE DEF b
  <1>6. (b + k) * E = b * E + k * E /\ (b + kk) * E = b * E + kk * E
        /\ b * E \in Nat /\ k * E \in Nat /\ kk * E \in Nat
    BY <1>3, <1>4, <1>5, Products
  <1>7. kk <= k
    <2>1. SUFFICES ASSUME k + 1 <= kk PROVE FALSE
      BY <1>4
    <2>2. (k + 1) * E <= kk * E /\ (k + 1) * E = k * E + 1 * E
      BY <2>1, <1>3, <1>4, Products
    <2>3. k * E + E <= kk * E
      BY <2>2, <1>3
    <2>4. (b + k) * E + l < (b + kk) * E + ll
      BY <2>3, <1>3, <1>4, <1>6
    <2> QED
      BY <2>4, <1>1, <1>2, <1>3, <1>4, <1>6
  <1>8. k = kk => ll <= l
    BY <1>1, <1>2, <1>4, <1>6
  <1>9. i - i = 0 /\ j - j = 0 /\ i >= i /\ j >= j /\ kk <= k /\ (k - kk = 0 => k = kk)
        /\ (k - kk # 0 => l >= 0)
    BY <1>4, <1>7
  <1>10. k >= kk /\ (l >= ll \/ (k - kk # 0 /\ l >= 0))
    BY <1>4, <1>7, <1>8
  <1>11. Index(first, 0) = i /\ Index(first, 1) = j
    BY Zenon DEF i, j
  <1>12. GetStartIdx(first, i - i, 1) = j /\ GetStartIdx(first, j - j, 2) = kk
    BY <1>9, <1>11, Zenon DEF GetStartIdx, kk
  <1>13. GetStartIdx(first, k - kk, 3) = IF k - kk # 0 THEN 0 ELSE ll
    BY Zenon DEF GetStartIdx, ll
  <1>14. l >= GetStartIdx(first, k - kk, 3)
    <2>1. CASE k - kk # 0
      BY <2>1, <1>9, <1>13, Zenon
    <2>2. CASE k - kk = 0
      BY <2>2, <1>10, <1>13, Zenon
    <2> QED
      BY <2>1, <2>2, Zenon
  <1> QED
    BY <1>9, <1>10, <1>11, <1>12, <1>14, Zenon DEF IsVisited, i, j, k, l

-----------------------------------------------------------------------------
(* Translation                                                             *)

(* A state of the translation. *)
IsSpot(x) == x = [at |-> x.at, done |-> x.done, res |-> x.res] /\ x.done \in BOOLEAN

(* Where it starts. *)
Spot(root) == [at |-> root, done |-> FALSE, res |-> Unmapped]

(* A translation starts at the pml4. *)
LEMMA SpotIsSpot ==
    ASSUME NEW root
    PROVE  /\ IsSpot(Spot(root)) /\ Spot(root).at = root /\ ~Spot(root).done
           /\ Spot(root).res = Unmapped
  BY DEF IsSpot, Spot

(* It goes down four levels. *)
LEMMA TranslateIs ==
    ASSUME NEW F, NEW root, NEW v
    PROVE  Translate(F, root, v) =
             Descend(F, Descend(F, Descend(F, Descend(F, Spot(root), 0, v), 1, v), 2, v), 3, v).res
  BY Zenon DEF Translate, Spot

(* What one step of it does. *)
Descends(F, x, y, level, v) ==
    LET e == F[x.at][Index(v, level)]
    IN  /\ IsSpot(y)
        /\ x.done => y = x
        /\ ~x.done /\ e.kind = "none" => y.done /\ y.res = x.res
        /\ ~x.done /\ e.kind = "table" => ~y.done /\ y.at = e.to /\ y.res = x.res
        /\ ~x.done /\ e.kind \notin {"none", "table"} =>
              /\ y.done
              /\ y.res = [to |-> e.to + (v % PagesOf(level)) * PageBytes, prot |-> e.prot]

(* Descend() does just that. *)
LEMMA DescendCases ==
    ASSUME NEW F, NEW x, IsSpot(x), NEW level, NEW v
    PROVE  Descends(F, x, Descend(F, x, level, v), level, v)
  <1> DEFINE y == Descend(F, x, level, v)
             e == F[x.at][Index(v, level)]
             r == [to |-> e.to + (v % PagesOf(level)) * PageBytes, prot |-> e.prot]
  <1>1. y = IF x.done \/ e.kind = "none" THEN [x EXCEPT !.done = TRUE]
            ELSE IF e.kind = "table" THEN [x EXCEPT !.at = e.to]
            ELSE [x EXCEPT !.done = TRUE, !.res = r]
    BY Zenon DEF Descend
  <1> HIDE DEF y, e, r
  <1>2. PICK at, done, res : x = [at |-> at, done |-> done, res |-> res] /\ done \in BOOLEAN
    BY Zenon DEF IsSpot
  <1>3. x.at = at /\ x.done = done /\ x.res = res
    BY <1>2
  <1>4. CASE done
    <2>1. y = x
      BY <1>1, <1>2, <1>3, <1>4
    <2> QED
      BY <2>1, <1>3, <1>4, Zenon DEF y, e, Descends
  <1>5. CASE ~done /\ e.kind = "none"
    <2>1. y = [at |-> at, done |-> TRUE, res |-> res]
      BY <1>1, <1>2, <1>3, <1>5
    <2>2. y.at = at /\ y.done = TRUE /\ y.res = res
      BY <2>1
    <2>3. IsSpot(y)
      BY <2>1, <2>2, Zenon DEF IsSpot
    <2> QED
      BY <2>2, <2>3, <1>3, <1>5, Zenon DEF y, e, Descends
  <1>6. CASE ~done /\ e.kind = "table"
    <2>1. y = [at |-> e.to, done |-> done, res |-> res]
      BY <1>1, <1>2, <1>3, <1>6
    <2>2. y.at = e.to /\ y.done = done /\ y.res = res
      BY <2>1
    <2>3. IsSpot(y)
      BY <2>1, <2>2, <1>2, Zenon DEF IsSpot
    <2>4. "table" # "none"
      OBVIOUS
    <2> QED
      BY <2>2, <2>3, <2>4, <1>3, <1>6, Zenon DEF y, e, Descends
  <1>7. CASE ~done /\ e.kind # "none" /\ e.kind # "table"
    <2>1. y = [at |-> at, done |-> TRUE, res |-> r]
      BY <1>1, <1>2, <1>3, <1>7
    <2>2. y.done = TRUE /\ y.res = r /\ y.at = at
      BY <2>1
    <2>3. IsSpot(y)
      BY <2>1, <2>2, Zenon DEF IsSpot
    <2> QED
      BY <2>2, <2>3, <1>3, <1>7, Zenon DEF y, e, r, Descends
  <1> QED
    BY <1>2, <1>4, <1>5, <1>6, <1>7, Zenon

(* Where the tables agree on the entry, the step is the same. *)
LEMMA DescendSame ==
    ASSUME NEW F, NEW G, NEW x, IsSpot(x), NEW level, NEW v, NEW i, i = Index(v, level),
           x.done \/ F[x.at][i] = G[x.at][i]
    PROVE  Descend(F, x, level, v) = Descend(G, x, level, v)
  <1>1. CASE x.done
    <2>1. /\ Descends(F, x, Descend(F, x, level, v), level, v)
          /\ Descends(G, x, Descend(G, x, level, v), level, v)
      BY DescendCases, Zenon
    <2> QED
      BY <1>1, <2>1, Zenon DEF Descends
  <1>2. CASE F[x.at][i] = G[x.at][i]
    BY <1>2, Zenon DEF Descend
  <1> QED
    BY <1>1, <1>2, Zenon

(* A table reached is linked by the one before. *)
LEMMA DescendLinks ==
    ASSUME NEW F, NEW root, WellFormed(F, root), NEW x, IsSpot(x), NEW level, NEW v,
           NEW i \in Entries, i = Index(v, level), x.done \/ x.at \in DOMAIN F
    PROVE  LET y == Descend(F, x, level, v)
           IN  /\ IsSpot(y) /\ (y.done \/ y.at \in DOMAIN F)
               /\ ~y.done => ~x.done /\ Link(F, x.at, i, y.at) /\ y.res = x.res
  <1> DEFINE y == Descend(F, x, level, v)
             e == F[x.at][i]
  <1>1. /\ IsSpot(y)
        /\ x.done => y = x
        /\ ~x.done /\ e.kind = "none" => y.done
        /\ ~x.done /\ e.kind = "table" => ~y.done /\ y.at = e.to /\ y.res = x.res
        /\ ~x.done /\ e.kind \notin {"none", "table"} => y.done
    <2>1. Descends(F, x, y, level, v)
      BY DescendCases, Zenon
    <2> HIDE DEF y
    <2> QED
      BY <2>1, Zenon DEF Descends
  <1> HIDE DEF y
  <1>2. ~x.done /\ e.kind = "table" => e.to \in DOMAIN F
    BY Zenon DEF WellFormed
  <1>3. ~y.done => ~x.done /\ e.kind = "table"
    BY <1>1, Zenon
  <1>4. ~y.done => Link(F, x.at, i, y.at)
    BY <1>1, <1>3, Zenon DEF Link
  <1> QED
    BY <1>1, <1>2, <1>3, <1>4, Zenon DEF y

(* A page whose entry is found through three tables. *)
LEMMA TranslateThrough ==
    ASSUME NEW F, NEW root, NEW v, NEW a, NEW b, NEW c,
           Link(F, root, Index(v, 0), a), Link(F, a, Index(v, 1), b), Link(F, b, Index(v, 2), c)
    PROVE  LET e == F[c][Index(v, 3)]
           IN  /\ e.kind = "none" => Translate(F, root, v) = Unmapped
               /\ e.kind = "page" =>
                     Translate(F, root, v) =
                        [to |-> e.to + (v % PagesOf(3)) * PageBytes, prot |-> e.prot]
  <1> DEFINE x0 == Spot(root)
             x1 == Descend(F, x0, 0, v)
             x2 == Descend(F, x1, 1, v)
             x3 == Descend(F, x2, 2, v)
             x4 == Descend(F, x3, 3, v)
  <1>1. IsSpot(x0) /\ x0.at = root /\ ~x0.done /\ x0.res = Unmapped
    BY SpotIsSpot, Zenon
  <1> HIDE DEF x0
  <1>2. IsSpot(x1) /\ x1.at = a /\ ~x1.done /\ x1.res = Unmapped
    <2>1. Descends(F, x0, x1, 0, v)
      BY <1>1, DescendCases, Zenon
    <2> HIDE DEF x1
    <2> QED
      BY <1>1, <2>1, Zenon DEF Link, Descends
  <1> HIDE DEF x1
  <1>3. IsSpot(x2) /\ x2.at = b /\ ~x2.done /\ x2.res = Unmapped
    <2>1. Descends(F, x1, x2, 1, v)
      BY <1>2, DescendCases, Zenon
    <2> HIDE DEF x2
    <2> QED
      BY <1>2, <2>1, Zenon DEF Link, Descends
  <1> HIDE DEF x2
  <1>4. IsSpot(x3) /\ x3.at = c /\ ~x3.done /\ x3.res = Unmapped
    <2>1. Descends(F, x2, x3, 2, v)
      BY <1>3, DescendCases, Zenon
    <2> HIDE DEF x3
    <2> QED
      BY <1>3, <2>1, Zenon DEF Link, Descends
  <1> HIDE DEF x3
  <1>5. Translate(F, root, v) = x4.res
    BY TranslateIs, Zenon DEF x0, x1, x2, x3
  <1>6. "page" # "none" /\ "page" # "table"
    OBVIOUS
  <1>7. Descends(F, x3, x4, 3, v)
    BY <1>4, DescendCases, Zenon
  <1> HIDE DEF x4
  <1> QED
    BY <1>4, <1>5, <1>6, <1>7, Zenon DEF Descends

-----------------------------------------------------------------------------
(* A new table                                                             *)

(* The tables G are F with an empty table at pt, linked by an entry.       *)
Adds(F, G, at, i, pt) ==
    /\ at \in DOMAIN F /\ i \in Entries /\ F[at][i].kind = "none"
    /\ pt \in Nat \ DOMAIN F
    /\ G \in [DOMAIN F \cup {pt} -> Tables]
    /\ G[pt] = EmptyTable
    /\ G[at][i] = Entry("table", pt, "-")
    /\ \A a \in DOMAIN F, j \in Entries : a # at \/ j # i => G[a][j] = F[a][j]

(* The table that allocate_page_table() makes has no entries. *)
LEMMA EmptyHasNoEntry ==
    ASSUME NEW j \in Entries
    PROVE  EmptyTable[j].kind = "none"
  BY DEF EmptyTable, NoEntry, Entry

(* The fields of an entry. *)
LEMMA EntryFields ==
    ASSUME NEW kind, NEW to, NEW prot
    PROVE  /\ Entry(kind, to, prot).kind = kind /\ Entry(kind, to, prot).to = to
           /\ Entry(kind, to, prot).prot = prot
  BY DEF Entry

(* The kinds of entries differ. *)
LEMMA Strings ==
    "none" # "table" /\ "none" # "page" /\ "table" # "page" /\ "none" # "huge" /\ "table" # "huge"
  OBVIOUS

(* The new table is the only one that is linked anew. *)
LEMMA AddLinks ==
    ASSUME NEW F, NEW G, NEW at, NEW i, NEW pt, Adds(F, G, at, i, pt)
    PROVE  \A a, j, c : Link(G, a, j, c) <=> Link(F, a, j, c) \/ (a = at /\ j = i /\ c = pt)
  <1> SUFFICES ASSUME NEW a, NEW j, NEW c
               PROVE  Link(G, a, j, c) <=> Link(F, a, j, c) \/ (a = at /\ j = i /\ c = pt)
    BY Zenon
  <1>1. DOMAIN G = DOMAIN F \cup {pt}
    BY Zenon DEF Adds
  <1>2. CASE a = pt
    <2>1. a \notin DOMAIN F /\ a # at
      BY <1>2, Zenon DEF Adds
    <2>2. j \in Entries => G[a][j].kind = "none"
      BY <1>2, EmptyHasNoEntry, Zenon DEF Adds
    <2> QED
      BY <2>1, <2>2, Strings, Zenon DEF Link
  <1>3. CASE a # pt /\ a = at /\ j = i
    <2>1. G[a][j].kind = "table" /\ G[a][j].to = pt
      BY <1>3, EntryFields DEF Adds
    <2>2. F[a][j].kind = "none" /\ a \in DOMAIN G /\ j \in Entries
      BY <1>1, <1>3, Zenon DEF Adds
    <2> QED
      BY <1>3, <2>1, <2>2, Strings, Zenon DEF Link
  <1>4. CASE a # pt /\ ~(a = at /\ j = i)
    <2>1. a \in DOMAIN F /\ j \in Entries => G[a][j] = F[a][j]
      BY <1>4, Zenon DEF Adds
    <2>2. a \in DOMAIN G <=> a \in DOMAIN F
      BY <1>1, <1>4, Zenon
    <2> QED
      BY <1>4, <2>1, <2>2, Zenon DEF Link
  <1> QED
    BY <1>2, <1>3, <1>4, Zenon

(* A link is from a table to a table. *)
LEMMA LinkedIsThere ==
    ASSUME NEW F, NEW root, WellFormed(F, root), NEW a, NEW i, NEW c, Link(F, a, i, c)
    PROVE  a \in DOMAIN F /\ i \in Entries /\ c \in DOMAIN F /\ c # root /\ F[a][i].kind = "table"
  BY Zenon DEF WellFormed, Link

(* An entry links one table. *)
LEMMA LinkIsUnique ==
    ASSUME NEW F, NEW a, NEW i, NEW b, NEW c, Link(F, a, i, b), Link(F, a, i, c)
    PROVE  b = c
  BY Zenon DEF Link

(* All tables that are linked are there, still. *)
LEMMA AddWellFormed ==
    ASSUME NEW F, NEW root, WellFormed(F, root), NEW G, NEW at, NEW i, NEW pt, Adds(F, G, at, i, pt)
    PROVE  WellFormed(G, root)
  <1>1. DOMAIN G = DOMAIN F \cup {pt} /\ pt \in Nat /\ pt \notin DOMAIN F
    BY Zenon DEF Adds
  <1>2. DOMAIN G \subseteq Nat /\ root \in DOMAIN G /\ root # pt
    BY <1>1, Zenon DEF WellFormed
  <1>3. G \in [DOMAIN G -> Tables]
    BY <1>1, Zenon DEF Adds
  <1>4. ASSUME NEW a \in DOMAIN G, NEW j \in Entries, G[a][j].kind = "table"
        PROVE  G[a][j].to \in DOMAIN G \ {root}
    <2>1. Link(G, a, j, G[a][j].to)
      BY <1>4, Zenon DEF Link
    <2>2. Link(F, a, j, G[a][j].to) \/ G[a][j].to = pt
      BY <2>1, AddLinks
    <2>3. Link(F, a, j, G[a][j].to) => G[a][j].to \in DOMAIN F /\ G[a][j].to # root
      BY LinkedIsThere, Zenon
    <2> QED
      BY <1>1, <1>2, <2>2, <2>3, Zenon
  <1> QED
    BY <1>2, <1>3, <1>4, Zenon DEF WellFormed

(* The tables on the way to the pages around first are linked once, still. *)
LEMMA AddPrivate ==
    ASSUME NEW F, NEW root, NEW first, WellFormed(F, root), TablesPrivate(F, root, first),
           NEW G, NEW at, NEW i, NEW pt, Adds(F, G, at, i, pt)
    PROVE  TablesPrivate(G, root, first)
  <1> DEFINE i0 == Index(first, 0)
             i1 == Index(first, 1)
  <1>1. \A a, j, c : Link(G, a, j, c) <=> Link(F, a, j, c) \/ (a = at /\ j = i /\ c = pt)
    BY AddLinks
  <1>2. /\ DOMAIN G = DOMAIN F \cup {pt} /\ pt \notin DOMAIN F /\ root \in DOMAIN F
        /\ at \in DOMAIN F /\ at # pt
    BY Zenon DEF Adds, WellFormed
  <1>3. \A a, j, c : Link(F, a, j, c) => a # pt /\ c # pt /\ c \in DOMAIN F /\ a \in DOMAIN F
    BY <1>2, LinkedIsThere, Zenon
  <1>4. ASSUME NEW a \in DOMAIN G, NEW j \in Entries, OnTheWay(G, root, first, a, j), a # pt
        PROVE  OnTheWay(F, root, first, a, j)
    <2>1. CASE a = root /\ j = i0
      BY <2>1, Zenon DEF OnTheWay
    <2>2. CASE Link(G, root, i0, a) /\ j = i1
      BY <2>2, <1>1, <1>4 DEF OnTheWay
    <2>3. CASE \E b \in DOMAIN G : Link(G, root, i0, b) /\ Link(G, b, i1, a)
      <3>1. PICK b \in DOMAIN G : Link(G, root, i0, b) /\ Link(G, b, i1, a)
        BY <2>3, Zenon
      <3>2. Link(F, b, i1, a)
        BY <3>1, <1>1, <1>4
      <3>3. b # pt /\ b \in DOMAIN F
        BY <3>2, <1>3, Zenon
      <3>4. Link(F, root, i0, b)
        BY <3>1, <3>3, <1>1
      <3> QED
        BY <3>2, <3>3, <3>4, Zenon DEF OnTheWay
    <2> QED
      BY <1>4, <2>1, <2>2, <2>3, Zenon DEF OnTheWay
  <1> SUFFICES ASSUME NEW a \in DOMAIN G, NEW j \in Entries, OnTheWay(G, root, first, a, j)
               PROVE  /\ G[a][j].kind # "page"
                      /\ \A b \in DOMAIN G, k \in Entries, c \in DOMAIN G :
                            Link(G, a, j, c) /\ Link(G, b, k, c) => b = a /\ k = j
    BY Zenon DEF TablesPrivate
  <1>5. G[a][j].kind # "page"
    <2>1. CASE a = pt
      BY <2>1, EmptyHasNoEntry, Strings, Zenon DEF Adds
    <2>2. CASE a = at /\ j = i
      BY <2>2, EntryFields, Strings DEF Adds
    <2>3. CASE a # pt /\ ~(a = at /\ j = i)
      <3>1. a \in DOMAIN F /\ G[a][j] = F[a][j]
        BY <2>3, <1>2, Zenon DEF Adds
      <3> QED
        BY <3>1, <2>3, <1>4, Zenon DEF TablesPrivate
    <2> QED
      BY <2>1, <2>2, <2>3, Zenon
  <1>6. ASSUME NEW b \in DOMAIN G, NEW k \in Entries, NEW c \in DOMAIN G,
               Link(G, a, j, c), Link(G, b, k, c)
        PROVE  b = a /\ k = j
    <2>1. CASE c = pt
      BY <2>1, <1>1, <1>3, <1>6
    <2>2. CASE c # pt
      <3>1. Link(F, a, j, c) /\ Link(F, b, k, c)
        BY <2>2, <1>1, <1>6
      <3>2. a \in DOMAIN F /\ b \in DOMAIN F /\ c \in DOMAIN F /\ a # pt
        BY <3>1, <1>3, Zenon
      <3>3. OnTheWay(F, root, first, a, j)
        BY <3>2, <1>4, Zenon
      <3> QED
        BY <3>1, <3>2, <3>3, Zenon DEF TablesPrivate
    <2> QED
      BY <2>1, <2>2, Zenon
  <1> QED
    BY <1>5, <1>6, Zenon

(* The two translations, side by side: equal, or ended with the same, or   *)
(* the second one about to end in the new table.                           *)
Beside(F, pt, x, y) ==
    /\ IsSpot(x) /\ IsSpot(y) /\ x.res = y.res
    /\ \/ x = y /\ (x.done \/ x.at \in DOMAIN F)
       \/ x.done /\ y.done
       \/ x.done /\ ~y.done /\ y.at = pt

(* They stay side by side, level by level. *)
LEMMA BesideStep ==
    ASSUME NEW F, NEW root, WellFormed(F, root), NEW G, NEW at, NEW i, NEW pt, Adds(F, G, at, i, pt),
           NEW x, NEW y, Beside(F, pt, x, y), NEW level, NEW v, Index(v, level) \in Entries
    PROVE  Beside(F, pt, Descend(F, x, level, v), Descend(G, y, level, v))
  <1> DEFINE k == Index(v, level)
             p == Descend(F, x, level, v)
             q == Descend(G, y, level, v)
  <1>1. IsSpot(x) /\ IsSpot(y) /\ x.res = y.res
    BY Zenon DEF Beside
  <1>0. Descends(F, x, p, level, v) /\ Descends(G, y, q, level, v)
    BY <1>1, DescendCases, Zenon
  <1>2. CASE x.done /\ y.done
    <2> HIDE DEF p, q
    <2>1. p = x /\ q = y
      BY <1>0, <1>2, Zenon DEF Descends
    <2> QED
      BY <1>1, <1>2, <2>1, Zenon DEF Beside, p, q
  <1>3. CASE x.done /\ ~y.done /\ y.at = pt
    <2>1. G[y.at][k].kind = "none"
      BY <1>3, EmptyHasNoEntry, Zenon DEF Adds
    <2> HIDE DEF p, q
    <2>2. p = x
      BY <1>0, <1>3, Zenon DEF Descends
    <2>3. IsSpot(q) /\ q.done /\ q.res = y.res
      BY <1>0, <1>3, <2>1, Zenon DEF Descends
    <2> QED
      BY <1>1, <1>3, <2>2, <2>3, Zenon DEF Beside, p, q
  <1>4. CASE x = y /\ ~x.done /\ x.at \in DOMAIN F /\ x.at = at /\ k = i
    <2>1. F[x.at][k].kind = "none"
      BY <1>4, Zenon DEF Adds
    <2>2. G[y.at][k].kind = "table" /\ G[y.at][k].to = pt
      BY <1>4, EntryFields DEF Adds
    <2> HIDE DEF p, q
    <2>3. IsSpot(p) /\ p.done /\ p.res = x.res
      BY <1>0, <1>4, <2>1, Zenon DEF Descends
    <2>4. IsSpot(q) /\ ~q.done /\ q.res = y.res /\ q.at = pt
      BY <1>0, <1>4, <2>2, Zenon DEF Descends
    <2> QED
      BY <1>1, <2>3, <2>4, Zenon DEF Beside, p, q
  <1>5. CASE x = y /\ ~x.done /\ x.at \in DOMAIN F /\ ~(x.at = at /\ k = i)
    <2>1. F[x.at][k] = G[x.at][k]
      BY <1>5, Zenon DEF Adds
    <2>2. p = q
      BY <1>1, <1>5, <2>1, DescendSame
    <2>3. IsSpot(p) /\ (p.done \/ p.at \in DOMAIN F)
      BY <1>1, <1>5, DescendLinks, Zenon
    <2> HIDE DEF p, q
    <2> QED
      BY <2>2, <2>3, Zenon DEF Beside, p, q
  <1> QED
    BY <1>2, <1>3, <1>4, <1>5, Zenon DEF Beside

(* A new empty table changes no translation. *)
LEMMA AddTranslate ==
    ASSUME NEW F, NEW root, WellFormed(F, root), NEW G, NEW at, NEW i, NEW pt, Adds(F, G, at, i, pt),
           NEW v \in Pages
    PROVE  Translate(G, root, v) = Translate(F, root, v)
  <1> DEFINE x1 == Descend(F, Spot(root), 0, v)
             y1 == Descend(G, Spot(root), 0, v)
             x2 == Descend(F, x1, 1, v)
             y2 == Descend(G, y1, 1, v)
             x3 == Descend(F, x2, 2, v)
             y3 == Descend(G, y2, 2, v)
  <1>1. Beside(F, pt, Spot(root), Spot(root))
    BY SpotIsSpot, Zenon DEF Beside, WellFormed
  <1>2. Beside(F, pt, x1, y1)
    BY <1>1, BesideStep, Indices, Zenon
  <1>3. Beside(F, pt, x2, y2)
    BY <1>2, BesideStep, Indices, Zenon
  <1>4. Beside(F, pt, x3, y3)
    BY <1>3, BesideStep, Indices, Zenon
  <1>5. Beside(F, pt, Descend(F, x3, 3, v), Descend(G, y3, 3, v))
    BY <1>4, BesideStep, Indices, Zenon
  <1>6. Descend(F, x3, 3, v).res = Descend(G, y3, 3, v).res
    BY <1>5, Zenon DEF Beside
  <1> QED
    BY <1>6, TranslateIs, Zenon

-----------------------------------------------------------------------------
(* A new page                                                              *)

(* The tables G are F with an entry for a page where there was none. *)
Sets(F, G, at, i, e) ==
    /\ at \in DOMAIN F /\ i \in Entries /\ F[at][i].kind = "none"
    /\ G \in [DOMAIN F -> Tables]
    /\ G[at][i] = e /\ e.kind = "page"
    /\ \A a \in DOMAIN F, j \in Entries : a # at \/ j # i => G[a][j] = F[a][j]

(* No link changes. *)
LEMMA SetLinks ==
    ASSUME NEW F, NEW G, NEW at, NEW i, NEW e, Sets(F, G, at, i, e)
    PROVE  \A a, j, c : Link(G, a, j, c) <=> Link(F, a, j, c)
  <1> SUFFICES ASSUME NEW a, NEW j, NEW c
               PROVE  Link(G, a, j, c) <=> Link(F, a, j, c)
    BY Zenon
  <1>1. DOMAIN G = DOMAIN F
    BY Zenon DEF Sets
  <1>2. CASE a = at /\ j = i
    <2>1. G[a][j].kind = "page" /\ F[a][j].kind = "none"
      BY <1>2, Zenon DEF Sets
    <2> QED
      BY <2>1, Strings, Zenon DEF Link
  <1>3. CASE ~(a = at /\ j = i)
    <2>1. a \in DOMAIN F /\ j \in Entries => G[a][j] = F[a][j]
      BY <1>3, Zenon DEF Sets
    <2> QED
      BY <1>1, <2>1, Zenon DEF Link
  <1> QED
    BY <1>2, <1>3, Zenon

(* So all tables that are linked are there. *)
LEMMA SetWellFormed ==
    ASSUME NEW F, NEW root, WellFormed(F, root), NEW G, NEW at, NEW i, NEW e, Sets(F, G, at, i, e)
    PROVE  WellFormed(G, root)
  <1>1. DOMAIN G = DOMAIN F
    BY Zenon DEF Sets
  <1>2. ASSUME NEW a \in DOMAIN G, NEW j \in Entries, G[a][j].kind = "table"
        PROVE  G[a][j].to \in DOMAIN G \ {root}
    <2>1. Link(G, a, j, G[a][j].to)
      BY <1>2, Zenon DEF Link
    <2>2. Link(F, a, j, G[a][j].to)
      BY <2>1, SetLinks, Zenon
    <2> QED
      BY <1>1, <2>2, LinkedIsThere, Zenon
  <1>3. G \in [DOMAIN G -> Tables]
    BY <1>1, Zenon DEF Sets
  <1> QED
    BY <1>1, <1>2, <1>3, Zenon DEF WellFormed

(* a, b and c are the tables on the way to the pages around first that     *)
(* have k as their index at level 2.                                       *)
Path(F, root, first, k, a, b, c) ==
    /\ Link(F, root, Index(first, 0), a) /\ Link(F, a, Index(first, 1), b)
    /\ Link(F, b, k, c)

(* The entries that lead to the table of pages c are on the way. *)
LEMMA PathIsWay ==
    ASSUME NEW F, NEW root, NEW first, WellFormed(F, root), NEW k, NEW a, NEW b, NEW c,
           Path(F, root, first, k, a, b, c)
    PROVE  /\ a \in DOMAIN F /\ b \in DOMAIN F /\ c \in DOMAIN F /\ root \in DOMAIN F
           /\ a # root /\ b # root /\ c # root
           /\ Index(first, 0) \in Entries /\ Index(first, 1) \in Entries /\ k \in Entries
           /\ OnTheWay(F, root, first, root, Index(first, 0))
           /\ OnTheWay(F, root, first, a, Index(first, 1))
           /\ OnTheWay(F, root, first, b, k)
  BY LinkedIsThere, Zenon DEF Path, OnTheWay

(* The tables on the way have one place each. *)
LEMMA PathIsPrivate ==
    ASSUME NEW F, NEW root, NEW first, WellFormed(F, root), TablesPrivate(F, root, first),
           NEW k, NEW a, NEW b, NEW c, Path(F, root, first, k, a, b, c)
    PROVE  /\ \A x, j : Link(F, x, j, a) => x = root /\ j = Index(first, 0)
           /\ \A x, j : Link(F, x, j, b) => x = a /\ j = Index(first, 1)
           /\ \A x, j : Link(F, x, j, c) => x = b /\ j = k
  <1>1. \A x, j, y : Link(F, x, j, y) => x \in DOMAIN F /\ j \in Entries
    BY LinkedIsThere, Zenon
  <1>2. ASSUME NEW x, NEW j, Link(F, x, j, a)
        PROVE  x = root /\ j = Index(first, 0)
    BY <1>1, <1>2, PathIsWay, Zenon DEF Path, TablesPrivate
  <1>3. ASSUME NEW x, NEW j, Link(F, x, j, b)
        PROVE  x = a /\ j = Index(first, 1)
    BY <1>1, <1>3, PathIsWay, Zenon DEF Path, TablesPrivate
  <1>4. ASSUME NEW x, NEW j, Link(F, x, j, c)
        PROVE  x = b /\ j = k
    BY <1>1, <1>4, PathIsWay, Zenon DEF Path, TablesPrivate
  <1> QED
    BY <1>2, <1>3, <1>4, Zenon

(* A table of pages is no table of tables. *)
LEMMA LeafIsNoWay ==
    ASSUME NEW F, NEW root, NEW first, WellFormed(F, root), TablesPrivate(F, root, first),
           NEW k, NEW a, NEW b, NEW c, Path(F, root, first, k, a, b, c), NEW j
    PROVE  ~OnTheWay(F, root, first, c, j)
  <1>1. a # root /\ b # root /\ c # root
    BY PathIsWay, Zenon
  <1>2. /\ \A x, i : Link(F, x, i, a) => x = root
        /\ \A x, i : Link(F, x, i, b) => x = a
        /\ \A x, i : Link(F, x, i, c) => x = b
    BY PathIsPrivate, Zenon
  <1>3. ~Link(F, root, Index(first, 0), c)
    BY <1>1, <1>2, Zenon
  <1>4. ASSUME NEW d, Link(F, root, Index(first, 0), d), Link(F, d, Index(first, 1), c)
        PROVE  FALSE
    <2>1. d = a
      BY <1>4, LinkIsUnique, Zenon DEF Path
    <2>2. d = b
      BY <1>2, <1>4, Zenon
    <2> QED
      BY <1>1, <1>2, <2>1, <2>2, Zenon DEF Path
  <1> QED
    BY <1>1, <1>3, <1>4, Zenon DEF OnTheWay

(* A new page links nothing, so these tables are still linked once. *)
LEMMA SetPrivate ==
    ASSUME NEW F, NEW root, NEW first, WellFormed(F, root), TablesPrivate(F, root, first),
           NEW k, NEW a, NEW b, NEW c, Path(F, root, first, k, a, b, c),
           NEW G, NEW i, NEW e, Sets(F, G, c, i, e)
    PROVE  TablesPrivate(G, root, first)
  <1>1. \A x, j, y : Link(G, x, j, y) <=> Link(F, x, j, y)
    BY SetLinks, Zenon
  <1>2. DOMAIN G = DOMAIN F
    BY Zenon DEF Sets
  <1>3. ASSUME NEW x, NEW j, OnTheWay(G, root, first, x, j)
        PROVE  OnTheWay(F, root, first, x, j)
    BY <1>1, <1>2, <1>3, Zenon DEF OnTheWay
  <1> SUFFICES ASSUME NEW x \in DOMAIN G, NEW j \in Entries, OnTheWay(G, root, first, x, j)
               PROVE  /\ G[x][j].kind # "page"
                      /\ \A y \in DOMAIN G, l \in Entries, z \in DOMAIN G :
                            Link(G, x, j, z) /\ Link(G, y, l, z) => y = x /\ l = j
    BY Zenon DEF TablesPrivate
  <1>4. OnTheWay(F, root, first, x, j)
    BY <1>3, Zenon
  <1>5. x # c
    BY <1>4, LeafIsNoWay, Zenon
  <1>6. G[x][j] = F[x][j]
    BY <1>2, <1>5, Zenon DEF Sets
  <1> QED
    BY <1>1, <1>2, <1>4, <1>6, Zenon DEF TablesPrivate

(* A new page changes the translation of that page only. *)
LEMMA SetTranslateOther ==
    ASSUME NEW F, NEW root, NEW first \in Pages, WellFormed(F, root), TablesPrivate(F, root, first),
           NEW v \in Pages, Index(v, 0) = Index(first, 0), Index(v, 1) = Index(first, 1),
           NEW a, NEW b, NEW c, Path(F, root, first, Index(v, 2), a, b, c),
           NEW G, NEW e, Sets(F, G, c, Index(v, 3), e), NEW u \in Pages, u # v
    PROVE  Translate(G, root, u) = Translate(F, root, u)
  <1> DEFINE x0 == Spot(root)
             x1 == Descend(F, x0, 0, u)
             x2 == Descend(F, x1, 1, u)
             x3 == Descend(F, x2, 2, u)
             x4 == Descend(F, x3, 3, u)
  <1>0. /\ Index(u, 0) \in Entries /\ Index(u, 1) \in Entries
        /\ Index(u, 2) \in Entries /\ Index(u, 3) \in Entries
    BY Indices, Zenon
  <1>1. IsSpot(x0) /\ x0.at = root /\ ~x0.done /\ root \in DOMAIN F
    BY SpotIsSpot, Zenon DEF WellFormed
  <1> HIDE DEF x0
  <1>2. /\ IsSpot(x1) /\ (x1.done \/ x1.at \in DOMAIN F)
        /\ ~x1.done => Link(F, root, Index(u, 0), x1.at)
    BY <1>0, <1>1, DescendLinks, Zenon
  <1> HIDE DEF x1
  <1>3. /\ IsSpot(x2) /\ (x2.done \/ x2.at \in DOMAIN F)
        /\ ~x2.done => ~x1.done /\ Link(F, x1.at, Index(u, 1), x2.at)
    BY <1>0, <1>2, DescendLinks, Zenon
  <1> HIDE DEF x2
  <1>4. /\ IsSpot(x3) /\ (x3.done \/ x3.at \in DOMAIN F)
        /\ ~x3.done => ~x2.done /\ Link(F, x2.at, Index(u, 2), x3.at)
    BY <1>0, <1>3, DescendLinks, Zenon
  <1> HIDE DEF x3
  <1>5. /\ \A x, j : Link(F, x, j, a) => x = root /\ j = Index(v, 0)
        /\ \A x, j : Link(F, x, j, b) => x = a /\ j = Index(v, 1)
        /\ \A x, j : Link(F, x, j, c) => x = b /\ j = Index(v, 2)
    BY PathIsPrivate
  <1>6. a # root /\ b # root /\ c # root
    BY PathIsWay, Zenon
  <1>7. \A x \in DOMAIN F, j \in Entries : x # c \/ j # Index(v, 3) => F[x][j] = G[x][j]
    BY Zenon DEF Sets
  <1>8. x1 = Descend(G, x0, 0, u)
    <2>1. F[x0.at][Index(u, 0)] = G[x0.at][Index(u, 0)]
      BY <1>0, <1>1, <1>6, <1>7, Zenon
    <2> QED
      BY <1>1, <2>1, DescendSame DEF x1
  <1>9. x2 = Descend(G, x1, 1, u)
    <2>1. ~x1.done => x1.at # c
      BY <1>2, <1>5, <1>6, Zenon
    <2>2. x1.done \/ F[x1.at][Index(u, 1)] = G[x1.at][Index(u, 1)]
      BY <2>1, <1>0, <1>2, <1>7, Zenon
    <2> QED
      BY <1>2, <2>2, DescendSame DEF x2
  <1>10. x3 = Descend(G, x2, 2, u)
    <2>1. ~x2.done => x2.at # c
      BY <1>2, <1>3, <1>5, <1>6, Zenon
    <2>2. x2.done \/ F[x2.at][Index(u, 2)] = G[x2.at][Index(u, 2)]
      BY <2>1, <1>0, <1>3, <1>7, Zenon
    <2> QED
      BY <1>3, <2>2, DescendSame DEF x3
  <1>11. x4 = Descend(G, x3, 3, u)
    <2>1. ASSUME ~x3.done, x3.at = c, Index(u, 3) = Index(v, 3)
          PROVE  FALSE
      <3>1. x2.at = b /\ Index(u, 2) = Index(v, 2) /\ ~x2.done
        BY <2>1, <1>4, <1>5, Zenon
      <3>2. x1.at = a /\ Index(u, 1) = Index(v, 1) /\ ~x1.done
        BY <3>1, <1>3, <1>5, Zenon
      <3>3. Index(u, 0) = Index(v, 0)
        BY <3>2, <1>2, <1>5, Zenon
      <3>4. u = v
        BY <2>1, <3>1, <3>2, <3>3, SamePage, Zenon
      <3> QED
        BY <3>4, Zenon
    <2>2. x3.done \/ F[x3.at][Index(u, 3)] = G[x3.at][Index(u, 3)]
      BY <2>1, <1>0, <1>4, <1>7, Zenon
    <2> QED
      BY <1>4, <2>2, DescendSame DEF x4
  <1>12. Translate(F, root, u) = x4.res
    BY TranslateIs, Zenon DEF x0, x1, x2, x3, x4
  <1>13. Translate(G, root, u) = x4.res
    BY <1>8, <1>9, <1>10, <1>11, TranslateIs, Zenon DEF x0
  <1> QED
    BY <1>12, <1>13, Zenon

(* The same of all other pages; c is the table of pages. *)
SetsOnPath(F, G, root, first, v, c, e) ==
    /\ WellFormed(F, root) /\ TablesPrivate(F, root, first)
    /\ Index(v, 0) = Index(first, 0) /\ Index(v, 1) = Index(first, 1)
    /\ \E a, b : Path(F, root, first, Index(v, 2), a, b, c)
    /\ Sets(F, G, c, Index(v, 3), e)

(* None of them is translated differently. *)
LEMMA SetTranslateOthers ==
    ASSUME NEW F, NEW root, NEW first \in Pages, NEW v \in Pages, NEW c, NEW G, NEW e,
           SetsOnPath(F, G, root, first, v, c, e)
    PROVE  \A u \in Pages : u # v => Translate(G, root, u) = Translate(F, root, u)
  <1>1. /\ WellFormed(F, root) /\ TablesPrivate(F, root, first)
        /\ Index(v, 0) = Index(first, 0) /\ Index(v, 1) = Index(first, 1)
        /\ Sets(F, G, c, Index(v, 3), e)
    BY Zenon DEF SetsOnPath
  <1>2. PICK a, b : Path(F, root, first, Index(v, 2), a, b, c)
    BY Zenon DEF SetsOnPath
  <1> QED
    BY <1>1, <1>2, SetTranslateOther

(* The page itself, unmapped before, is mapped. *)
LEMMA SetTranslate ==
    ASSUME NEW F, NEW root, NEW first \in Pages,
           NEW v \in Pages, Index(v, 0) = Index(first, 0), Index(v, 1) = Index(first, 1),
           NEW a, NEW b, NEW c, Path(F, root, first, Index(v, 2), a, b, c),
           NEW G, NEW phys \in Nat, NEW prot, Sets(F, G, c, Index(v, 3), Entry("page", phys, prot))
    PROVE  /\ Translate(F, root, v) = Unmapped
           /\ Translate(G, root, v) = [to |-> phys, prot |-> prot]
  <1>1. /\ Link(F, root, Index(v, 0), a) /\ Link(F, a, Index(v, 1), b) /\ Link(F, b, Index(v, 2), c)
    BY Zenon DEF Path
  <1>2. /\ Link(G, root, Index(v, 0), a) /\ Link(G, a, Index(v, 1), b) /\ Link(G, b, Index(v, 2), c)
    BY <1>1, SetLinks, Zenon
  <1> DEFINE e == Entry("page", phys, prot)
  <1>3. F[c][Index(v, 3)].kind = "none" /\ G[c][Index(v, 3)] = e
    BY Zenon DEF Sets
  <1>4. e.kind = "page" /\ e.to = phys /\ e.prot = prot
    BY EntryFields
  <1> HIDE DEF e
  <1>5. Translate(G, root, v) = [to |-> e.to + (v % PagesOf(3)) * PageBytes, prot |-> e.prot]
    BY <1>2, <1>3, <1>4, TranslateThrough, Zenon
  <1>6. phys + (v % PagesOf(3)) * PageBytes = phys
    <2>1. PagesOf(3) = 1
      BY DEF PagesOf
    <2>2. v \in Nat
      BY EntryAssumption DEF Pages, PageCount
    <2>3. v % 1 = 0
      BY <2>2
    <2>4. 0 * PageBytes = 0
      BY PageBytesAssumption
    <2> QED
      BY <2>1, <2>3, <2>4
  <1>7. Translate(F, root, v) = Unmapped
    BY <1>1, <1>3, TranslateThrough
  <1> QED
    BY <1>4, <1>5, <1>6, <1>7, Zenon

-----------------------------------------------------------------------------
(* The walk of map_memory()                                                *)

(* The state of map_memory(), as a record. *)
IsWalk(w) ==
    /\ w = [up |-> w.up, old |-> w.old, pt |-> w.pt, at |-> w.at, ok |-> w.ok,
            m |-> w.m, n |-> w.n, v |-> w.v]
    /\ w.ok \in BOOLEAN

(* The guest's tables T with those that the walk is going to write. *)
View(w, T) == Over(w.up, T)

(* The tables stay in order, and the new ones are between lo and pt. *)
WalkOK(w, T, root, first, lo) ==
    /\ w.up \in [DOMAIN w.up -> Tables] /\ root \in DOMAIN w.up
    /\ w.old \subseteq DOMAIN T
    /\ WellFormed(View(w, T), root) /\ TablesPrivate(View(w, T), root, first)
    /\ w.pt \in Nat /\ lo <= w.pt
    /\ \A t \in DOMAIN w.up : t \in w.old \/ (lo <= t /\ t + PageBytes <= w.pt)

(* The guest's tables are below the new ones. *)
Below(T, lo) == lo \in Nat /\ T \in [DOMAIN T -> Tables] /\ \A t \in DOMAIN T : t \in Nat /\ t < lo

(* h is f, and g where f is not defined. *)
IsOver(h, f, g) ==
    /\ DOMAIN h = DOMAIN f \cup DOMAIN g
    /\ \A a \in DOMAIN f : h[a] = f[a]
    /\ \A a \in DOMAIN g : a \notin DOMAIN f => h[a] = g[a]
    /\ \A R : (\A a \in DOMAIN f \cup DOMAIN g : h[a] \in R) => h \in [DOMAIN f \cup DOMAIN g -> R]

(* The entries of f hide those of g. *)
LEMMA OverIs ==
    ASSUME NEW f, NEW g
    PROVE  IsOver(Over(f, g), f, g)
  BY DEF Over, IsOver

(* An entry has its type. *)
LEMMA EntryIsTyped ==
    ASSUME NEW kind \in Kinds, NEW to \in Nat, NEW prot \in Prots \cup {"-"}
    PROVE  Entry(kind, to, prot) \in [kind : Kinds, to : Nat, prot : Prots \cup {"-"}]
  BY DEF Entry

(* What the entries that vmsh writes are made of. *)
LEMMA Typed ==
    0 \in Nat /\ "-" \in Prots \cup {"-"} /\ "none" \in Kinds /\ "table" \in Kinds /\ "page" \in Kinds
  <1>1. 0 \in Nat
    BY SMT
  <1>3. "-" \in Prots \cup {"-"}
    BY Zenon
  <1>2. "none" \in Kinds /\ "table" \in Kinds /\ "page" \in Kinds
    BY Zenon DEF Kinds
  <1> QED
    BY <1>1, <1>2, <1>3, Zenon

(* One entry of one table. *)
Updated(f, g, c, i, e) ==
    /\ DOMAIN g = DOMAIN f /\ g \in [DOMAIN f -> Tables] /\ g[c][i] = e
    /\ \A a \in DOMAIN f, j \in Entries : a # c \/ j # i => g[a][j] = f[a][j]

(* EXCEPT changes that one entry. *)
LEMMA Update ==
    ASSUME NEW f, f \in [DOMAIN f -> Tables], NEW c \in DOMAIN f, NEW i \in Entries,
           NEW e \in [kind : Kinds, to : Nat, prot : Prots \cup {"-"}]
    PROVE  Updated(f, [f EXCEPT ![c][i] = e], c, i, e)
  <1> DEFINE R == [kind : Kinds, to : Nat, prot : Prots \cup {"-"}]
             g == [f EXCEPT ![c][i] = e]
  <1>1. f \in [DOMAIN f -> [Entries -> R]] /\ e \in R
    BY Zenon DEF Tables
  <1> HIDE DEF R
  <1>2. /\ DOMAIN g = DOMAIN f /\ g \in [DOMAIN f -> [Entries -> R]] /\ g[c][i] = e
        /\ \A a \in DOMAIN f, j \in Entries : a # c \/ j # i => g[a][j] = f[a][j]
    BY <1>1
  <1> HIDE DEF g
  <1> QED
    BY <1>2, Zenon DEF Updated, Tables, R, g

(* The loops are where they were. *)
SamePlace(w, x) == IsWalk(x) /\ x.m = w.m /\ x.n = w.n /\ x.v = w.v

(* read_page_table(): the table is copied as it is in memory, unless the   *)
(* walk fails.                                                             *)
Reads(w, x, T, addr) ==
    /\ SamePlace(w, x) /\ x.pt = w.pt
    /\ x.ok => /\ w.ok /\ x.at = addr /\ x.old = w.old \cup {addr}
               /\ x.up = Over([a \in {addr} |-> T[a]], w.up)

(* read_page_table() copies the table, or fails. *)
LEMMA ReadCases ==
    ASSUME NEW w, IsWalk(w), NEW T, NEW kn, NEW addr
    PROVE  Reads(w, ReadPageTable(w, T, kn, addr), T, addr)
  <1> DEFINE x == ReadPageTable(w, T, kn, addr)
             new == Over([a \in {addr} |-> T[a]], w.up)
  <1>1. x = IF Backed(kn, addr)
            THEN [w EXCEPT !.up = new, !.old = w.old \cup {addr}, !.at = addr]
            ELSE [w EXCEPT !.ok = FALSE]
    BY DEF ReadPageTable
  <1> HIDE DEF x, new
  <1>2. PICK up, old, pt, at, ok, m, n, v :
           w = [up |-> up, old |-> old, pt |-> pt, at |-> at, ok |-> ok, m |-> m, n |-> n, v |-> v]
           /\ ok \in BOOLEAN
    BY Zenon DEF IsWalk
  <1>3. w.old = old /\ w.m = m /\ w.n = n /\ w.v = v /\ w.pt = pt /\ w.ok = ok
    BY <1>2
  <1>4. CASE Backed(kn, addr)
    <2>1. x = [up |-> new, old |-> old \cup {addr}, pt |-> pt, at |-> addr, ok |-> ok,
               m |-> m, n |-> n, v |-> v]
      BY <1>1, <1>2, <1>3, <1>4
    <2>2. /\ x.up = new /\ x.old = old \cup {addr} /\ x.pt = pt /\ x.at = addr /\ x.ok = ok
          /\ x.m = m /\ x.n = n /\ x.v = v
      BY <2>1
    <2>3. IsWalk(x)
      BY <2>1, <2>2, <1>2, Zenon DEF IsWalk
    <2> QED
      BY <1>3, <2>2, <2>3, Zenon DEF x, new, Reads, SamePlace
  <1>5. CASE ~Backed(kn, addr)
    <2>1. x = [up |-> up, old |-> old, pt |-> pt, at |-> at, ok |-> FALSE,
               m |-> m, n |-> n, v |-> v]
      BY <1>1, <1>2, <1>5
    <2>2. /\ x.up = up /\ x.old = old /\ x.pt = pt /\ x.at = at /\ x.ok = FALSE
          /\ x.m = m /\ x.n = n /\ x.v = v
      BY <2>1
    <2>3. IsWalk(x)
      BY <2>1, <2>2, Zenon DEF IsWalk
    <2> QED
      BY <1>3, <2>2, <2>3, Zenon DEF x, Reads, SamePlace
  <1> QED
    BY <1>4, <1>5, Zenon

(* allocate_page_table() links an empty table, at pt, and stands at it.    *)
LEMMA AllocateCases ==
    ASSUME NEW w, IsWalk(w), NEW i
    PROVE  LET x == AllocatePageTable(w, i)
           IN  /\ IsWalk(x) /\ x.m = w.m /\ x.n = w.n /\ x.v = w.v /\ x.ok = w.ok /\ x.old = w.old
               /\ x.at = w.pt /\ x.pt = w.pt + PageBytes
               /\ x.up = Over([a \in {w.pt} |-> EmptyTable],
                              [w.up EXCEPT ![w.at][i] = Entry("table", w.pt, "-")])
  <1> DEFINE x == AllocatePageTable(w, i)
             new == Over([a \in {w.pt} |-> EmptyTable],
                         [w.up EXCEPT ![w.at][i] = Entry("table", w.pt, "-")])
  <1>1. x = [w EXCEPT !.up = new, !.pt = w.pt + PageBytes, !.at = w.pt]
    BY DEF AllocatePageTable
  <1> HIDE DEF x, new
  <1>2. PICK up, old, pt, at, ok, m, n, v :
           w = [up |-> up, old |-> old, pt |-> pt, at |-> at, ok |-> ok, m |-> m, n |-> n, v |-> v]
           /\ ok \in BOOLEAN
    BY Zenon DEF IsWalk
  <1>3. w.old = old /\ w.m = m /\ w.n = n /\ w.v = v /\ w.pt = pt /\ w.ok = ok
    BY <1>2
  <1> DEFINE pt2 == pt + PageBytes
  <1>4. x = [w EXCEPT !.up = new, !.pt = pt2, !.at = pt]
    BY <1>1, <1>3, Zenon
  <1>5. pt2 = w.pt + PageBytes
    BY <1>3, Zenon
  <1> HIDE DEF pt2
  <1>6. x = [up |-> new, old |-> old, pt |-> pt2, at |-> pt, ok |-> ok, m |-> m, n |-> n, v |-> v]
    BY <1>2, <1>4
  <1>7. /\ x.up = new /\ x.old = old /\ x.pt = pt2 /\ x.at = pt /\ x.ok = ok
        /\ x.m = m /\ x.n = n /\ x.v = v
    BY <1>6
  <1>8. IsWalk(x)
    BY <1>2, <1>6, <1>7, Zenon DEF IsWalk
  <1> QED
    BY <1>3, <1>5, <1>7, <1>8, Zenon DEF x, new

(* Going to another table, or giving up, changes nothing else. *)
LEMMA MoveCases ==
    ASSUME NEW w, IsWalk(w), NEW a
    PROVE  LET x == [w EXCEPT !.at = a]
           IN  /\ IsWalk(x) /\ x.m = w.m /\ x.n = w.n /\ x.v = w.v /\ x.ok = w.ok /\ x.old = w.old
               /\ x.at = a /\ x.pt = w.pt /\ x.up = w.up
  <1> DEFINE x == [w EXCEPT !.at = a]
  <1>2. PICK up, old, pt, at, ok, m, n, v :
           w = [up |-> up, old |-> old, pt |-> pt, at |-> at, ok |-> ok, m |-> m, n |-> n, v |-> v]
           /\ ok \in BOOLEAN
    BY Zenon DEF IsWalk
  <1>3. /\ w.up = up /\ w.old = old /\ w.m = m /\ w.n = n /\ w.v = v /\ w.pt = pt /\ w.ok = ok
    BY <1>2
  <1>4. x = [up |-> up, old |-> old, pt |-> pt, at |-> a, ok |-> ok, m |-> m, n |-> n, v |-> v]
    BY <1>2
  <1> HIDE DEF x
  <1>5. /\ x.up = up /\ x.old = old /\ x.pt = pt /\ x.at = a /\ x.ok = ok
        /\ x.m = m /\ x.n = n /\ x.v = v
    BY <1>4
  <1>6. IsWalk(x)
    BY <1>2, <1>4, <1>5, Zenon DEF IsWalk
  <1> QED
    BY <1>3, <1>5, <1>6, Zenon DEF x

(* A walk that gives up stays where it is. *)
LEMMA FailCases ==
    ASSUME NEW w, IsWalk(w)
    PROVE  LET x == [w EXCEPT !.ok = FALSE]
           IN  IsWalk(x) /\ x.m = w.m /\ x.n = w.n /\ x.v = w.v /\ ~x.ok
  <1> DEFINE x == [w EXCEPT !.ok = FALSE]
  <1>2. PICK up, old, pt, at, ok, m, n, v :
           w = [up |-> up, old |-> old, pt |-> pt, at |-> at, ok |-> ok, m |-> m, n |-> n, v |-> v]
           /\ ok \in BOOLEAN
    BY Zenon DEF IsWalk
  <1>3. w.m = m /\ w.n = n /\ w.v = v
    BY <1>2
  <1> DEFINE no == FALSE
  <1>6. no \in BOOLEAN
    OBVIOUS
  <1> HIDE DEF no
  <1>7. [w EXCEPT !.ok = no]
           = [up |-> up, old |-> old, pt |-> pt, at |-> at, ok |-> no, m |-> m, n |-> n, v |-> v]
    BY <1>2
  <1>4. x = [up |-> up, old |-> old, pt |-> pt, at |-> at, ok |-> FALSE, m |-> m, n |-> n, v |-> v]
    BY <1>7, Zenon DEF no
  <1> HIDE DEF x
  <1>5. /\ x.up = up /\ x.old = old /\ x.pt = pt /\ x.at = at /\ x.ok = FALSE
        /\ x.m = m /\ x.n = n /\ x.v = v
    BY <1>4
  <1>8. IsWalk(x)
    BY <1>4, <1>5, Zenon DEF IsWalk
  <1> QED
    BY <1>3, <1>5, <1>8, Zenon DEF x

(* What a step of the walk leaves as it is: every translation, and every   *)
(* link; and it needs one new table at most.                               *)
Keeps(w, x, T, root) ==
    /\ \A u \in Pages : Translate(View(x, T), root, u) = Translate(View(w, T), root, u)
    /\ \A a, i, b : Link(View(w, T), a, i, b) => Link(View(x, T), a, i, b)

(* get_page_table(): the entry's table, if it is not ok. *)
GoesDown(w, x, T, root, first, lo, i) ==
    /\ SamePlace(w, x)
    /\ x.ok => /\ WalkOK(x, T, root, first, lo) /\ x.at \in DOMAIN x.up
               /\ Link(View(x, T), w.at, i, x.at)
               /\ Keeps(w, x, T, root)
               /\ x.pt = w.pt \/ x.pt = w.pt + PageBytes
               /\ \A b : Link(View(w, T), w.at, i, b) => x.pt = w.pt

(* get_page_table() gets to the table, and every translation stays. *)
LEMMA GetTable ==
    ASSUME NEW w, IsWalk(w), w.ok, NEW T, NEW root, NEW first, NEW lo, Below(T, lo), NEW kn,
           WalkOK(w, T, root, first, lo), w.at \in DOMAIN w.up,
           NEW i \in Entries, OnTheWay(View(w, T), root, first, w.at, i)
    PROVE  GoesDown(w, GetPageTable(w, T, kn, i), T, root, first, lo, i)
  <1> DEFINE x == GetPageTable(w, T, kn, i)
             F == View(w, T)
             G == View(x, T)
             e == w.up[w.at][i]
  <1>1. x = IF e.kind = "huge" THEN [w EXCEPT !.ok = FALSE]
            ELSE IF e.kind = "none" THEN AllocatePageTable(w, i)
            ELSE IF e.to \in DOMAIN w.up THEN [w EXCEPT !.at = e.to]
            ELSE ReadPageTable(w, T, kn, e.to)
    BY Zenon DEF GetPageTable
  <1> HIDE DEF x
  <1>2. /\ DOMAIN F = DOMAIN w.up \cup DOMAIN T
        /\ \A a \in DOMAIN w.up : F[a] = w.up[a]
        /\ \A a \in DOMAIN T : a \notin DOMAIN w.up => F[a] = T[a]
    <2>1. IsOver(F, w.up, T)
      BY OverIs, Zenon DEF View
    <2> HIDE DEF F
    <2> QED
      BY <2>1, Zenon DEF IsOver
  <1>3. F[w.at][i] = e /\ w.at \in DOMAIN F
    BY <1>2, Zenon
  <1>4. WellFormed(F, root) /\ TablesPrivate(F, root, first)
    BY Zenon DEF WalkOK
  <1>5. e.kind \in {"none", "table", "huge"}
    <2>1. e.kind # "page"
      BY <1>3, <1>4, Zenon DEF TablesPrivate
    <2>2. F \in [DOMAIN F -> [Entries -> [kind : Kinds, to : Nat, prot : Prots \cup {"-"}]]]
      BY <1>4, Zenon DEF WellFormed, Tables
    <2>3. e \in [kind : Kinds, to : Nat, prot : Prots \cup {"-"}]
      BY <1>3, <2>2, Zenon
    <2>4. e.kind \in Kinds
      BY <2>3
    <2> QED
      BY <2>1, <2>4, Zenon DEF Kinds
  <1>6. CASE e.kind = "huge"
    BY <1>1, <1>6, FailCases, Zenon DEF x, GoesDown, SamePlace
  <1>7. CASE e.kind = "table" /\ e.to \in DOMAIN w.up
    <2>1. x = [w EXCEPT !.at = e.to]
      BY <1>1, <1>7, Strings, Zenon
    <2>2. /\ IsWalk(x) /\ x.m = w.m /\ x.n = w.n /\ x.v = w.v /\ x.old = w.old
          /\ x.at = e.to /\ x.pt = w.pt /\ x.up = w.up
      BY <2>1, MoveCases
    <2>3. G = F
      BY <2>2, Zenon DEF View
    <2>4. WalkOK(x, T, root, first, lo)
      BY <2>2, <2>3, Zenon DEF WalkOK
    <2>5. Link(G, w.at, i, x.at)
      BY <2>2, <2>3, <1>3, <1>7, Zenon DEF Link
    <2>6. Keeps(w, x, T, root)
      BY <2>3, Zenon DEF Keeps
    <2> QED
      BY <2>2, <2>4, <2>5, <2>6, <1>7, Zenon DEF x, GoesDown, SamePlace
  <1>8. CASE e.kind = "table" /\ e.to \notin DOMAIN w.up
    <2>1. x = ReadPageTable(w, T, kn, e.to)
      BY <1>1, <1>8, Strings, Zenon
    <2>2. /\ IsWalk(x) /\ x.m = w.m /\ x.n = w.n /\ x.v = w.v /\ x.pt = w.pt
          /\ x.ok => /\ w.ok /\ x.at = e.to /\ x.old = w.old \cup {e.to}
                     /\ x.up = Over([a \in {e.to} |-> T[a]], w.up)
      <3>1. Reads(w, x, T, e.to)
        BY <2>1, ReadCases, Zenon
      <3> QED
        BY <3>1, Zenon DEF Reads, SamePlace
    <2>3. SUFFICES ASSUME x.ok
                   PROVE  /\ WalkOK(x, T, root, first, lo) /\ x.at \in DOMAIN x.up
                          /\ Link(G, w.at, i, x.at)
                          /\ Keeps(w, x, T, root)
      BY <2>2, Zenon DEF x, GoesDown, SamePlace
    <2>4. Link(F, w.at, i, e.to)
      BY <1>3, <1>8, Zenon DEF Link
    <2>5. e.to \in DOMAIN T
      BY <1>2, <1>4, <1>8, <2>4, LinkedIsThere, Zenon
    <2> DEFINE one == [a \in {e.to} |-> T[a]]
    <2>6. DOMAIN one = {e.to} /\ one[e.to] = T[e.to]
      OBVIOUS
    <2> HIDE DEF one
    <2>13. IsOver(x.up, one, w.up)
      BY <2>2, <2>3, OverIs, Zenon DEF one
    <2>7. /\ DOMAIN x.up = {e.to} \cup DOMAIN w.up
          /\ x.up[e.to] = T[e.to]
          /\ \A a \in DOMAIN w.up : x.up[a] = w.up[a]
      BY <2>6, <2>13, <1>8, Zenon DEF IsOver
    <2>8. x.up \in [DOMAIN x.up -> Tables]
      <3>2. \A a \in DOMAIN x.up : x.up[a] \in Tables
        BY <2>5, <2>7, Zenon DEF WalkOK, Below
      <3> QED
        BY <2>13, <3>2, Zenon DEF IsOver
    <2>9. G = F
      <3>1. /\ DOMAIN G = DOMAIN x.up \cup DOMAIN T
            /\ \A a \in DOMAIN x.up : G[a] = x.up[a]
            /\ \A a \in DOMAIN T : a \notin DOMAIN x.up => G[a] = T[a]
        <4>1. IsOver(G, x.up, T)
          BY OverIs, Zenon DEF View
        <4> HIDE DEF G
        <4> QED
          BY <4>1, Zenon DEF IsOver
      <3>2. DOMAIN G = DOMAIN F
        BY <3>1, <1>2, <2>5, <2>7, Zenon
      <3>3. ASSUME NEW a \in DOMAIN F
            PROVE  G[a] = F[a]
        <4>1. CASE a \in DOMAIN w.up
          BY <1>2, <2>7, <3>1, <4>1, Zenon
        <4>2. CASE a = e.to /\ a \notin DOMAIN w.up
          BY <1>2, <2>5, <2>7, <3>1, <4>2, Zenon
        <4>3. CASE a # e.to /\ a \notin DOMAIN w.up
          BY <1>2, <2>7, <3>1, <4>3, Zenon
        <4> QED
          BY <4>1, <4>2, <4>3, Zenon
      <3>4. F \in [DOMAIN F -> Tables]
        BY <1>4, Zenon DEF WellFormed
      <3>5. G \in [DOMAIN F -> Tables]
        <4>1. IsOver(G, x.up, T)
          BY OverIs, Zenon DEF View
        <4>2. \A a \in DOMAIN F : F[a] \in Tables
          BY <3>4, Zenon
        <4> HIDE DEF F, G
        <4> QED
          BY <4>1, <4>2, <3>1, <3>2, <3>3, Zenon DEF IsOver
      <3> HIDE DEF F, G
      <3> QED
        BY <3>3, <3>4, <3>5
    <2>10. WalkOK(x, T, root, first, lo)
      BY <2>2, <2>3, <2>5, <2>7, <2>8, <2>9, Zenon DEF WalkOK
    <2>11. Link(G, w.at, i, x.at)
      BY <2>2, <2>3, <2>4, <2>9, Zenon
    <2>12. Keeps(w, x, T, root)
      BY <2>9, Zenon DEF Keeps
    <2> QED
      BY <2>2, <2>3, <2>7, <2>10, <2>11, <2>12, Zenon
  <1>9. CASE e.kind = "none"
    <2>1. x = AllocatePageTable(w, i)
      BY <1>1, <1>9, Strings, Zenon
    <2> DEFINE link == Entry("table", w.pt, "-")
               linked == [w.up EXCEPT ![w.at][i] = link]
               one == [a \in {w.pt} |-> EmptyTable]
    <2>2. /\ IsWalk(x) /\ x.m = w.m /\ x.n = w.n /\ x.v = w.v /\ x.ok = w.ok /\ x.old = w.old
          /\ x.at = w.pt /\ x.pt = w.pt + PageBytes
          /\ x.up = Over(one, linked)
      BY <2>1, AllocateCases, Zenon
    <2>3. DOMAIN one = {w.pt} /\ one[w.pt] = EmptyTable
      OBVIOUS
    <2>4. w.pt \in Nat
      BY Zenon DEF WalkOK
    <2>5. link \in [kind : Kinds, to : Nat, prot : Prots \cup {"-"}]
      BY <2>4, EntryIsTyped, Typed, Zenon
    <2> HIDE DEF link
    <2>20. w.up \in [DOMAIN w.up -> Tables]
      BY Zenon DEF WalkOK
    <2>21. Updated(w.up, linked, w.at, i, link)
      BY <2>5, <2>20, Update, Zenon
    <2> HIDE DEF linked
    <2>6. /\ DOMAIN linked = DOMAIN w.up
          /\ linked \in [DOMAIN w.up -> Tables]
          /\ linked[w.at][i] = link
          /\ \A a \in DOMAIN w.up, j \in Entries : a # w.at \/ j # i => linked[a][j] = w.up[a][j]
      BY <2>21, Zenon DEF Updated
    <2> HIDE DEF linked, one
    <2>7. w.pt \notin DOMAIN w.up /\ w.pt \notin DOMAIN T
      <3>1. ASSUME NEW t \in DOMAIN T
            PROVE  t # w.pt
        <4>1. t \in Nat /\ lo \in Nat /\ t < lo /\ lo <= w.pt
          BY Zenon DEF Below, WalkOK
        <4> QED
          BY <4>1, <2>4
      <3>2. ASSUME NEW t \in DOMAIN w.up, t \notin DOMAIN T
            PROVE  t # w.pt
        <4>1. t + PageBytes <= w.pt
          BY <3>2, Zenon DEF WalkOK
        <4> QED
          BY <4>1, <2>4, PageBytesAssumption
      <3> QED
        BY <3>1, <3>2, Zenon
    <2>19. IsOver(x.up, one, linked)
      BY <2>2, OverIs, Zenon
    <2>8. /\ DOMAIN x.up = {w.pt} \cup DOMAIN w.up
          /\ x.up[w.pt] = EmptyTable
          /\ \A a \in DOMAIN w.up : x.up[a] = linked[a]
      BY <2>3, <2>6, <2>7, <2>19, Zenon DEF IsOver
    <2>9. EmptyTable \in Tables
      <3>1. NoEntry \in [kind : Kinds, to : Nat, prot : Prots \cup {"-"}]
        BY EntryIsTyped, Typed, Zenon DEF NoEntry
      <3> QED
        BY <3>1, Zenon DEF EmptyTable, Tables
    <2>10. x.up \in [DOMAIN x.up -> Tables]
      <3>2. \A a \in DOMAIN x.up : x.up[a] \in Tables
        BY <2>6, <2>8, <2>9, Zenon
      <3> QED
        BY <2>19, <3>2, Zenon DEF IsOver
    <2>11. /\ DOMAIN G = DOMAIN F \cup {w.pt}
           /\ \A a \in DOMAIN x.up : G[a] = x.up[a]
           /\ \A a \in DOMAIN T : a \notin DOMAIN x.up => G[a] = T[a]
           /\ \A R : (\A a \in DOMAIN G : G[a] \in R) => G \in [DOMAIN G -> R]
      <3>1. IsOver(G, x.up, T)
        BY OverIs, Zenon DEF View
      <3> HIDE DEF F, G
      <3> QED
        BY <1>2, <2>8, <3>1, Zenon DEF IsOver
    <2>12. Adds(F, G, w.at, i, w.pt)
      <3>1. \A a \in DOMAIN G : G[a] \in Tables
        BY <1>2, <2>8, <2>10, <2>11, Zenon DEF Below
      <3>2. G \in [DOMAIN F \cup {w.pt} -> Tables]
        BY <2>11, <3>1, Zenon
      <3>3. G[w.at][i] = link /\ G[w.pt] = EmptyTable
        BY <2>6, <2>8, <2>11, Zenon
      <3>4. ASSUME NEW a \in DOMAIN F, NEW j \in Entries, a # w.at \/ j # i
            PROVE  G[a][j] = F[a][j]
        <4>1. CASE a \in DOMAIN w.up
          <5>1. G[a] = linked[a] /\ F[a] = w.up[a]
            BY <1>2, <2>8, <2>11, <4>1, Zenon
          <5> QED
            BY <2>6, <3>4, <4>1, <5>1, Zenon
        <4>2. CASE a \notin DOMAIN w.up
          <5>1. a \in DOMAIN T /\ a \notin DOMAIN x.up
            BY <1>2, <2>7, <2>8, <4>2, Zenon
          <5> QED
            BY <1>2, <2>11, <4>2, <5>1, Zenon
        <4> QED
          BY <4>1, <4>2, Zenon
      <3> QED
        BY <1>2, <1>3, <1>9, <2>4, <2>7, <3>2, <3>3, <3>4, Zenon DEF Adds, link
    <2>13. WellFormed(G, root) /\ TablesPrivate(G, root, first)
      BY <1>4, <2>12, AddWellFormed, AddPrivate, Zenon
    <2>14. \A a, j, c : Link(G, a, j, c) <=> Link(F, a, j, c) \/ (a = w.at /\ j = i /\ c = w.pt)
      BY <2>12, AddLinks
    <2>15. Keeps(w, x, T, root)
      BY <1>4, <2>12, <2>14, AddTranslate, Zenon DEF Keeps
    <2>16. /\ x.pt \in Nat /\ lo <= x.pt
           /\ \A t \in DOMAIN x.up : t \in x.old \/ (lo <= t /\ t + PageBytes <= x.pt)
      <3>1. lo \in Nat /\ lo <= w.pt /\ PageBytes \in Nat /\ w.old \subseteq Nat /\ DOMAIN w.up \subseteq Nat
        BY <1>2, <1>4, PageBytesAssumption, Zenon DEF Below, WalkOK, WellFormed
      <3>2. x.pt = w.pt + PageBytes
        BY <2>2, Zenon
      <3>3. x.pt \in Nat /\ lo <= x.pt /\ w.pt <= x.pt /\ w.pt + PageBytes <= x.pt
        BY <2>4, <3>1, <3>2
      <3>4. ASSUME NEW t \in DOMAIN w.up
            PROVE  t \in x.old \/ (lo <= t /\ t + PageBytes <= x.pt)
        <4>1. t \in x.old \/ (lo <= t /\ t + PageBytes <= w.pt)
          BY <2>2, Zenon DEF WalkOK
        <4>2. t \in Nat
          BY <3>1, Zenon
        <4> QED
          BY <4>1, <4>2, <2>4, <3>1, <3>3
      <3> QED
        BY <2>8, <3>1, <3>3, <3>4, Zenon
    <2>17. WalkOK(x, T, root, first, lo)
      BY <2>2, <2>8, <2>10, <2>13, <2>16, Zenon DEF WalkOK
    <2>18. \A b : ~Link(F, w.at, i, b)
      BY <1>3, <1>9, Strings, Zenon DEF Link
    <2> QED
      BY <2>2, <2>8, <2>14, <2>15, <2>17, <2>18, Zenon DEF x, GoesDown, SamePlace
  <1> QED
    BY <1>5, <1>6, <1>7, <1>8, <1>9, Zenon

-----------------------------------------------------------------------------
(* One page                                                                *)

(* The entry is filled if it was empty, else the walk fails. *)
SetsPage(w, x, i, e) ==
    /\ SamePlace(w, x)
    /\ x.ok => /\ x.pt = w.pt /\ x.old = w.old /\ w.up[w.at][i].kind = "none"
               /\ x.up = [w.up EXCEPT ![w.at][i] = e]

(* The innermost loop's body fills an empty entry, or fails. *)
LEMMA SetCases ==
    ASSUME NEW w, IsWalk(w), NEW i, NEW phys, NEW prot
    PROVE  SetsPage(w, SetPage(w, i, phys, prot), i, Entry("page", phys, prot))
  <1> DEFINE x == SetPage(w, i, phys, prot)
             new == [w.up EXCEPT ![w.at][i] = Entry("page", phys, prot)]
  <1>1. x = IF w.up[w.at][i].kind # "none" THEN [w EXCEPT !.ok = FALSE] ELSE [w EXCEPT !.up = new]
    BY DEF SetPage
  <1> HIDE DEF x, new
  <1>2. CASE w.up[w.at][i].kind # "none"
    BY <1>1, <1>2, FailCases, Zenon DEF x, SetsPage, SamePlace
  <1>3. CASE w.up[w.at][i].kind = "none"
    <2>1. PICK up, old, pt, at, ok, m, n, v :
             w = [up |-> up, old |-> old, pt |-> pt, at |-> at, ok |-> ok, m |-> m, n |-> n, v |-> v]
             /\ ok \in BOOLEAN
      BY Zenon DEF IsWalk
    <2>2. w.old = old /\ w.m = m /\ w.n = n /\ w.v = v /\ w.pt = pt
      BY <2>1
    <2>3. x = [w EXCEPT !.up = new]
      BY <1>1, <1>3, Zenon
    <2>4. x = [up |-> new, old |-> old, pt |-> pt, at |-> at, ok |-> ok, m |-> m, n |-> n, v |-> v]
      BY <2>1, <2>3
    <2>5. /\ x.up = new /\ x.old = old /\ x.pt = pt /\ x.at = at /\ x.ok = ok
          /\ x.m = m /\ x.n = n /\ x.v = v
      BY <2>4
    <2>6. IsWalk(x)
      BY <2>1, <2>4, <2>5, Zenon DEF IsWalk
    <2> QED
      BY <1>3, <2>2, <2>5, <2>6, Zenon DEF x, new, SetsPage, SamePlace
  <1> QED
    BY <1>2, <1>3, Zenon

(* There are tables down to the one that entry k of the level-2 table is for. *)
Reaches(F, root, first, k) == \E a, b, c : Path(F, root, first, k, a, b, c)

(* x is the walk w gone down to the table of pages for page v. At most     *)
(* three tables are new; one, if there was a way to a page around first;   *)
(* none, if there was one to the table of pages.                           *)
AtPages(w, x, T, root, first, lo, v) ==
    /\ IsWalk(x) /\ x.m = w.m /\ x.n = w.n /\ x.v = w.v
    /\ x.ok => /\ WalkOK(x, T, root, first, lo) /\ x.at \in DOMAIN x.up
               /\ Keeps(w, x, T, root)
               /\ \E a, b : Path(View(x, T), root, first, Index(v, 2), a, b, x.at)
               /\ x.pt \in w.pt .. w.pt + PageBytes + PageBytes + PageBytes
               /\ (\E k : Reaches(View(w, T), root, first, k)) => x.pt <= w.pt + PageBytes
               /\ Reaches(View(w, T), root, first, Index(v, 2)) => x.pt = w.pt

StepsDown(w, y, T, root, first, lo, v, phys, prot) ==
    \E x : /\ y = IF x.ok THEN SetPage(x, Index(v, 3), phys, prot) ELSE x
           /\ AtPages(w, x, T, root, first, lo, v)

(* That is the way of MapPage(). *)
LEMMA MapPageSteps ==
    ASSUME NEW w, IsWalk(w), w.ok, NEW T, NEW root, NEW first \in Pages, NEW lo, Below(T, lo), NEW kn,
           WalkOK(w, T, root, first, lo), NEW v \in Pages,
           Index(v, 0) = Index(first, 0), Index(v, 1) = Index(first, 1), NEW phys, NEW prot
    PROVE  StepsDown(w, MapPage(w, T, kn, root, v, phys, prot), T, root, first, lo, v, phys, prot)
  <1> DEFINE i0 == Index(v, 0)
             i1 == Index(v, 1)
             i2 == Index(v, 2)
             x0 == [w EXCEPT !.at = root]
             x1 == GetPageTable(x0, T, kn, i0)
             x2 == IF x1.ok THEN GetPageTable(x1, T, kn, i1) ELSE x1
             x == IF x2.ok THEN GetPageTable(x2, T, kn, i2) ELSE x2
  <1>1. MapPage(w, T, kn, root, v, phys, prot) = IF x.ok THEN SetPage(x, Index(v, 3), phys, prot) ELSE x
    <2>1. x0.ok
      BY MoveCases
    <2> QED
      BY <2>1, Zenon DEF MapPage
  <1>2. i0 \in Entries /\ i1 \in Entries /\ i2 \in Entries
    BY Indices, Zenon
  <1>3. i0 = Index(first, 0) /\ i1 = Index(first, 1)
    BY Zenon
  <1> DEFINE F == View(w, T)
             F1 == View(x1, T)
             F2 == View(x2, T)
             G == View(x, T)
  <1> HIDE DEF i0, i1, i2, x0
  <1>4. /\ IsWalk(x0) /\ x0.m = w.m /\ x0.n = w.n /\ x0.v = w.v /\ x0.ok /\ x0.at = root
        /\ x0.pt = w.pt /\ WalkOK(x0, T, root, first, lo) /\ x0.at \in DOMAIN x0.up /\ View(x0, T) = F
    <2>1. /\ IsWalk(x0) /\ x0.m = w.m /\ x0.n = w.n /\ x0.v = w.v /\ x0.ok = w.ok /\ x0.old = w.old
          /\ x0.at = root /\ x0.pt = w.pt /\ x0.up = w.up
      BY MoveCases, Zenon DEF x0
    <2>2. View(x0, T) = F
      BY <2>1, Zenon DEF View
    <2> QED
      BY <2>1, <2>2, Zenon DEF WalkOK
  <1>5. OnTheWay(F, root, first, root, i0)
    BY <1>3, Zenon DEF OnTheWay
  <1>6. /\ IsWalk(x1) /\ x1.m = w.m /\ x1.n = w.n /\ x1.v = w.v
        /\ x1.ok => /\ WalkOK(x1, T, root, first, lo) /\ x1.at \in DOMAIN x1.up
                    /\ Link(F1, root, i0, x1.at)
                    /\ Keeps(x0, x1, T, root)
                    /\ x1.pt = w.pt \/ x1.pt = w.pt + PageBytes
                    /\ \A b : Link(F, root, i0, b) => x1.pt = w.pt
    <2>1. OnTheWay(View(x0, T), root, first, x0.at, i0)
      BY <1>4, <1>5, Zenon
    <2> QED
      <3>1. GoesDown(x0, x1, T, root, first, lo, i0)
        BY <1>2, <1>4, <2>1, GetTable, Zenon
      <3> HIDE DEF x1
      <3> QED
        BY <1>4, <3>1, Zenon DEF GoesDown, SamePlace
  <1> HIDE DEF x1
  <1>7. /\ IsWalk(x2) /\ x2.m = w.m /\ x2.n = w.n /\ x2.v = w.v
        /\ x2.ok => /\ x1.ok /\ WalkOK(x2, T, root, first, lo) /\ x2.at \in DOMAIN x2.up
                    /\ Link(F2, x1.at, i1, x2.at)
                    /\ Keeps(x1, x2, T, root)
                    /\ x2.pt = x1.pt \/ x2.pt = x1.pt + PageBytes
                    /\ \A b : Link(F1, x1.at, i1, b) => x2.pt = x1.pt
    <2>1. CASE x1.ok
      <3>1. OnTheWay(F1, root, first, x1.at, i1)
        BY <1>3, <1>6, <2>1, Zenon DEF OnTheWay
      <3>2. x2 = GetPageTable(x1, T, kn, i1)
        BY <2>1, Zenon
      <3> HIDE DEF x2
      <3> QED
        <4>1. GoesDown(x1, x2, T, root, first, lo, i1)
          BY <1>2, <1>6, <2>1, <3>1, <3>2, GetTable, Zenon
        <4> QED
          BY <1>6, <1>6, <2>1, <4>1, Zenon DEF GoesDown, SamePlace
    <2>2. CASE ~x1.ok
      BY <1>6, <2>2, Zenon
    <2> QED
      BY <2>1, <2>2, Zenon
  <1> HIDE DEF x2
  <1>8. x2.ok => Link(F2, root, i0, x1.at)
    BY <1>6, <1>7, Zenon DEF Keeps
  <1>9. /\ IsWalk(x) /\ x.m = w.m /\ x.n = w.n /\ x.v = w.v
        /\ x.ok => /\ x2.ok /\ WalkOK(x, T, root, first, lo) /\ x.at \in DOMAIN x.up
                   /\ Link(G, x2.at, i2, x.at)
                   /\ Keeps(x2, x, T, root)
                   /\ x.pt = x2.pt \/ x.pt = x2.pt + PageBytes
                   /\ \A b : Link(F2, x2.at, i2, b) => x.pt = x2.pt
    <2>1. CASE x2.ok
      <3>1. WellFormed(F2, root)
        BY <1>7, <2>1, Zenon DEF WalkOK
      <3>2. x1.at \in DOMAIN F2
        BY <1>8, <2>1, <3>1, LinkedIsThere, Zenon
      <3>3. OnTheWay(F2, root, first, x2.at, i2)
        BY <1>3, <1>7, <1>8, <2>1, <3>2, Zenon DEF OnTheWay
      <3>4. x = GetPageTable(x2, T, kn, i2)
        BY <2>1, Zenon
      <3> HIDE DEF x
      <3> QED
        <4>1. GoesDown(x2, x, T, root, first, lo, i2)
          BY <1>2, <1>7, <2>1, <3>3, <3>4, GetTable, Zenon
        <4> QED
          BY <1>6, <1>7, <2>1, <4>1, Zenon DEF GoesDown, SamePlace
    <2>2. CASE ~x2.ok
      BY <1>7, <2>2, Zenon
    <2> QED
      BY <2>1, <2>2, Zenon
  <1> HIDE DEF x
  <1>10. ASSUME x.ok
         PROVE  /\ Keeps(w, x, T, root)
                /\ \E a, b : Path(G, root, first, i2, a, b, x.at)
                /\ x.pt \in w.pt .. w.pt + PageBytes + PageBytes + PageBytes
                /\ (\E k : Reaches(F, root, first, k)) => x.pt <= w.pt + PageBytes
                /\ Reaches(F, root, first, i2) => x.pt = w.pt
    <2>0. x2.ok /\ x1.ok
      BY <1>7, <1>9, <1>10, Zenon
    <2>1. Keeps(w, x, T, root)
      BY <1>4, <1>6, <1>7, <1>9, <1>10, <2>0, Zenon DEF Keeps
    <2>2. Path(G, root, first, i2, x1.at, x2.at, x.at)
      BY <1>3, <1>7, <1>8, <1>9, <1>10, <2>0, Zenon DEF Keeps, Path
    <2>3. w.pt \in Nat /\ PageBytes \in Nat
      BY PageBytesAssumption, Zenon DEF WalkOK
    <2>4. x.pt \in w.pt .. w.pt + PageBytes + PageBytes + PageBytes
      BY <1>6, <1>7, <1>9, <1>10, <2>0, <2>3
    <2>5. ASSUME NEW k, NEW a, NEW b, NEW c, Path(F, root, first, k, a, b, c)
          PROVE  x2.pt = w.pt /\ (k = i2 => x.pt = w.pt)
      <3>1. Link(F, root, i0, a) /\ Link(F, a, i1, b) /\ Link(F, b, k, c)
        BY <1>3, <2>5, Zenon DEF Path
      <3>2. Link(F1, root, i0, a) /\ Link(F1, a, i1, b) /\ Link(F1, b, k, c)
        BY <1>4, <1>6, <2>0, <3>1, Zenon DEF Keeps
      <3>3. a = x1.at
        BY <1>6, <2>0, <3>2, LinkIsUnique, Zenon
      <3>4. Link(F2, a, i1, b) /\ Link(F2, b, k, c)
        BY <1>7, <2>0, <3>2, Zenon DEF Keeps
      <3>5. b = x2.at
        BY <1>7, <2>0, <3>3, <3>4, LinkIsUnique, Zenon
      <3> QED
        BY <1>6, <1>7, <1>9, <1>10, <2>0, <3>1, <3>2, <3>3, <3>4, <3>5, Zenon
    <2>6. (\E k : Reaches(F, root, first, k)) => x2.pt = w.pt
      BY <2>5, Zenon DEF Reaches
    <2>7. x2.pt = w.pt => x.pt <= w.pt + PageBytes
      BY <1>9, <1>10, <2>3
    <2>8. Reaches(F, root, first, i2) => x.pt = w.pt
      BY <2>5, Zenon DEF Reaches
    <2> QED
      BY <2>1, <2>2, <2>4, <2>6, <2>7, <2>8, Zenon
  <1>11. AtPages(w, x, T, root, first, lo, v)
    BY <1>9, <1>10, Zenon DEF i2, AtPages
  <1> QED
    BY <1>1, <1>11, Zenon DEF StepsDown

(* A page that was not mapped is mapped, and nothing else changes. *)
MapsPage(w, y, T, root, first, lo, v, phys, prot) ==
    /\ IsWalk(y) /\ y.m = w.m /\ y.n = w.n /\ y.v = w.v
    /\ y.ok => /\ WalkOK(y, T, root, first, lo)
               /\ Translate(View(w, T), root, v) = Unmapped
               /\ Translate(View(y, T), root, v) = [to |-> phys, prot |-> prot]
               /\ \A u \in Pages : u # v => Translate(View(y, T), root, u) = Translate(View(w, T), root, u)
               /\ Reaches(View(y, T), root, first, Index(v, 2))
               /\ y.pt \in w.pt .. w.pt + PageBytes + PageBytes + PageBytes
               /\ (\E k : Reaches(View(w, T), root, first, k)) => y.pt <= w.pt + PageBytes
               /\ Reaches(View(w, T), root, first, Index(v, 2)) => y.pt = w.pt

(* So does map_memory() with the next page, or it fails. *)
LEMMA MapsOnePage ==
    ASSUME NEW w, IsWalk(w), w.ok, NEW T, NEW root, NEW first \in Pages, NEW lo, Below(T, lo), NEW kn,
           WalkOK(w, T, root, first, lo), NEW v \in Pages,
           Index(v, 0) = Index(first, 0), Index(v, 1) = Index(first, 1),
           NEW phys \in Nat, NEW prot \in Prots \cup {"-"}
    PROVE  MapsPage(w, MapPage(w, T, kn, root, v, phys, prot), T, root, first, lo, v, phys, prot)
  <1> DEFINE y == MapPage(w, T, kn, root, v, phys, prot)
             i2 == Index(v, 2)
             i3 == Index(v, 3)
             F == View(w, T)
             G == View(y, T)
  <1> SUFFICES MapsPage(w, y, T, root, first, lo, v, phys, prot)
    BY Zenon DEF y
  <1> HIDE DEF y
  <1> SUFFICES /\ IsWalk(y) /\ y.m = w.m /\ y.n = w.n /\ y.v = w.v
               /\ y.ok => /\ WalkOK(y, T, root, first, lo)
                          /\ Translate(F, root, v) = Unmapped
                          /\ Translate(G, root, v) = [to |-> phys, prot |-> prot]
                          /\ \A u \in Pages : u # v => Translate(G, root, u) = Translate(F, root, u)
                          /\ Reaches(G, root, first, Index(v, 2))
                          /\ y.pt \in w.pt .. w.pt + PageBytes + PageBytes + PageBytes
                          /\ (\E k : Reaches(F, root, first, k)) => y.pt <= w.pt + PageBytes
                          /\ Reaches(F, root, first, Index(v, 2)) => y.pt = w.pt
    BY Zenon DEF MapsPage
  <1> USE DEF y
  <1>10. StepsDown(w, y, T, root, first, lo, v, phys, prot)
    BY MapPageSteps, Zenon
  <1>0. PICK x : /\ y = IF x.ok THEN SetPage(x, i3, phys, prot) ELSE x
                 /\ AtPages(w, x, T, root, first, lo, v)
    BY <1>10, Zenon DEF StepsDown
  <1>1. /\ IsWalk(x) /\ x.m = w.m /\ x.n = w.n /\ x.v = w.v
        /\ y = IF x.ok THEN SetPage(x, i3, phys, prot) ELSE x
        /\ x.ok => /\ WalkOK(x, T, root, first, lo) /\ x.at \in DOMAIN x.up
                   /\ Keeps(w, x, T, root)
                   /\ \E a, b : Path(View(x, T), root, first, i2, a, b, x.at)
                   /\ x.pt \in w.pt .. w.pt + PageBytes + PageBytes + PageBytes
                   /\ (\E k : Reaches(F, root, first, k)) => x.pt <= w.pt + PageBytes
                   /\ Reaches(F, root, first, i2) => x.pt = w.pt
    BY <1>0, Zenon DEF AtPages
  <1> DEFINE H == View(x, T)
             e == Entry("page", phys, prot)
  <1>2. i3 \in Entries /\ i2 \in Entries
    BY Indices, Zenon
  <1> HIDE DEF y
  <1>3. CASE ~x.ok
    BY <1>1, <1>3, Zenon DEF y
  <1>4. CASE x.ok
    <2>1. y = SetPage(x, i3, phys, prot)
      BY <1>1, <1>4, Zenon
    <2>2. /\ IsWalk(y) /\ y.m = x.m /\ y.n = x.n /\ y.v = x.v
          /\ y.ok => /\ y.pt = x.pt /\ y.old = x.old /\ x.up[x.at][i3].kind = "none"
                     /\ y.up = [x.up EXCEPT ![x.at][i3] = e]
      <3>1. SetsPage(x, y, i3, e)
        BY <1>1, <2>1, SetCases, Zenon
      <3> QED
        BY <3>1, Zenon DEF SetsPage, SamePlace
    <2>3. CASE ~y.ok
      BY <1>1, <2>2, <2>3, Zenon DEF y
    <2>4. CASE y.ok
      <3>1. /\ WalkOK(x, T, root, first, lo) /\ x.at \in DOMAIN x.up /\ Keeps(w, x, T, root)
            /\ WellFormed(H, root) /\ TablesPrivate(H, root, first)
        BY <1>1, <1>4, Zenon DEF WalkOK
      <3>2. PICK a, b : Path(H, root, first, i2, a, b, x.at)
        BY <1>1, <1>4, Zenon
      <3>3. x.up \in [DOMAIN x.up -> Tables]
        BY <3>1, Zenon DEF WalkOK
      <3>4. e \in [kind : Kinds, to : Nat, prot : Prots \cup {"-"}] /\ e.kind = "page"
        <4>1. "page" \in Kinds
          BY Typed, Zenon
        <4> QED
          BY <4>1, EntryIsTyped, EntryFields
      <3> HIDE DEF e
      <3>5. /\ DOMAIN y.up = DOMAIN x.up
            /\ y.up \in [DOMAIN x.up -> Tables]
            /\ y.up[x.at][i3] = e
            /\ \A c \in DOMAIN x.up, j \in Entries : c # x.at \/ j # i3 => y.up[c][j] = x.up[c][j]
        <4>1. Updated(x.up, y.up, x.at, i3, e)
          <5>1. Updated(x.up, [x.up EXCEPT ![x.at][i3] = e], x.at, i3, e)
            BY <1>2, <3>1, <3>3, <3>4, Update, Zenon
          <5> QED
            BY <2>2, <2>4, <5>1, Zenon
        <4> QED
          BY <4>1, Zenon DEF Updated
      <3>6. /\ DOMAIN H = DOMAIN x.up \cup DOMAIN T
            /\ \A c \in DOMAIN x.up : H[c] = x.up[c]
            /\ \A c \in DOMAIN T : c \notin DOMAIN x.up => H[c] = T[c]
        <4>1. IsOver(H, x.up, T)
          BY OverIs, Zenon DEF View
        <4> HIDE DEF H
        <4> QED
          BY <4>1, Zenon DEF IsOver
      <3>7. /\ DOMAIN G = DOMAIN H
            /\ \A c \in DOMAIN x.up : G[c] = y.up[c]
            /\ \A c \in DOMAIN T : c \notin DOMAIN x.up => G[c] = T[c]
            /\ \A R : (\A c \in DOMAIN G : G[c] \in R) => G \in [DOMAIN G -> R]
        <4>1. IsOver(G, y.up, T)
          BY OverIs, Zenon DEF View
        <4> HIDE DEF G, H
        <4> QED
          BY <3>5, <3>6, <4>1, Zenon DEF IsOver
      <3>8. Sets(H, G, x.at, i3, e)
        <4>1. \A c \in DOMAIN G : G[c] \in Tables
          BY <3>5, <3>6, <3>7, Zenon DEF Below
        <4>2. G \in [DOMAIN H -> Tables]
          BY <3>7, <4>1, Zenon
        <4>3. \A c \in DOMAIN H, j \in Entries : c # x.at \/ j # i3 => G[c][j] = H[c][j]
          BY <3>5, <3>6, <3>7
        <4> QED
          BY <1>2, <2>2, <2>4, <3>1, <3>4, <3>5, <3>6, <3>7, <4>2, <4>3, Zenon DEF Sets
      <3>9. WellFormed(G, root) /\ TablesPrivate(G, root, first)
        BY <3>1, <3>2, <3>8, SetWellFormed, SetPrivate, Zenon
      <3>10. WalkOK(y, T, root, first, lo)
        BY <2>2, <2>4, <3>1, <3>5, <3>9, Zenon DEF WalkOK
      <3>11. \A c, j, d : Link(G, c, j, d) <=> Link(H, c, j, d)
        BY <3>8, SetLinks, Zenon
      <3>12. /\ Translate(H, root, v) = Unmapped
             /\ Translate(G, root, v) = [to |-> phys, prot |-> prot]
        BY <3>2, <3>8, SetTranslate DEF e
      <3>13. \A u \in Pages : u # v => Translate(G, root, u) = Translate(H, root, u)
        <4>1. SetsOnPath(H, G, root, first, v, x.at, e)
          BY <3>1, <3>2, <3>8, Zenon DEF SetsOnPath
        <4> HIDE DEF G, H
        <4> QED
          BY <4>1, SetTranslateOthers
      <3>14. \A u \in Pages : Translate(H, root, u) = Translate(F, root, u)
        BY <3>1, Zenon DEF Keeps
      <3>16. Reaches(G, root, first, i2)
        BY <3>2, <3>11 DEF Reaches, Path
      <3> QED
        BY <1>1, <1>4, <2>2, <2>4, <3>10, <3>12, <3>13, <3>14, <3>16, Zenon DEF y
    <2> QED
      BY <2>3, <2>4, Zenon
  <1> QED
    BY <1>3, <1>4, Zenon

-----------------------------------------------------------------------------
(* Sums of lengths                                                         *)

(* A set of numbers has a least one. *)
LEMMA Least ==
    ASSUME NEW S, S \subseteq Nat, S # {}
    PROVE  \E x \in S : \A y \in S : x <= y
  <1> DEFINE R == OpToRel(<, Nat)
  <1>1. IsWellFoundedOn(R, Nat)
    BY NatLessThanWellFounded, Zenon
  <1>2. \A x, y \in Nat : <<y, x>> \in R <=> y < x
    BY DEF OpToRel
  <1> HIDE DEF R
  <1>3. PICK x \in S : \A y \in S : ~(<<y, x>> \in R)
    BY <1>1, WFMin, Zenon
  <1>4. x \in Nat
    BY Zenon
  <1>5. ASSUME NEW y \in S
        PROVE  x <= y
    <2>1. y \in Nat
      BY Zenon
    <2>2. ~(y < x)
      BY <1>2, <1>3, <1>4, <2>1, Zenon
    <2> QED
      BY <1>4, <2>1, <2>2
  <1> QED
    BY <1>5, Zenon

(* Induction, for the numbers from 1 to n. *)
LEMMA UpTo ==
    ASSUME NEW n \in Nat, NEW S, 1 \in S, \A i \in 1 .. n : i > 1 /\ i - 1 \in S => i \in S
    PROVE  1 .. n \subseteq S
  <1> SUFFICES ASSUME (1 .. n) \ S # {} PROVE FALSE
    BY Zenon
  <1>1. (1 .. n) \ S \subseteq Nat
    OBVIOUS
  <1>2. PICK x \in (1 .. n) \ S : \A y \in (1 .. n) \ S : x <= y
    BY <1>1, Least, Zenon
  <1>3. x \in 1 .. n /\ x # 1 /\ x \notin S
    BY <1>2, Zenon
  <1>4. x > 1 /\ x - 1 \in 1 .. n /\ ~(x <= x - 1)
    BY <1>3
  <1>5. x - 1 \in S
    BY <1>2, <1>4, Zenon
  <1> QED
    BY <1>3, <1>4, <1>5, Zenon

(* sum is the sums of the first lengths of a. *)
IsSum(sum, a) ==
    sum = [i \in 0 .. Len(a) |-> IF i = 0 THEN 0 ELSE sum[i - 1] + a[i].len]

(* The same up to the length n. *)
SumUpTo(sum, a, n) ==
    sum = [i \in 0 .. n |-> IF i = 0 THEN 0 ELSE sum[i - 1] + a[i].len]

(* One length more can be added. *)
LEMMA SumStep ==
    ASSUME NEW a, NEW n \in Nat, n > 0, NEW f, SumUpTo(f, a, n - 1)
    PROVE  \E g : SumUpTo(g, a, n)
  <1> DEFINE g == [i \in 0 .. n |-> IF i \in 0 .. n - 1 THEN f[i] ELSE f[n - 1] + a[n].len]
             h == [i \in 0 .. n |-> IF i = 0 THEN 0 ELSE g[i - 1] + a[i].len]
  <1>1. ASSUME NEW i \in 0 .. n
        PROVE  g[i] = h[i]
    <2>1. CASE i = 0
      <3>1. f[0] = 0
        BY DEF SumUpTo
      <3> QED
        BY <2>1, <3>1
    <2>2. CASE i \in 1 .. n - 1
      <3>1. i \in 0 .. n - 1 /\ i - 1 \in 0 .. n - 1 /\ i # 0
        BY <2>2
      <3>2. f[i] = f[i - 1] + a[i].len
        BY <3>1 DEF SumUpTo
      <3>3. g[i] = f[i] /\ g[i - 1] = f[i - 1]
        BY <3>1
      <3> QED
        BY <3>1, <3>2, <3>3
    <2>3. CASE i = n
      <3>1. n - 1 \in 0 .. n - 1 /\ n \notin 0 .. n - 1 /\ n # 0 /\ n \in 0 .. n /\ n - 1 \in 0 .. n
        OBVIOUS
      <3>2. g[n] = f[n - 1] + a[n].len /\ g[n - 1] = f[n - 1]
        BY <3>1
      <3> QED
        BY <2>3, <3>1, <3>2
    <2> QED
      BY <2>1, <2>2, <2>3
  <1>2. g = h
    BY <1>1
  <1>3. SumUpTo(g, a, n)
    BY <1>2, Zenon DEF SumUpTo
  <1> QED
    BY <1>3, Zenon

(* There are such sums. *)
LEMMA SumExists ==
    ASSUME NEW a, NEW n \in Nat
    PROVE  \E f : SumUpTo(f, a, n)
  <1> DEFINE B == {k \in Nat : ~ \E f : SumUpTo(f, a, k)}
  <1> SUFFICES ASSUME B # {} PROVE FALSE
    BY Zenon
  <1>1. PICK k \in B : \A j \in B : k <= j
    BY Least, Zenon
  <1>2. k \in Nat /\ ~ \E f : SumUpTo(f, a, k)
    BY <1>1, Zenon
  <1> HIDE DEF B
  <1>3. CASE k = 0
    <2> DEFINE f == [i \in 0 .. 0 |-> 0]
    <2>1. f = [i \in 0 .. 0 |-> IF i = 0 THEN 0 ELSE f[i - 1] + a[i].len]
      OBVIOUS
    <2>2. SumUpTo(f, a, 0)
      BY <2>1, Zenon DEF SumUpTo
    <2> QED
      BY <1>2, <1>3, <2>2, Zenon
  <1>4. CASE k > 0
    <2>1. k - 1 \in Nat /\ ~(k <= k - 1)
      BY <1>2, <1>4
    <2>2. k - 1 \notin B
      BY <1>1, <2>1, Zenon
    <2>3. PICK f : SumUpTo(f, a, k - 1)
      BY <2>1, <2>2, Zenon DEF B
    <2> QED
      BY <1>2, <1>4, <2>3, SumStep, Zenon
  <1> QED
    BY <1>2, <1>3, <1>4
-----------------------------------------------------------------------------
(* The mappings                                                            *)

(* The pages of a mapping, the page after the last one, and whether page u *)
(* is of the mapping i.                                                    *)
PagesIn(m) == m.len \div PageBytes

End(M) == M[Len(M)].virt + PagesIn(M[Len(M)])

HasPage(M, i, u) == u \in M[i].virt .. M[i].virt + PagesIn(M[i]) - 1

(* Segments that follow each other without a gap. *)
Adjacent(M) ==
    /\ Len(M) \in Nat /\ Len(M) > 0
    /\ \A i \in 1 .. Len(M) : /\ M[i].virt \in Nat /\ M[i].len \in Nat
                              /\ M[i].len > 0 /\ M[i].len % PageBytes = 0
    /\ \A i \in 2 .. Len(M) : M[i].virt = M[i - 1].virt + M[i - 1].len \div PageBytes

(* A length that is a multiple of the page size is a number of pages. *)
LEMMA WholePages ==
    ASSUME NEW n \in Nat, n > 0, n % PageBytes = 0
    PROVE  n \div PageBytes \in Nat /\ n \div PageBytes > 0 /\ n = (n \div PageBytes) * PageBytes
  <1> DEFINE q == n \div PageBytes
  <1>1. q \in Nat /\ n = q * PageBytes + (n % PageBytes)
    BY PageBytesAssumption, Division
  <1> HIDE DEF q
  <1>2. q * PageBytes \in Nat
    BY <1>1, PageBytesAssumption, Products
  <1>3. n = q * PageBytes
    BY <1>1, <1>2
  <1>4. q # 0
    BY <1>1, <1>3, PageBytesAssumption
  <1> QED
    BY <1>1, <1>3, <1>4 DEF q

(* So are the lengths of segments. *)
LEMMA AdjacentPages ==
    ASSUME NEW M, Adjacent(M)
    PROVE  /\ \A i \in 1 .. Len(M) : /\ M[i].virt \in Nat /\ PagesIn(M[i]) \in Nat /\ PagesIn(M[i]) > 0
                                     /\ M[i].len = PagesIn(M[i]) * PageBytes
           /\ \A i \in 2 .. Len(M) : M[i].virt = M[i - 1].virt + PagesIn(M[i - 1])
  <1>1. ASSUME NEW i \in 1 .. Len(M)
        PROVE  /\ M[i].virt \in Nat /\ PagesIn(M[i]) \in Nat /\ PagesIn(M[i]) > 0
               /\ M[i].len = PagesIn(M[i]) * PageBytes
    <2>1. M[i].virt \in Nat /\ M[i].len \in Nat /\ M[i].len > 0 /\ M[i].len % PageBytes = 0
      BY Zenon DEF Adjacent
    <2> QED
      BY <2>1, WholePages, Zenon DEF PagesIn
  <1> QED
    BY <1>1, Zenon DEF Adjacent, PagesIn

(* They are in order. *)
LEMMA AdjacentOrder ==
    ASSUME NEW M, Adjacent(M)
    PROVE  /\ \A i, j \in 1 .. Len(M) : i < j => M[i].virt + PagesIn(M[i]) <= M[j].virt
           /\ \A i \in 1 .. Len(M) : M[1].virt <= M[i].virt /\ M[i].virt + PagesIn(M[i]) <= End(M)
  <1> DEFINE n == Len(M)
             V(i) == M[i].virt
             P(i) == PagesIn(M[i])
  <1>1. n \in Nat /\ n > 0
    BY Zenon DEF Adjacent
  <1>2. \A i \in 1 .. n : V(i) \in Nat /\ P(i) \in Nat /\ P(i) > 0
    BY AdjacentPages, Zenon
  <1>3. \A i \in 2 .. n : V(i) = V(i - 1) + P(i - 1)
    BY AdjacentPages, Zenon
  <1> HIDE DEF V, P, n
  <1> DEFINE S == {j \in 1 .. n : \A i \in 1 .. n : i < j => V(i) + P(i) <= V(j)}
  <1>4. 1 \in S
    BY <1>1
  <1>5. ASSUME NEW j \in 1 .. n, j > 1, j - 1 \in S
        PROVE  j \in S
    <2>1. j - 1 \in 1 .. n /\ j \in 2 .. n
      BY <1>1, <1>5
    <2>2. V(j) = V(j - 1) + P(j - 1) /\ V(j) \in Nat /\ V(j - 1) \in Nat /\ P(j - 1) \in Nat
      BY <1>2, <1>3, <2>1
    <2>3. ASSUME NEW i \in 1 .. n, i < j
          PROVE  V(i) + P(i) <= V(j)
      <3>1. CASE i = j - 1
        BY <2>2, <3>1
      <3>2. CASE i < j - 1
        <4>1. V(i) + P(i) <= V(j - 1)
          BY <1>5, <3>2
        <4>2. V(i) \in Nat /\ P(i) \in Nat
          BY <1>2
        <4> QED
          BY <2>2, <4>1, <4>2
      <3> QED
        BY <2>3, <3>1, <3>2
    <2> QED
      BY <2>3, Zenon
  <1>6. 1 .. n \subseteq S
    BY <1>1, <1>4, <1>5, UpTo, Zenon
  <1>7. ASSUME NEW i \in 1 .. n, NEW j \in 1 .. n, i < j
        PROVE  V(i) + P(i) <= V(j)
    BY <1>6, <1>7, Zenon
  <1>8. ASSUME NEW i \in 1 .. n
        PROVE  V(1) <= V(i) /\ V(i) + P(i) <= V(n) + P(n)
    <2>1. 1 \in 1 .. n /\ n \in 1 .. n
      BY <1>1
    <2>2. /\ V(1) \in Nat /\ P(1) \in Nat /\ V(i) \in Nat /\ P(i) \in Nat /\ V(n) \in Nat /\ P(n) \in Nat
      BY <1>2, <2>1
    <2>3. i = 1 \/ V(1) + P(1) <= V(i)
      BY <1>7, <2>1
    <2>4. i = n \/ V(i) + P(i) <= V(n)
      BY <1>7, <2>1
    <2> QED
      BY <2>2, <2>3, <2>4
  <1> QED
    BY <1>7, <1>8, Zenon DEF V, P, n, End

(* The sums of their lengths tell how far a segment is from the first. *)
LEMMA AdjacentSums ==
    ASSUME NEW M, Adjacent(M), NEW sum, IsSum(sum, M)
    PROVE  /\ sum[0] = 0
           /\ \A i \in 1 .. Len(M) : sum[i] = (M[i].virt + PagesIn(M[i]) - M[1].virt) * PageBytes
           /\ \A i \in 1 .. Len(M) : sum[i - 1] = (M[i].virt - M[1].virt) * PageBytes
  <1> DEFINE n == Len(M)
             V(i) == M[i].virt
             P(i) == PagesIn(M[i])
             L(i) == M[i].len
             B == PageBytes
             S == {i \in 1 .. n : sum[i] = (V(i) + P(i) - V(1)) * B}
  <1>1. n \in Nat /\ n > 0 /\ B \in Nat /\ 1 \in 1 .. n
    BY PageBytesAssumption DEF Adjacent
  <1>2. \A i \in 1 .. n : V(i) \in Nat /\ P(i) \in Nat /\ L(i) = P(i) * B
    BY AdjacentPages, Zenon
  <1>3. \A i \in 2 .. n : V(i) = V(i - 1) + P(i - 1)
    BY AdjacentPages, Zenon
  <1>4. \A i \in 1 .. n : V(1) <= V(i)
    BY AdjacentOrder, Zenon
  <1>5. sum = [i \in 0 .. n |-> IF i = 0 THEN 0 ELSE sum[i - 1] + L(i)]
    BY Zenon DEF IsSum
  <1> HIDE DEF V, P, L, n, B
  <1>6. sum[0] = 0 /\ \A i \in 1 .. n : sum[i] = sum[i - 1] + L(i)
    BY <1>1, <1>5
  <1>7. 1 \in S
    <2>1. sum[1] = 0 + L(1)
      BY <1>1, <1>6
    <2>2. V(1) + P(1) - V(1) = P(1) /\ L(1) \in Nat
      BY <1>1, <1>2
    <2> QED
      BY <1>1, <1>2, <2>1, <2>2
  <1>8. ASSUME NEW i \in 1 .. n, i > 1, i - 1 \in S
        PROVE  /\ i \in S
               /\ sum[i - 1] = (V(i) - V(1)) * B
    <2>1. i - 1 \in 1 .. n /\ i \in 2 .. n
      BY <1>1, <1>8
    <2>2. sum[i - 1] = (V(i - 1) + P(i - 1) - V(1)) * B
      BY <1>8, Zenon
    <2>3. V(i) = V(i - 1) + P(i - 1)
      BY <1>3, <2>1, Zenon
    <2>4. sum[i - 1] = (V(i) - V(1)) * B
      <3> DEFINE y == V(i - 1) + P(i - 1) - V(1)
                 z == V(i) - V(1)
      <3>1. y = z
        BY <1>1, <1>2, <2>1, <2>3
      <3> HIDE DEF y, z
      <3>2. sum[i - 1] = z * B
        BY <2>2, <3>1, Zenon DEF y
      <3> QED
        BY <3>2, Zenon DEF z
    <2>5. sum[i] = (V(i) - V(1)) * B + P(i) * B
      BY <1>2, <1>6, <2>4, Zenon
    <2> DEFINE d == V(i) - V(1)
    <2>6. d \in Nat /\ P(i) \in Nat
      BY <1>1, <1>2, <1>4
    <2>7. V(i) + P(i) - V(1) = d + P(i)
      BY <1>1, <1>2
    <2> HIDE DEF d
    <2>8. (d + P(i)) * B = d * B + P(i) * B
      BY <1>1, <2>6
    <2>9. sum[i] = (V(i) + P(i) - V(1)) * B
      BY <2>5, <2>7, <2>8, Zenon DEF d
    <2> QED
      BY <2>4, <2>9, Zenon
  <1>9. 1 .. n \subseteq S
    BY <1>1, <1>7, <1>8, UpTo, Zenon
  <1>10. ASSUME NEW i \in 1 .. n
         PROVE  sum[i - 1] = (V(i) - V(1)) * B
    <2>1. CASE i = 1
      <3>1. V(1) - V(1) = 0 /\ i - 1 = 0 /\ 0 * B = 0
        BY <1>1, <1>2, <2>1
      <3> QED
        BY <1>6, <2>1, <3>1, Zenon
    <2>2. CASE i > 1
      <3>1. i - 1 \in 1 .. n
        BY <1>1, <2>2
      <3> QED
        BY <1>8, <1>9, <2>2, <3>1, Zenon
    <2> QED
      BY <2>1, <2>2
  <1> QED
    BY <1>6, <1>9, <1>10, Zenon DEF V, P, n, B

-----------------------------------------------------------------------------
(* The tables that the mappings need                                       *)

(* Page tables for the pages from a to b. *)
Rows(a, b) == b \div EntryCount - a \div EntryCount + 1

(* The tables for n entries have room for them. *)
LEMMA TablesForIs ==
    ASSUME NEW n \in Nat, n > 0
    PROVE  TablesFor(n) \in Nat /\ TablesFor(n) > 0 /\ n <= TablesFor(n) * EntryCount
  <1> DEFINE E == EntryCount
             x == n + E - 1
             q == x \div E
  <1>1. E \in Nat /\ E > 1
    BY EntryAssumption
  <1> HIDE DEF E
  <1>2. x \in Nat /\ x >= E
    BY <1>1
  <1> HIDE DEF x
  <1>3. q \in Nat /\ x % E \in 0 .. E - 1 /\ x = q * E + (x % E)
    BY <1>1, <1>2, Division
  <1>4. TablesFor(n) = q
    BY Zenon DEF TablesFor, x, E
  <1> HIDE DEF q
  <1>5. q * E \in Nat
    BY <1>1, <1>3, Products
  <1>6. q * E > x - E
    BY <1>1, <1>2, <1>3, <1>5
  <1>7. n <= q * E
    BY <1>1, <1>5, <1>6 DEF x
  <1>8. q # 0
    BY <1>1, <1>7
  <1> QED
    BY <1>3, <1>4, <1>7, <1>8 DEF E

(* Pages in a row that do not start with a table need one table more at    *)
(* most.                                                                   *)
LEMMA RowsFit ==
    ASSUME NEW a \in Nat, NEW n \in Nat, n > 0
    PROVE  Rows(a, a + n - 1) <= TablesFor(n) + 1
  <1> DEFINE E == EntryCount
             b == a + n - 1
             q == a \div E
             p == b \div E
             t == TablesFor(n)
  <1>1. E \in Nat /\ E > 0
    BY EntryAssumption
  <1>2. t \in Nat /\ n <= t * E
    BY TablesForIs, Zenon
  <1>3. b \in Nat
    OBVIOUS
  <1> HIDE DEF E, t, b
  <1>4. q \in Nat /\ a % E \in 0 .. E - 1 /\ a = q * E + (a % E)
    BY <1>1, Division
  <1>5. p \in Nat /\ b % E \in 0 .. E - 1 /\ b = p * E + (b % E)
    BY <1>1, <1>3, Division
  <1>6. Rows(a, b) = p - q + 1
    BY Zenon DEF Rows, E
  <1> HIDE DEF p, q
  <1>7. (q + t + 1) * E = q * E + t * E + E /\ q * E \in Nat /\ t * E \in Nat /\ p * E \in Nat
    BY <1>1, <1>2, <1>4, <1>5
  <1>8. b < (q + t + 1) * E
    BY <1>1, <1>2, <1>3, <1>4, <1>7 DEF b
  <1>9. p <= q + t
    <2>1. SUFFICES ASSUME p >= q + t + 1 PROVE FALSE
      BY <1>2, <1>4, <1>5
    <2>2. p * E >= (q + t + 1) * E
      BY <1>1, <1>2, <1>4, <1>5, <2>1
    <2> DEFINE pe == p * E
               qe == (q + t + 1) * E
    <2>3. pe \in Nat /\ qe \in Nat /\ pe >= qe /\ b < qe /\ b = pe + (b % E)
      BY <1>1, <1>2, <1>4, <1>5, <1>7, <1>8, <2>2
    <2> HIDE DEF pe, qe
    <2> QED
      BY <1>1, <1>3, <1>5, <2>3
  <1>10. p - q + 1 <= t + 1
    BY <1>2, <1>4, <1>5, <1>9
  <1> QED
    BY <1>6, <1>10, Zenon DEF b, t

(* estimate_page_table_size() leaves room for them and for two more. *)
LEMMA EstimateFits ==
    ASSUME NEW a \in Nat, NEW n \in Nat, n > 0
    PROVE  /\ EstimatePageTableSize(n * PageBytes) \in Nat
           /\ (2 + Rows(a, a + n - 1)) * PageBytes <= EstimatePageTableSize(n * PageBytes)
           /\ Rows(a, a + n - 1) \in Int
  <1> DEFINE B == PageBytes
             s == n * B
             t1 == TablesFor(n)
             t2 == TablesFor(t1)
             t3 == TablesFor(t2)
             t4 == TablesFor(t3)
             r == Rows(a, a + n - 1)
  <1>1. B \in Nat /\ B > 0
    BY PageBytesAssumption
  <1>2. s \div B = n
    <2>1. s \in Nat /\ s = n * B + 0 /\ 0 \in 0 .. B - 1
      BY <1>1, Products
    <2> HIDE DEF s, B
    <2> QED
      BY <1>1, <2>1, Quotient
  <1>3. EstimatePageTableSize(s) = (t1 + t2 + t3 + t4) * B
    BY <1>2, Zenon DEF EstimatePageTableSize
  <1>4. t1 \in Nat /\ t1 > 0
    BY TablesForIs, Zenon
  <1> HIDE DEF t1
  <1>5. t2 \in Nat /\ t2 > 0
    BY <1>4, TablesForIs, Zenon
  <1> HIDE DEF t2
  <1>6. t3 \in Nat /\ t3 > 0
    BY <1>5, TablesForIs, Zenon
  <1> HIDE DEF t3
  <1>7. t4 \in Nat /\ t4 > 0
    BY <1>6, TablesForIs, Zenon
  <1> HIDE DEF t4
  <1>8. r <= t1 + 1
    BY RowsFit, Zenon DEF t1
  <1>9. r \in Int
    BY EntryAssumption DEF Rows
  <1> HIDE DEF r, s
  <1> DEFINE x == 2 + r
             y == t1 + t2 + t3 + t4
  <1>10. x \in Int /\ y \in Nat /\ x <= y
    BY <1>4, <1>5, <1>6, <1>7, <1>8, <1>9
  <1> HIDE DEF x, y, B
  <1>11. x * B <= y * B /\ y * B \in Nat
    BY <1>1, <1>10
  <1> QED
    BY <1>3, <1>9, <1>11, Zenon DEF x, y, r, s, B
-----------------------------------------------------------------------------
(* The walk from its start to its end                                      *)

(* The mappings follow each other in virtual and in physical memory, below *)
(* what one entry of a level-1 table spans.                                *)
Laid(M, first) ==
    /\ Adjacent(M)
    /\ \A i \in 1 .. Len(M) : M[i].phys \in Nat /\ M[i].prot \in Prots
    /\ \A u \in M[1].virt .. End(M) :
          u \in Pages /\ Index(u, 0) = Index(first, 0) /\ Index(u, 1) = Index(first, 1)

(* What page u, of mapping i, is to be mapped to. *)
Goal(M, i, u) == [to |-> M[i].phys + (u - M[i].virt) * PageBytes, prot |-> M[i].prot]

(* The page that comes next. *)
Ahead(w, M) == IF w.m <= Len(M) THEN M[w.m].virt + w.n ELSE End(M)

(* The loops are at a page of a mapping, or through. *)
InPlace(w, M) ==
    /\ w.m \in 1 .. Len(M) + 1
    /\ w.m <= Len(M) => w.n \in 0 .. PagesIn(M[w.m]) - 1 /\ w.v = M[w.m].virt + w.n

(* The pages before it are mapped, which they were not before, and no      *)
(* other page is touched.                                                  *)
Mapped(w, T, root, M, d) ==
    /\ \A i \in 1 .. Len(M), u \in Pages : HasPage(M, i, u) /\ u < d =>
          Translate(T, root, u) = Unmapped /\ Translate(View(w, T), root, u) = Goal(M, i, u)
    /\ \A u \in Pages : (\A i \in 1 .. Len(M) : HasPage(M, i, u) => u >= d) =>
          Translate(View(w, T), root, u) = Translate(T, root, u)

(* The tables added are two and those for the pages so far. *)
Counted(w, T, root, first, a, d, lo) ==
    /\ d = a => w.pt = lo
    /\ d > a => /\ Reaches(View(w, T), root, first, Index(d - 1, 2))
                /\ w.pt <= lo + (2 + Rows(a, d - 1)) * PageBytes

(* While map_memory() is at work and has not failed. *)
WalkInv(w, T, root, first, M, lo) ==
    /\ IsWalk(w)
    /\ w.ok => /\ WalkOK(w, T, root, first, lo) /\ InPlace(w, M)
               /\ Mapped(w, T, root, M, Ahead(w, M))
               /\ Counted(w, T, root, first, M[1].virt, Ahead(w, M), lo)

(* Where the loops are there is a page to map, of this mapping and no      *)
(* other.                                                                  *)
LEMMA LaidPlace ==
    ASSUME NEW M, NEW first, Laid(M, first), NEW w, InPlace(w, M), w.m <= Len(M)
    PROVE  /\ w.m \in 1 .. Len(M) /\ w.v = Ahead(w, M) /\ w.v \in Pages
           /\ Index(w.v, 0) = Index(first, 0) /\ Index(w.v, 1) = Index(first, 1)
           /\ M[1].virt \in Nat /\ M[1].virt <= w.v /\ w.v \in Nat
           /\ HasPage(M, w.m, w.v) /\ M[w.m].virt \in Nat /\ w.v - M[w.m].virt = w.n
           /\ \A i \in 1 .. Len(M) : HasPage(M, i, w.v) => i = w.m
           /\ w.n \in Nat /\ M[w.m].virt <= w.v
           /\ M[w.m].virt + PagesIn(M[w.m]) <= End(M)
  <1> DEFINE n == Len(M)
             m == w.m
             V(i) == M[i].virt
             P(i) == PagesIn(M[i])
             v == w.v
             z == End(M)
  <1>0. Adjacent(M)
    BY Zenon DEF Laid
  <1>1. n \in Nat /\ n > 0
    BY <1>0, Zenon DEF Adjacent
  <1>2. m \in 1 .. n + 1 /\ m <= n /\ w.n \in 0 .. P(m) - 1 /\ v = V(m) + w.n
    BY Zenon DEF InPlace
  <1>3. m \in 1 .. n /\ 1 \in 1 .. n
    BY <1>1, <1>2
  <1>4. \A i \in 1 .. n : V(i) \in Nat /\ P(i) \in Nat /\ P(i) > 0
    BY <1>0, AdjacentPages, Zenon
  <1>5. \A i \in 1 .. n : V(1) <= V(i) /\ V(i) + P(i) <= z
    BY <1>0, AdjacentOrder, Zenon
  <1>6. \A i, j \in 1 .. n : i < j => V(i) + P(i) <= V(j)
    BY <1>0, AdjacentOrder, Zenon
  <1>7. \A i : HasPage(M, i, v) <=> v \in V(i) .. V(i) + P(i) - 1
    BY Zenon DEF HasPage
  <1>8. \A u \in V(1) .. z : u \in Pages /\ Index(u, 0) = Index(first, 0) /\ Index(u, 1) = Index(first, 1)
    BY Zenon DEF Laid
  <1>9. v = Ahead(w, M)
    BY <1>2, Zenon DEF Ahead
  <1> HIDE DEF n, m, V, P, v, z
  <1>10. V(1) \in Nat /\ V(m) \in Nat /\ P(m) \in Nat /\ V(1) <= V(m) /\ V(m) + P(m) <= z
    BY <1>3, <1>4, <1>5, Zenon
  <1>11. z \in Nat
    <2>1. n \in 1 .. n
      BY <1>1
    <2>2. V(n) + P(n) = z
      BY Zenon DEF V, P, z, n, End
    <2> QED
      BY <1>4, <2>1, <2>2
  <1>12. v \in Nat /\ V(1) <= v /\ v \in V(1) .. z /\ v \in V(m) .. V(m) + P(m) - 1 /\ v - V(m) = w.n
         /\ w.n \in Nat /\ V(m) <= v
    <2> DEFINE a == V(1)
               b == V(m)
               c == P(m)
               r == w.n
    <2>1. /\ a \in Nat /\ b \in Nat /\ c \in Nat /\ z \in Nat
          /\ a <= b /\ b + c <= z /\ r \in 0 .. c - 1 /\ v = b + r
      BY <1>2, <1>10, <1>11, Zenon
    <2> HIDE DEF a, b, c, r
    <2>2. /\ v \in Nat /\ a <= v /\ v \in a .. z /\ v \in b .. b + c - 1 /\ v - b = r
          /\ r \in Nat /\ b <= v
      BY <2>1
    <2> QED
      BY <2>2, Zenon DEF a, b, c, r
  <1>13. ASSUME NEW i \in 1 .. n, v \in V(i) .. V(i) + P(i) - 1
         PROVE  i = m
    <2>1. V(i) \in Nat /\ P(i) \in Nat
      BY <1>4, Zenon
    <2>2. CASE i < m
      <3>1. V(i) + P(i) <= V(m)
        BY <1>3, <1>6, <2>2, Zenon
      <3> QED
        BY <1>10, <1>12, <1>13, <2>1, <3>1
    <2>3. CASE m < i
      <3>1. V(m) + P(m) <= V(i)
        BY <1>3, <1>6, <2>3, Zenon
      <3> QED
        BY <1>10, <1>12, <1>13, <2>1, <3>1
    <2> QED
      BY <1>3, <2>2, <2>3
  <1>14. v \in Pages /\ Index(v, 0) = Index(first, 0) /\ Index(v, 1) = Index(first, 1)
    BY <1>8, <1>12, Zenon
  <1>15. \A i \in 1 .. n : HasPage(M, i, v) => i = m
    BY <1>7, <1>13, Zenon
  <1>16. HasPage(M, m, v)
    BY <1>7, <1>12, Zenon
  <1> QED
    BY <1>3, <1>9, <1>10, <1>12, <1>14, <1>15, <1>16, Zenon DEF n, m, V, v, P, z

(* One page further: d is mapped. *)
LEMMA MappedStep ==
    ASSUME NEW M, NEW first, Laid(M, first), NEW w, NEW T, NEW root, NEW m \in 1 .. Len(M), NEW d \in Pages,
           d \in Nat, HasPage(M, m, d), \A i \in 1 .. Len(M) : HasPage(M, i, d) => i = m,
           Mapped(w, T, root, M, d), NEW y,
           Translate(View(w, T), root, d) = Unmapped,
           Translate(View(y, T), root, d) = Goal(M, m, d),
           \A u \in Pages : u # d => Translate(View(y, T), root, u) = Translate(View(w, T), root, u)
    PROVE  Mapped(y, T, root, M, d + 1)
  <1> DEFINE F == View(w, T)
             G == View(y, T)
  <1>1. \A u \in Pages : u \in Nat /\ (u < d + 1 <=> u < d \/ u = d) /\ (u >= d + 1 => u >= d /\ u # d)
    BY DEF Pages
  <1>2. d >= d /\ ~(d >= d + 1)
    OBVIOUS
  <1>3. ASSUME NEW i \in 1 .. Len(M), NEW u \in Pages, HasPage(M, i, u), u < d + 1
        PROVE  Translate(T, root, u) = Unmapped /\ Translate(G, root, u) = Goal(M, i, u)
    <2>1. CASE u = d
      <3>1. i = m
        BY <1>3, <2>1, Zenon
      <3>2. Translate(F, root, d) = Translate(T, root, d)
        BY <1>2, Zenon DEF Mapped
      <3> QED
        BY <2>1, <3>1, <3>2, Zenon
    <2>2. CASE u < d /\ u # d
      <3>1. Translate(T, root, u) = Unmapped /\ Translate(F, root, u) = Goal(M, i, u)
        BY <1>3, <2>2, Zenon DEF Mapped
      <3> QED
        BY <2>2, <3>1, Zenon
    <2>3. u = d \/ (u < d /\ u # d)
      BY <1>1, <1>3, Zenon
    <2> QED
      BY <2>1, <2>2, <2>3, Zenon
  <1>4. ASSUME NEW u \in Pages, \A i \in 1 .. Len(M) : HasPage(M, i, u) => u >= d + 1
        PROVE  Translate(G, root, u) = Translate(T, root, u)
    <2>1. u # d
      BY <1>2, <1>4, Zenon
    <2>2. \A i \in 1 .. Len(M) : HasPage(M, i, u) => u >= d
      BY <1>1, <1>4, Zenon
    <2> QED
      BY <2>1, <2>2, Zenon DEF Mapped
  <1> QED
    BY <1>3, <1>4, Zenon DEF Mapped

(* A table for page d is counted if the one of page d - 1 is not the same. *)
LEMMA CountedStep ==
    ASSUME NEW w, NEW T, NEW root, NEW first, NEW a \in Nat, NEW d \in Pages, d \in Nat, a <= d,
           NEW lo \in Nat, w.pt \in Nat, Counted(w, T, root, first, a, d, lo), NEW y,
           Reaches(View(y, T), root, first, Index(d, 2)),
           y.pt \in w.pt .. w.pt + PageBytes + PageBytes + PageBytes,
           (\E k : Reaches(View(w, T), root, first, k)) => y.pt <= w.pt + PageBytes,
           Reaches(View(w, T), root, first, Index(d, 2)) => y.pt = w.pt
    PROVE  Counted(y, T, root, first, a, d + 1, lo)
  <1> DEFINE B == PageBytes
             E == EntryCount
             q == d \div E
             p == (d - 1) \div E
             o == a \div E
             r == Rows(a, d)
             s == Rows(a, d - 1)
  <1>1. B \in Nat /\ B > 0 /\ E \in Nat /\ E > 0
    BY PageBytesAssumption, EntryAssumption
  <1>2. (d + 1) - 1 = d /\ d + 1 > a /\ d + 1 # a
    OBVIOUS
  <1>3. q \in Nat /\ o \in Nat
    BY <1>1, Division
  <1>4. r = q - o + 1
    BY Zenon DEF Rows
  <1>5. ASSUME d = a
        PROVE  y.pt <= lo + (2 + r) * B
    <2>1. r = 1
      BY <1>3, <1>4, <1>5
    <2>2. w.pt = lo
      BY <1>5, Zenon DEF Counted
    <2>3. (2 + r) * B = B + B + B
      BY <1>1, <2>1
    <2> HIDE DEF B, r
    <2> QED
      BY <1>1, <2>2, <2>3 DEF B
  <1>6. ASSUME d > a
        PROVE  y.pt <= lo + (2 + r) * B
    <2>1. d - 1 \in Nat /\ d - 1 \in Pages
      <3>1. PageCount \in Nat
        BY <1>1 DEF PageCount
      <3> QED
        BY <1>6, <3>1 DEF Pages
    <2>2. p \in Nat /\ (d - 1) % E \in 0 .. E - 1 /\ d - 1 = p * E + ((d - 1) % E)
      BY <1>1, <2>1, Division
    <2>3. d % E \in 0 .. E - 1 /\ d = q * E + (d % E)
      BY <1>1, Division
    <2>4. s = p - o + 1
      BY Zenon DEF Rows
    <2>5. Reaches(View(w, T), root, first, Index(d - 1, 2)) /\ w.pt <= lo + (2 + s) * B
      BY <1>6, Zenon DEF Counted
    <2>6. Index(d, 2) = q % E /\ Index(d - 1, 2) = p % E
      BY <2>1, Indices, Zenon
    <2> HIDE DEF p, q, o, E
    <2>7. p <= q
      <3>1. SUFFICES ASSUME p >= q + 1 PROVE FALSE
        BY <1>3, <2>2
      <3>2. p * E >= (q + 1) * E /\ (q + 1) * E = q * E + E /\ q * E \in Nat /\ p * E \in Nat
        BY <1>1, <1>3, <2>2, <3>1
      <3> DEFINE pe == p * E
                 qe == q * E
      <3>3. pe >= qe + E /\ pe \in Nat /\ qe \in Nat /\ d - 1 = pe + ((d - 1) % E) /\ d = qe + (d % E)
        BY <2>2, <2>3, <3>2
      <3> HIDE DEF pe, qe
      <3> QED
        BY <1>1, <2>2, <2>3, <3>3
    <2>8. CASE p = q
      <3>1. Index(d, 2) = Index(d - 1, 2)
        BY <2>6, <2>8, Zenon
      <3>2. y.pt = w.pt
        BY <2>5, <3>1, Zenon
      <3>3. r = s
        BY <1>4, <2>4, <2>8, Zenon
      <3> QED
        BY <2>5, <3>2, <3>3, Zenon
    <2>9. CASE p < q
      <3>1. y.pt <= w.pt + B /\ y.pt \in Nat
        BY <1>1, <2>5
      <3>2. s + 1 <= r /\ s \in Int /\ r \in Int
        BY <1>3, <1>4, <2>2, <2>4, <2>9
      <3> HIDE DEF r, s, B
      <3> DEFINE sb == (2 + s) * B
                 rb == (2 + r) * B
      <3>3. sb + B <= rb /\ sb \in Int /\ rb \in Int
        <4>1. (2 + s) * B + B = (2 + s + 1) * B
          BY <1>1, <3>2
        <4>2. (2 + s + 1) * B <= (2 + r) * B
          BY <1>1, <3>2
        <4> QED
          BY <1>1, <3>2, <4>1, <4>2
      <3>4. w.pt <= lo + sb
        BY <2>5, Zenon
      <3> HIDE DEF sb, rb
      <3>5. y.pt <= lo + rb
        BY <1>1, <3>1, <3>3, <3>4
      <3> QED
        BY <3>5, Zenon DEF rb, B
    <2> QED
      BY <1>3, <2>2, <2>7, <2>8, <2>9
  <1>7. y.pt <= lo + (2 + r) * B
    BY <1>5, <1>6
  <1> HIDE DEF r, B
  <1> QED
    BY <1>2, <1>7, Zenon DEF Counted, r, B

(* Where the loops go on. *)
Moves(x, y, m, n, v) ==
    /\ IsWalk(y) /\ y.ok = x.ok /\ y.up = x.up /\ y.old = x.old /\ y.pt = x.pt /\ y.at = x.at
    /\ y.m = m /\ y.n = n /\ y.v = v

(* On to the next mapping. *)
LEMMA MoveTo ==
    ASSUME NEW w, IsWalk(w), NEW m, NEW n, NEW v
    PROVE  Moves(w, [w EXCEPT !.m = m, !.n = n, !.v = v], m, n, v)
  <1> DEFINE y == [w EXCEPT !.m = m, !.n = n, !.v = v]
  <1>0. y = [w EXCEPT !.m = m, !.n = n, !.v = v]
    BY Zenon
  <1> HIDE DEF y
  <1>1. PICK up, old, pt, at, ok, p, q, r :
           w = [up |-> up, old |-> old, pt |-> pt, at |-> at, ok |-> ok, m |-> p, n |-> q, v |-> r]
           /\ ok \in BOOLEAN
    BY Zenon DEF IsWalk
  <1>2. w.up = up /\ w.old = old /\ w.pt = pt /\ w.at = at /\ w.ok = ok
    BY <1>1
  <1>3. y = [up |-> up, old |-> old, pt |-> pt, at |-> at, ok |-> ok, m |-> m, n |-> n, v |-> v]
    BY <1>0, <1>1
  <1>4. /\ y.up = up /\ y.old = old /\ y.pt = pt /\ y.at = at /\ y.ok = ok
        /\ y.m = m /\ y.n = n /\ y.v = v
    BY <1>3
  <1>5. IsWalk(y)
    BY <1>1, <1>3, <1>4, Zenon DEF IsWalk
  <1> QED
    BY <1>2, <1>4, <1>5, Zenon DEF Moves, y

(* On to the next page. *)
LEMMA MoveOn ==
    ASSUME NEW w, IsWalk(w), NEW n, NEW v
    PROVE  Moves(w, [w EXCEPT !.n = n, !.v = v], w.m, n, v)
  <1> DEFINE y == [w EXCEPT !.n = n, !.v = v]
  <1>0. y = [w EXCEPT !.n = n, !.v = v]
    BY Zenon
  <1> HIDE DEF y
  <1>1. PICK up, old, pt, at, ok, p, q, r :
           w = [up |-> up, old |-> old, pt |-> pt, at |-> at, ok |-> ok, m |-> p, n |-> q, v |-> r]
           /\ ok \in BOOLEAN
    BY Zenon DEF IsWalk
  <1>2. w.up = up /\ w.old = old /\ w.pt = pt /\ w.at = at /\ w.ok = ok /\ w.m = p
    BY <1>1
  <1>3. y = [up |-> up, old |-> old, pt |-> pt, at |-> at, ok |-> ok, m |-> p, n |-> n, v |-> v]
    BY <1>0, <1>1
  <1>4. /\ y.up = up /\ y.old = old /\ y.pt = pt /\ y.at = at /\ y.ok = ok
        /\ y.m = p /\ y.n = n /\ y.v = v
    BY <1>3
  <1>5. IsWalk(y)
    BY <1>1, <1>3, <1>4, Zenon DEF IsWalk
  <1> QED
    BY <1>2, <1>4, <1>5, Zenon DEF Moves, y

(* The loops come to the next page. *)
LEMMA NextPage ==
    ASSUME NEW M, NEW first, Laid(M, first), NEW w, InPlace(w, M), w.m <= Len(M),
           w.n + 1 < PagesIn(M[w.m])
    PROVE  LET ahead == {u \in Pages : u > w.v /\ IsVisited(u, M[w.m].virt)}
           IN  ahead # {} /\ (CHOOSE u \in ahead : \A a \in ahead : u <= a) = w.v + 1
  <1> DEFINE v == w.v
             m == M[w.m]
             ahead == {u \in Pages : u > v /\ IsVisited(u, m.virt)}
  <1>1. /\ v \in Nat /\ m.virt \in Nat /\ v - m.virt = w.n /\ w.n \in Nat /\ m.virt <= v
        /\ M[1].virt \in Nat /\ M[1].virt <= v /\ m.virt + PagesIn(m) <= End(M) /\ w.m \in 1 .. Len(M)
    BY LaidPlace, Zenon
  <1>0. Adjacent(M)
    BY Zenon DEF Laid
  <1>2. PagesIn(m) \in Nat /\ M[1].virt <= m.virt
    BY <1>0, <1>1, AdjacentPages, AdjacentOrder, Zenon
  <1>3. End(M) \in Nat
    <2>1. Len(M) \in 1 .. Len(M)
      BY <1>0 DEF Adjacent
    <2>2. M[Len(M)].virt \in Nat /\ PagesIn(M[Len(M)]) \in Nat
      BY <1>0, <2>1, AdjacentPages, Zenon
    <2> QED
      BY <2>2 DEF End
  <1>4. w.n + 1 < PagesIn(m)
    BY Zenon
  <1> HIDE DEF v, m
  <1>14. v + 1 \in M[1].virt .. End(M) /\ m.virt \in M[1].virt .. End(M) /\ m.virt <= v + 1
    <2> DEFINE a == M[1].virt
               b == m.virt
               z == End(M)
               c == PagesIn(m)
               n == w.n
    <2>1. /\ v \in Nat /\ b \in Nat /\ v - b = n /\ n \in Nat /\ a \in Nat /\ a <= b /\ b + c <= z
          /\ c \in Nat /\ z \in Nat /\ n + 1 < c
      BY <1>1, <1>2, <1>3, <1>4, Zenon
    <2> HIDE DEF a, b, z, c, n
    <2>2. v + 1 \in a .. z /\ b \in a .. z /\ b <= v + 1
      BY <2>1
    <2> QED
      BY <2>2, Zenon DEF a, b, z
  <1>5. v + 1 \in M[1].virt .. End(M) /\ m.virt \in M[1].virt .. End(M) /\ m.virt <= v + 1
    BY <1>14, Zenon
  <1>6. /\ v + 1 \in Pages /\ Index(v + 1, 0) = Index(first, 0) /\ Index(v + 1, 1) = Index(first, 1)
        /\ m.virt \in Pages /\ Index(m.virt, 0) = Index(first, 0) /\ Index(m.virt, 1) = Index(first, 1)
    BY <1>5, Zenon DEF Laid
  <1>7. IsVisited(v + 1, m.virt)
    BY <1>5, <1>6, VisitsAll, Zenon
  <1>8. v + 1 > v
    BY <1>1
  <1>9. v + 1 \in ahead
    BY <1>6, <1>7, <1>8, Zenon
  <1>10. \A a \in ahead : a \in Nat /\ v + 1 <= a
    BY <1>1 DEF Pages
  <1> HIDE DEF ahead
  <1>11. \A u \in ahead : (\A a \in ahead : u <= a) <=> u = v + 1
    BY <1>1, <1>9, <1>10
  <1>12. (CHOOSE u \in ahead : \A a \in ahead : u <= a) = v + 1
    BY <1>9, <1>11
  <1> QED
    BY <1>9, <1>12, Zenon DEF ahead, v, m

(* MapNext goes one page further, in this mapping or the next. *)
LEMMA MapNextMoves ==
    ASSUME NEW M, NEW first, Laid(M, first), NEW w, IsWalk(w), InPlace(w, M), w.m <= Len(M),
           NEW T, NEW kn, NEW root, NEW x,
           x = MapPage(w, T, kn, root, w.v, M[w.m].phys + w.n * PageBytes, M[w.m].prot),
           IsWalk(x), x.m = w.m
    PROVE  LET y == MapNext(w, T, kn, root, M)
           IN  /\ Moves(x, y, y.m, y.n, y.v)
               /\ InPlace(y, M) /\ Ahead(y, M) = w.v + 1
  <1> DEFINE m == M[w.m]
             ahead == {u \in Pages : u > w.v /\ IsVisited(u, m.virt)}
             y == MapNext(w, T, kn, root, M)
             n == Len(M)
             k == w.m
             P(i) == PagesIn(M[i])
             V(i) == M[i].virt
  <1>0. Adjacent(M)
    BY Zenon DEF Laid
  <1>1. /\ w.v \in Nat /\ V(k) \in Nat /\ w.v - V(k) = w.n /\ w.n \in Nat /\ k \in 1 .. n
        /\ n \in Nat /\ n > 0
    BY <1>0, LaidPlace, Zenon DEF Adjacent
  <1>2. \A i \in 1 .. n : V(i) \in Nat /\ P(i) \in Nat /\ P(i) > 0
    BY <1>0, AdjacentPages, Zenon
  <1>3. \A i \in 2 .. n : V(i) = V(i - 1) + P(i - 1)
    BY <1>0, AdjacentPages, Zenon
  <1>4. w.n \in 0 .. P(k) - 1 /\ w.v = V(k) + w.n
    BY Zenon DEF InPlace
  <1>5. y = IF (w.n + 1) * PageBytes = m.len \/ ahead = {}
            THEN [x EXCEPT !.m = w.m + 1, !.n = 0, !.v = IF w.m < n THEN M[w.m + 1].virt ELSE w.v]
            ELSE [x EXCEPT !.n = w.n + 1, !.v = CHOOSE u \in ahead : \A a \in ahead : u <= a]
    <2> DEFINE X == MapPage(w, T, kn, root, w.v, m.phys + w.n * PageBytes, m.prot)
               On(z) == [z EXCEPT !.m = w.m + 1, !.n = 0, !.v = IF w.m < n THEN M[w.m + 1].virt ELSE w.v]
               To(z) == [z EXCEPT !.n = w.n + 1, !.v = CHOOSE u \in ahead : \A a \in ahead : u <= a]
    <2>1. y = IF (w.n + 1) * PageBytes = m.len \/ ahead = {} THEN On(X) ELSE To(X)
      BY Zenon DEF MapNext
    <2>2. X = x
      BY Zenon
    <2> HIDE DEF X, y, ahead, On, To
    <2>3. y = IF (w.n + 1) * PageBytes = m.len \/ ahead = {} THEN On(x) ELSE To(x)
      BY <2>1, <2>2, Zenon
    <2> QED
      BY <2>3, Zenon DEF On, To
  <1>6. (w.n + 1) * PageBytes = m.len <=> w.n + 1 = P(k)
    <2> DEFINE q == w.n + 1
               p == P(k)
    <2>1. m.len = p * PageBytes
      BY <1>0, <1>1, AdjacentPages, Zenon
    <2>2. q \in Nat /\ p \in Nat
      BY <1>1, <1>2
    <2> HIDE DEF q, p
    <2>3. q * PageBytes = p * PageBytes <=> q = p
      BY <2>2, PageBytesAssumption
    <2> QED
      BY <2>1, <2>3, Zenon DEF q, p
  <1>7. CASE w.n + 1 = P(k)
    <2> DEFINE to == IF w.m < n THEN M[w.m + 1].virt ELSE w.v
    <2>1. y = [x EXCEPT !.m = w.m + 1, !.n = 0, !.v = to]
      BY <1>5, <1>6, <1>7, Zenon
    <2> HIDE DEF y, to
    <2>2. Moves(x, y, w.m + 1, 0, to)
      BY <2>1, MoveTo, Zenon
    <2>3. y.m = k + 1 /\ y.n = 0 /\ y.v = to /\ Moves(x, y, y.m, y.n, y.v)
      BY <2>2, Zenon DEF Moves
    <2>4. w.v + 1 = V(k) + P(k)
      BY <1>1, <1>2, <1>4, <1>7
    <2>5. CASE k < n
      <3>1. k + 1 \in 2 .. n /\ (k + 1) - 1 = k /\ k + 1 \in 1 .. n /\ k + 1 \in 1 .. n + 1 /\ k + 1 <= n
        <4>1. k \in 1 .. n /\ n \in Nat /\ k < n
          BY <1>1, <2>5, Zenon
        <4> HIDE DEF k, n
        <4> QED
          BY <4>1
      <3>2. V(k + 1) = V(k) + P(k)
        BY <1>3, <3>1, Zenon
      <3>3. to = V(k + 1)
        BY <2>5, Zenon DEF to
      <3>4. V(k + 1) \in Nat /\ P(k + 1) \in Nat /\ P(k + 1) > 0
        BY <1>2, <3>1, Zenon
      <3>5. 0 \in 0 .. P(k + 1) - 1 /\ V(k + 1) + 0 = V(k + 1)
        BY <3>4
      <3>6. InPlace(y, M)
        BY <2>3, <3>1, <3>3, <3>5, Zenon DEF InPlace
      <3>7. Ahead(y, M) = V(k + 1)
        BY <2>3, <3>1, <3>5, Zenon DEF Ahead
      <3> QED
        BY <2>3, <2>4, <3>2, <3>6, <3>7, Zenon DEF y
    <2>6. CASE k = n
      <3>1. k + 1 \in 1 .. n + 1 /\ ~(k + 1 <= n)
        BY <1>1, <2>6
      <3>2. InPlace(y, M)
        BY <2>3, <3>1, Zenon DEF InPlace
      <3>3. Ahead(y, M) = V(n) + P(n)
        BY <2>3, <3>1, Zenon DEF Ahead, End
      <3> QED
        BY <2>3, <2>4, <2>6, <3>2, <3>3, Zenon DEF y
    <2>7. k < n \/ k = n
      <3>1. k \in 1 .. n /\ n \in Nat
        BY <1>1, Zenon
      <3> HIDE DEF k, n
      <3> QED
        BY <3>1
    <2> QED
      BY <2>5, <2>6, <2>7, Zenon
  <1>8. CASE w.n + 1 # P(k)
    <2>1. w.n + 1 < P(k) /\ w.n + 1 \in 0 .. P(k) - 1 /\ V(k) + (w.n + 1) = w.v + 1
      <3> DEFINE a == w.n
                 b == V(k)
                 c == P(k)
                 v == w.v
      <3>1. a \in Nat /\ b \in Nat /\ c \in Nat /\ a \in 0 .. c - 1 /\ v = b + a /\ a + 1 # c
        BY <1>1, <1>2, <1>4, <1>8, Zenon
      <3> HIDE DEF a, b, c, v
      <3>2. a + 1 < c /\ a + 1 \in 0 .. c - 1 /\ b + (a + 1) = v + 1
        BY <3>1
      <3> QED
        BY <3>2, Zenon DEF a, b, c, v
    <2> DEFINE to == CHOOSE u \in ahead : \A a \in ahead : u <= a
    <2>2. ahead # {} /\ to = w.v + 1
      BY <2>1, NextPage, Zenon
    <2>3. y = [x EXCEPT !.n = w.n + 1, !.v = to]
      BY <1>5, <1>6, <1>8, <2>2, Zenon
    <2> HIDE DEF y, to
    <2>4. Moves(x, y, x.m, w.n + 1, to)
      BY <2>3, MoveOn, Zenon
    <2>5. y.m = k /\ y.n = w.n + 1 /\ y.v = w.v + 1 /\ Moves(x, y, y.m, y.n, y.v)
      BY <2>2, <2>4, Zenon DEF Moves
    <2>6. k \in 1 .. n + 1 /\ k <= n
      BY <1>1
    <2>7. InPlace(y, M)
      BY <2>1, <2>5, <2>6, Zenon DEF InPlace
    <2>8. Ahead(y, M) = w.v + 1
      BY <2>1, <2>5, <2>6, Zenon DEF Ahead
    <2> QED
      BY <2>5, <2>7, <2>8, Zenon DEF y
  <1> QED
    BY <1>7, <1>8, Zenon

(* Every page that map_memory() maps keeps the invariant of the walk. *)
LEMMA WalkStep ==
    ASSUME NEW M, NEW first \in Pages, Laid(M, first), NEW w, NEW T, NEW root, NEW lo, NEW kn, Below(T, lo),
           WalkInv(w, T, root, first, M, lo), w.ok, w.m <= Len(M)
    PROVE  WalkInv(MapNext(w, T, kn, root, M), T, root, first, M, lo)
  <1> DEFINE m == M[w.m]
             d == w.v
             p == m.phys + w.n * PageBytes
             x == MapPage(w, T, kn, root, d, p, m.prot)
             y == MapNext(w, T, kn, root, M)
             F == View(w, T)
             G == View(x, T)
  <1>1. /\ IsWalk(w) /\ WalkOK(w, T, root, first, lo) /\ InPlace(w, M)
        /\ Mapped(w, T, root, M, Ahead(w, M))
        /\ Counted(w, T, root, first, M[1].virt, Ahead(w, M), lo)
    BY Zenon DEF WalkInv
  <1>2. /\ w.m \in 1 .. Len(M) /\ d = Ahead(w, M) /\ d \in Pages
        /\ Index(d, 0) = Index(first, 0) /\ Index(d, 1) = Index(first, 1)
        /\ M[1].virt \in Nat /\ M[1].virt <= d /\ d \in Nat
        /\ HasPage(M, w.m, d) /\ d - m.virt = w.n /\ w.n \in Nat
        /\ \A i \in 1 .. Len(M) : HasPage(M, i, d) => i = w.m
    BY <1>1, LaidPlace, Zenon
  <1>3. m.phys \in Nat /\ m.prot \in Prots \cup {"-"}
    BY <1>2, Zenon DEF Laid
  <1>4. p \in Nat
    <2> DEFINE a == m.phys
               b == w.n
    <2>1. a \in Nat /\ b \in Nat
      BY <1>2, <1>3, Zenon
    <2> HIDE DEF a, b
    <2>2. a + b * PageBytes \in Nat
      BY <2>1, PageBytesAssumption
    <2> QED
      BY <2>2, Zenon DEF a, b
  <1> HIDE DEF p, d
  <1>5. /\ IsWalk(x) /\ x.m = w.m
        /\ x.ok => /\ WalkOK(x, T, root, first, lo)
                   /\ Translate(F, root, d) = Unmapped
                   /\ Translate(G, root, d) = [to |-> p, prot |-> m.prot]
                   /\ \A u \in Pages : u # d => Translate(G, root, u) = Translate(F, root, u)
                   /\ Reaches(G, root, first, Index(d, 2))
                   /\ x.pt \in w.pt .. w.pt + PageBytes + PageBytes + PageBytes
                   /\ (\E k : Reaches(F, root, first, k)) => x.pt <= w.pt + PageBytes
                   /\ Reaches(F, root, first, Index(d, 2)) => x.pt = w.pt
    <2>1. MapsPage(w, x, T, root, first, lo, d, p, m.prot)
      BY <1>1, <1>2, <1>3, <1>4, MapsOnePage, Zenon
    <2> HIDE DEF x
    <2> QED
      BY <2>1, Zenon DEF MapsPage
  <1>6. Goal(M, w.m, d) = [to |-> p, prot |-> m.prot]
    BY <1>2, Zenon DEF Goal, p
  <1>7. x = MapPage(w, T, kn, root, w.v, M[w.m].phys + w.n * PageBytes, M[w.m].prot)
    BY Zenon DEF p, d
  <1> HIDE DEF x
  <1>8. Moves(x, y, y.m, y.n, y.v) /\ InPlace(y, M) /\ Ahead(y, M) = d + 1
    BY <1>1, <1>5, <1>7, MapNextMoves, Zenon DEF d
  <1> HIDE DEF y
  <1>9. /\ IsWalk(y) /\ y.ok = x.ok /\ y.up = x.up /\ y.old = x.old /\ y.pt = x.pt
    BY <1>8, Zenon DEF Moves
  <1>10. View(y, T) = G
    BY <1>9, Zenon DEF View
  <1>11. ASSUME y.ok
         PROVE  /\ WalkOK(y, T, root, first, lo)
                /\ Mapped(y, T, root, M, d + 1)
                /\ Counted(y, T, root, first, M[1].virt, d + 1, lo)
    <2>0. x.ok
      BY <1>9, <1>11, Zenon
    <2>1. WalkOK(y, T, root, first, lo)
      BY <1>5, <1>9, <1>10, <2>0, Zenon DEF WalkOK
    <2>2. Mapped(y, T, root, M, d + 1)
      <3>1. Mapped(w, T, root, M, d)
        BY <1>1, <1>2, Zenon
      <3>2. /\ Translate(F, root, d) = Unmapped
            /\ Translate(View(y, T), root, d) = Goal(M, w.m, d)
            /\ \A u \in Pages : u # d => Translate(View(y, T), root, u) = Translate(F, root, u)
        BY <1>5, <1>6, <1>10, <2>0, Zenon
      <3> QED
        BY <1>2, <3>1, <3>2, MappedStep, Zenon
    <2>3. Counted(y, T, root, first, M[1].virt, d + 1, lo)
      <3>1. Counted(w, T, root, first, M[1].virt, d, lo)
        BY <1>1, <1>2, Zenon
      <3>2. w.pt \in Nat /\ lo \in Nat
        BY <1>1, Zenon DEF WalkOK, Below
      <3>3. /\ Reaches(View(y, T), root, first, Index(d, 2))
            /\ y.pt \in w.pt .. w.pt + PageBytes + PageBytes + PageBytes
            /\ (\E k : Reaches(F, root, first, k)) => y.pt <= w.pt + PageBytes
            /\ Reaches(F, root, first, Index(d, 2)) => y.pt = w.pt
        BY <1>5, <1>9, <1>10, <2>0, Zenon
      <3> QED
        BY <1>2, <3>1, <3>2, <3>3, CountedStep, Zenon
    <2> QED
      BY <2>1, <2>2, <2>3, Zenon
  <1> QED
    BY <1>8, <1>9, <1>11, Zenon DEF WalkInv, y

(* It holds when the pml4 has been read. *)
LEMMA WalkStart ==
    ASSUME NEW M, NEW first \in Pages, Laid(M, first), NEW T, NEW root, NEW lo, NEW kn, Below(T, lo),
           WellFormed(T, root), TablesPrivate(T, root, first), M[Len(M)].phys + M[Len(M)].len = lo
    PROVE  WalkInv(StartMapping(T, kn, root, M), T, root, first, M, lo)
  <1> DEFINE s == [up |-> <<>>, old |-> {}, pt |-> lo, at |-> root, ok |-> TRUE,
                   m |-> 1, n |-> 0, v |-> M[1].virt]
             x == ReadPageTable(s, T, kn, root)
             Consecutive == \A i \in 2 .. Len(M) : M[i - 1].phys + M[i - 1].len = M[i].phys
             y == StartMapping(T, kn, root, M)
  <1>1. y = IF Consecutive THEN x ELSE [x EXCEPT !.ok = FALSE]
    BY Zenon DEF StartMapping
  <1>2. /\ s.up = <<>> /\ s.old = {} /\ s.pt = lo /\ s.at = root /\ s.ok = TRUE
        /\ s.m = 1 /\ s.n = 0 /\ s.v = M[1].virt
    BY Zenon
  <1>3. IsWalk(s)
    BY <1>2, Zenon DEF IsWalk
  <1> HIDE DEF s
  <1>4. Reads(s, x, T, root)
    BY <1>3, ReadCases, Zenon
  <1> HIDE DEF x, Consecutive, y
  <1>5. CASE ~x.ok \/ ~Consecutive
    <2>1. IsWalk(x)
      BY <1>4, Zenon DEF Reads, SamePlace
    <2>2. IsWalk(y) /\ ~y.ok
      BY <1>1, <1>5, <2>1, FailCases, Zenon
    <2> QED
      BY <2>2, Zenon DEF WalkInv, y
  <1>6. CASE x.ok /\ Consecutive
    <2>0. y = x
      BY <1>1, <1>6, Zenon
    <2> DEFINE one == [a \in {root} |-> T[a]]
    <2>1. /\ IsWalk(x) /\ x.m = 1 /\ x.n = 0 /\ x.v = M[1].virt /\ x.pt = lo
          /\ x.at = root /\ x.old = {root} /\ x.up = Over(one, <<>>)
      <3>1. /\ IsWalk(x) /\ x.m = 1 /\ x.n = 0 /\ x.v = M[1].virt /\ x.pt = lo
            /\ x.at = root /\ x.old = {} \cup {root} /\ x.up = Over(one, <<>>)
        BY <1>2, <1>4, <1>6, Zenon DEF Reads, SamePlace
      <3> QED
        BY <3>1, Zenon
    <2>2. DOMAIN one = {root} /\ one[root] = T[root]
      BY Zenon
    <2>3. root \in DOMAIN T /\ T \in [DOMAIN T -> Tables] /\ lo \in Nat
      BY Zenon DEF WellFormed, Below
    <2> HIDE DEF one
    <2>4. IsOver(x.up, one, <<>>)
      BY <2>1, OverIs, Zenon
    <2>5. DOMAIN <<>> = {}
      OBVIOUS
    <2>6. DOMAIN x.up = {root} /\ x.up[root] = T[root]
      BY <2>2, <2>4, <2>5, Zenon DEF IsOver
    <2>7. x.up \in [DOMAIN x.up -> Tables]
      <3>1. \A a \in DOMAIN one \cup DOMAIN <<>> : x.up[a] \in Tables
        BY <2>2, <2>3, <2>5, <2>6, Zenon
      <3> QED
        BY <2>4, <3>1, Zenon DEF IsOver
    <2> DEFINE G == View(x, T)
    <2>8. IsOver(G, x.up, T)
      BY OverIs, Zenon DEF View
    <2> HIDE DEF G
    <2>9. DOMAIN G = DOMAIN T
      BY <2>3, <2>6, <2>8, Zenon DEF IsOver
    <2>10. \A a \in DOMAIN T : G[a] = T[a]
      BY <2>6, <2>8, Zenon DEF IsOver
    <2>11. G \in [DOMAIN T -> Tables]
      <3>1. \A a \in DOMAIN T : G[a] \in Tables
        BY <2>3, <2>10, Zenon
      <3>2. DOMAIN x.up \cup DOMAIN T = DOMAIN T
        BY <2>3, <2>6, Zenon
      <3> QED
        BY <2>8, <3>1, <3>2, Zenon DEF IsOver
    <2>12. G = T
      BY <2>3, <2>10, <2>11
    <2>13. WalkOK(x, T, root, first, lo)
      <3>1. lo <= lo
        BY <2>3
      <3> QED
        BY <2>1, <2>3, <2>6, <2>7, <2>12, <3>1, Zenon DEF WalkOK, G
    <2>14. Adjacent(M)
      BY Zenon DEF Laid
    <2>15. Len(M) \in Nat /\ Len(M) > 0
      BY <2>14, Zenon DEF Adjacent
    <2>16. 1 \in 1 .. Len(M) /\ 1 <= Len(M) /\ 1 \in 1 .. Len(M) + 1
      BY <2>15
    <2>17. M[1].virt \in Nat /\ PagesIn(M[1]) \in Nat /\ PagesIn(M[1]) > 0
      BY <2>14, <2>16, AdjacentPages, Zenon
    <2>18. 0 \in 0 .. PagesIn(M[1]) - 1 /\ M[1].virt + 0 = M[1].virt
      BY <2>17
    <2>19. InPlace(x, M) /\ Ahead(x, M) = M[1].virt
      BY <2>1, <2>16, <2>18, Zenon DEF InPlace, Ahead
    <2>20. Mapped(x, T, root, M, M[1].virt)
      <3>1. ASSUME NEW i \in 1 .. Len(M), NEW u \in Pages, HasPage(M, i, u), u < M[1].virt
            PROVE  FALSE
        <4>1. M[1].virt <= M[i].virt /\ M[i].virt \in Nat /\ PagesIn(M[i]) \in Nat
          BY <2>14, AdjacentOrder, AdjacentPages, Zenon
        <4>2. u \in M[i].virt .. M[i].virt + PagesIn(M[i]) - 1
          BY <3>1, Zenon DEF HasPage
        <4> QED
          BY <2>17, <3>1, <4>1, <4>2
      <3> QED
        BY <2>12, <3>1, Zenon DEF Mapped, G
    <2>21. Counted(x, T, root, first, M[1].virt, M[1].virt, lo)
      <3>1. ~(M[1].virt > M[1].virt)
        BY <2>17
      <3> QED
        BY <2>1, <3>1, Zenon DEF Counted
    <2> QED
      BY <2>0, <2>1, <2>13, <2>19, <2>20, <2>21, Zenon DEF WalkInv, y
  <1> QED
    BY <1>5, <1>6, Zenon

(* When the loops are through all pages are mapped, and the new tables are *)
(* in the room that estimate_page_table_size() left for them.              *)
LEMMA WalkEnd ==
    ASSUME NEW M, NEW first \in Pages, Laid(M, first), NEW w, NEW T, NEW root, NEW lo, Below(T, lo),
           WalkInv(w, T, root, first, M, lo), w.ok, ~(w.m <= Len(M))
    PROVE  LET n == End(M) - M[1].virt
           IN  /\ \A i \in 1 .. Len(M), u \in Pages : HasPage(M, i, u) =>
                     /\ Translate(T, root, u) = Unmapped
                     /\ Translate(View(w, T), root, u) = Goal(M, i, u)
               /\ \A u \in Pages : (\A i \in 1 .. Len(M) : ~HasPage(M, i, u)) =>
                     Translate(View(w, T), root, u) = Translate(T, root, u)
               /\ n \in Nat /\ n > 0
               /\ w.pt <= lo + EstimatePageTableSize(n * PageBytes)
  <1> DEFINE a == M[1].virt
             d == End(M)
             n == d - a
  <1>1. Mapped(w, T, root, M, d) /\ Counted(w, T, root, first, a, d, lo) /\ WalkOK(w, T, root, first, lo)
    BY Zenon DEF WalkInv, Ahead
  <1>2. Adjacent(M)
    BY Zenon DEF Laid
  <1>3. Len(M) \in Nat /\ Len(M) > 0
    BY <1>2, Zenon DEF Adjacent
  <1>4. 1 \in 1 .. Len(M) /\ Len(M) \in 1 .. Len(M)
    BY <1>3
  <1>5. \A i \in 1 .. Len(M) : /\ M[i].virt \in Nat /\ PagesIn(M[i]) \in Nat /\ PagesIn(M[i]) > 0
                               /\ a <= M[i].virt /\ M[i].virt + PagesIn(M[i]) <= d
    BY <1>2, AdjacentPages, AdjacentOrder, Zenon
  <1>6. a \in Nat /\ d \in Nat /\ d > a
    <2>1. d = M[Len(M)].virt + PagesIn(M[Len(M)])
      BY Zenon DEF End
    <2>2. M[Len(M)].virt \in Nat /\ PagesIn(M[Len(M)]) \in Nat /\ PagesIn(M[Len(M)]) > 0
          /\ a <= M[Len(M)].virt /\ a \in Nat
      BY <1>4, <1>5, Zenon
    <2> HIDE DEF a, d
    <2> QED
      BY <2>1, <2>2
  <1>7. n \in Nat /\ n > 0 /\ a + n - 1 = d - 1
    BY <1>6
  <1>8. ASSUME NEW i \in 1 .. Len(M), NEW u \in Pages, HasPage(M, i, u)
        PROVE  u < d
    <2>1. u \in M[i].virt .. M[i].virt + PagesIn(M[i]) - 1
      BY <1>8, Zenon DEF HasPage
    <2>2. M[i].virt \in Nat /\ PagesIn(M[i]) \in Nat /\ M[i].virt + PagesIn(M[i]) <= d
      BY <1>5, Zenon
    <2> HIDE DEF d
    <2> QED
      BY <1>6, <2>1, <2>2
  <1>9. w.pt <= lo + (2 + Rows(a, d - 1)) * PageBytes
    BY <1>1, <1>6, Zenon DEF Counted
  <1> HIDE DEF a, d
  <1>10. w.pt <= lo + EstimatePageTableSize(n * PageBytes)
    <2> DEFINE r == (2 + Rows(a, a + n - 1)) * PageBytes
               e == EstimatePageTableSize(n * PageBytes)
    <2>1. e \in Nat /\ r <= e
      BY <1>6, <1>7, EstimateFits, Zenon
    <2>2. w.pt <= lo + r
      BY <1>7, <1>9, Zenon
    <2>3. r \in Int
      <3>1. Rows(a, a + n - 1) \in Int
        BY <1>6, <1>7, EstimateFits, Zenon
      <3> QED
        BY <3>1, PageBytesAssumption
    <2>4. w.pt \in Nat /\ lo \in Nat
      BY <1>1, Zenon DEF WalkOK, Below
    <2> HIDE DEF r, e
    <2>5. w.pt <= lo + e
      BY <2>1, <2>2, <2>3, <2>4
    <2> QED
      BY <2>5, Zenon DEF e
  <1>11. \A u \in Pages : (\A i \in 1 .. Len(M) : ~HasPage(M, i, u)) =>
            Translate(View(w, T), root, u) = Translate(T, root, u)
    BY <1>1, Zenon DEF Mapped
  <1>12. \A i \in 1 .. Len(M), u \in Pages : HasPage(M, i, u) =>
            Translate(T, root, u) = Unmapped /\ Translate(View(w, T), root, u) = Goal(M, i, u)
    BY <1>1, <1>8, Zenon DEF Mapped
  <1> QED
    BY <1>7, <1>10, <1>11, <1>12, Zenon DEF a, d

-----------------------------------------------------------------------------
(* Mappings one behind the other in physical memory, from base on. *)
IsLaid(M, a, sum, base) ==
    M = [i \in 1 .. Len(a) |-> [virt |-> a[i].virt, len |-> a[i].len, prot |-> a[i].prot,
                                phys |-> base + sum[i - 1]]]

(* What is known of such mappings. *)
LaidOut(M, a, sum, first, base) ==
    /\ Laid(M, first) /\ Len(M) = Len(a)
    /\ sum[Len(a)] \in Nat
    /\ M[Len(M)].phys + M[Len(M)].len = base + sum[Len(a)]
    /\ End(M) - M[1].virt \in Nat
    /\ sum[Len(a)] = (End(M) - M[1].virt) * PageBytes

(* Segments without a gap, one behind the other in physical memory, are    *)
(* what map_memory() expects.                                              *)
LEMMA LayOut ==
    ASSUME NEW a, Adjacent(a), \A i \in 1 .. Len(a) : a[i].prot \in Prots,
           NEW sum, IsSum(sum, a), NEW base \in Nat, NEW M, IsLaid(M, a, sum, base),
           NEW first, \A u \in a[1].virt .. End(a) :
               u \in Pages /\ Index(u, 0) = Index(first, 0) /\ Index(u, 1) = Index(first, 1)
    PROVE  LaidOut(M, a, sum, first, base)
  <1> DEFINE n == Len(a)
  <1>1. n \in Nat /\ n > 0
    BY Zenon DEF Adjacent
  <1>2. /\ Len(M) = n
        /\ \A i \in 1 .. n : M[i] = [virt |-> a[i].virt, len |-> a[i].len, prot |-> a[i].prot,
                                     phys |-> base + sum[i - 1]]
    BY <1>1 DEF IsLaid
  <1>3. \A i \in 1 .. n : /\ M[i].virt = a[i].virt /\ M[i].len = a[i].len /\ M[i].prot = a[i].prot
                          /\ M[i].phys = base + sum[i - 1]
    <2> TAKE i \in 1 .. n
    <2> DEFINE r == [virt |-> a[i].virt, len |-> a[i].len, prot |-> a[i].prot, phys |-> base + sum[i - 1]]
    <2>1. r.virt = a[i].virt /\ r.len = a[i].len /\ r.prot = a[i].prot /\ r.phys = base + sum[i - 1]
      BY Zenon
    <2>2. M[i] = r
      BY <1>2, Zenon
    <2> HIDE DEF r
    <2> QED
      BY <2>1, <2>2, Zenon
  <1>4. 1 \in 1 .. n /\ n \in 1 .. n /\ \A i \in 2 .. n : i \in 1 .. n /\ i - 1 \in 1 .. n
    BY <1>1
  <1>5. Adjacent(M)
    BY <1>2, <1>3, <1>4, Zenon DEF Adjacent
  <1>6. End(M) = End(a)
    BY <1>2, <1>3, <1>4, Zenon DEF End, PagesIn
  <1>7. \A i \in 1 .. n : /\ a[i].virt \in Nat /\ PagesIn(a[i]) \in Nat /\ PagesIn(a[i]) > 0
                          /\ a[1].virt <= a[i].virt
    BY AdjacentPages, AdjacentOrder, Zenon
  <1>8. \A i \in 1 .. n : sum[i - 1] = (a[i].virt - a[1].virt) * PageBytes
    BY AdjacentSums, Zenon
  <1>9. sum[n] = (a[n].virt + PagesIn(a[n]) - a[1].virt) * PageBytes
    BY <1>4, AdjacentSums, Zenon
  <1>10. ASSUME NEW i \in 1 .. n
         PROVE  sum[i - 1] \in Nat
    <2> DEFINE d == a[i].virt - a[1].virt
    <2>1. a[i].virt \in Nat /\ a[1].virt \in Nat /\ a[1].virt <= a[i].virt
      BY <1>4, <1>7, Zenon
    <2>2. d \in Nat
      BY <2>1
    <2>3. sum[i - 1] = d * PageBytes
      BY <1>8, Zenon
    <2> HIDE DEF d
    <2> QED
      BY <2>2, <2>3, PageBytesAssumption, Products
  <1>11. Laid(M, first)
    <2>1. ASSUME NEW i \in 1 .. n
          PROVE  M[i].phys \in Nat /\ M[i].prot \in Prots
      <3>1. sum[i - 1] \in Nat
        BY <1>10, Zenon
      <3>2. base + sum[i - 1] \in Nat
        BY <3>1
      <3> QED
        BY <1>3, <3>2, Zenon
    <2>2. M[1].virt = a[1].virt
      BY <1>3, <1>4, Zenon
    <2> QED
      BY <1>2, <1>5, <1>6, <2>1, <2>2, Zenon DEF Laid
  <1>12. End(M) - M[1].virt \in Nat /\ sum[n] = (End(M) - M[1].virt) * PageBytes
    <2>1. End(M) = a[n].virt + PagesIn(a[n]) /\ M[1].virt = a[1].virt
      BY <1>3, <1>4, <1>6, Zenon DEF End
    <2>2. a[n].virt \in Nat /\ PagesIn(a[n]) \in Nat /\ a[1].virt <= a[n].virt /\ a[1].virt \in Nat
      BY <1>4, <1>7, Zenon
    <2>3. a[n].virt + PagesIn(a[n]) - a[1].virt \in Nat
      <3> DEFINE x == a[n].virt
                 y == PagesIn(a[n])
                 z == a[1].virt
      <3>1. x \in Nat /\ y \in Nat /\ z \in Nat /\ z <= x
        BY <2>2, Zenon
      <3> HIDE DEF x, y, z
      <3>2. x + y - z \in Nat
        BY <3>1
      <3> QED
        BY <3>2, Zenon DEF x, y, z
    <2>4. End(M) - M[1].virt = a[n].virt + PagesIn(a[n]) - a[1].virt
      <3> DEFINE e == End(M)
                 f == M[1].virt
                 x == a[n].virt
                 y == PagesIn(a[n])
                 z == a[1].virt
      <3>1. e = x + y /\ f = z /\ x \in Nat /\ y \in Nat /\ z \in Nat
        BY <2>1, <2>2, Zenon
      <3> HIDE DEF e, f, x, y, z
      <3>2. e - f = x + y - z
        BY <3>1
      <3> QED
        BY <3>2, Zenon DEF e, f, x, y, z
    <2> QED
      BY <1>9, <2>3, <2>4, Zenon
  <1>13. sum[n] \in Nat
    <2> DEFINE d == End(M) - M[1].virt
    <2>1. d \in Nat /\ sum[n] = d * PageBytes
      BY <1>12, Zenon
    <2> HIDE DEF d
    <2> QED
      BY <2>1, PageBytesAssumption, Products
  <1>14. M[Len(M)].phys + M[Len(M)].len = base + sum[n]
    <2>1. M[n].phys = base + sum[n - 1] /\ M[n].len = a[n].len
      BY <1>3, <1>4, Zenon
    <2>2. sum[n] = sum[n - 1] + a[n].len
      <3>1. n \in 0 .. n /\ n # 0
        BY <1>1
      <3> QED
        BY <3>1, Zenon DEF IsSum
    <2>3. sum[n - 1] \in Nat /\ a[n].len \in Nat
      BY <1>4, <1>10, Zenon DEF Adjacent
    <2> QED
      BY <1>2, <2>1, <2>2, <2>3
  <1> QED
    BY <1>2, <1>11, <1>12, <1>13, <1>14, Zenon DEF LaidOut
=============================================================================
