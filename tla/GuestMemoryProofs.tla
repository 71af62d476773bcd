------------------------- MODULE GuestMemoryProofs -------------------------
(***************************************************************************)
(* For any guest, image of stage1, address space, page and table size, and *)
(* whatever fails: memory for stage1 is free memory, it is mapped as asked *)
(* and nothing else is, and when vmsh is done nothing of it is left. The   *)
(* properties are of different steps of vmsh, so each needs to know what   *)
(* the steps before have left: the inductive invariant GuestInv says where *)
(* vmsh's slot is (OursInv), how the tables differ from what the guest     *)
(* alone would have (TablesInv), and how far map_memory() got (MapInv).    *)
(***************************************************************************)
EXTENDS GuestMemory, MemoryProofs

-----------------------------------------------------------------------------
(* The image                                                               *)

(* Offsets is what its recursion says: there is a function that satisfies  *)
(* it.                                                                     *)
LEMMA OffsetsAreSums ==
    ASSUME NEW a, Len(a) \in Nat
    PROVE  IsSum(Offsets(a), a)
  <1>1. Offsets(a) = CHOOSE sum : sum = [i \in 0 .. Len(a) |-> IF i = 0 THEN 0 ELSE sum[i - 1] + a[i].len]
    BY Zenon DEF Offsets
  <1>2. PICK f : SumUpTo(f, a, Len(a))
    BY SumExists, Zenon
  <1>3. \E sum : sum = [i \in 0 .. Len(a) |-> IF i = 0 THEN 0 ELSE sum[i - 1] + a[i].len]
    BY <1>2, Zenon DEF SumUpTo
  <1> QED
    BY <1>1, <1>3, Zenon DEF IsSum

(* The allocations of an image follow each other, in the KASLR range. *)
LEMMA ImageIsLaid ==
    ASSUME NEW image \in Images, Fits(Allocs(image))
    PROVE  LET a == Allocs(image)
           IN  /\ Adjacent(a) /\ IsSum(Offsets(a), a)
               /\ \A i \in 1 .. Len(a) : a[i].prot \in Prots
               /\ \A u \in a[1].virt .. End(a) :
                     u \in Pages /\ Index(u, 0) = Index(KaslrStart, 0) /\ Index(u, 1) = Index(KaslrStart, 1)
  <1> DEFINE a == Allocs(image)
  <1>1. /\ a \in Seq([virt : Nat, offset : Nat, len : Nat, prot : Prots]) /\ a # <<>>
        /\ \A i \in 1 .. Len(a) : a[i].len > 0 /\ a[i].len % PageBytes = 0
        /\ \A i \in 2 .. Len(a) : a[i].virt = a[i - 1].virt + a[i - 1].len \div PageBytes
        /\ a[1].virt >= KaslrStart
    BY ImagesAssumption, Zenon
  <1>2. a[Len(a)].virt + a[Len(a)].len \div PageBytes \in KaslrStart .. KaslrEnd - 1
    BY Zenon DEF Fits
  <1> HIDE DEF a
  <1>3. Len(a) \in Nat /\ Len(a) > 0
    BY <1>1
  <1>4. \A i \in 1 .. Len(a) : a[i].virt \in Nat /\ a[i].len \in Nat /\ a[i].prot \in Prots
    <2> TAKE i \in 1 .. Len(a)
    <2> DEFINE R == [virt : Nat, offset : Nat, len : Nat, prot : Prots]
    <2>1. a \in Seq(R)
      BY <1>1, Zenon
    <2> HIDE DEF R
    <2>2. a[i] \in R
      BY <1>3, <2>1
    <2> QED
      BY <2>2 DEF R
  <1>5. Adjacent(a)
    BY <1>1, <1>3, <1>4, Zenon DEF Adjacent
  <1>6. IsSum(Offsets(a), a)
    BY <1>3, OffsetsAreSums, Zenon
  <1>7. ASSUME NEW u \in a[1].virt .. End(a)
        PROVE  u \in Pages /\ Index(u, 0) = Index(KaslrStart, 0) /\ Index(u, 1) = Index(KaslrStart, 1)
    <2> DEFINE e == End(a)
               v == a[1].virt
    <2>1. e \in KaslrStart .. KaslrEnd - 1
      BY <1>2, Zenon DEF End, PagesIn
    <2>2. v \in Nat /\ v >= KaslrStart /\ u \in v .. e
      <3>1. 1 \in 1 .. Len(a)
        BY <1>3
      <3> QED
        BY <1>1, <1>4, <1>7, <3>1, Zenon
    <2> HIDE DEF e, v
    <2>3. KaslrStart \in Nat /\ KaslrEnd \in Nat /\ PageCount \in Nat /\ KaslrEnd <= PageCount - 1
      <3>1. PageCount \in Nat
        BY EntryAssumption DEF PageCount
      <3> QED
        BY <3>1, KaslrAssumption DEF Pages
    <2>4. u \in KaslrStart .. KaslrEnd - 1 /\ u \in 0 .. PageCount - 1
      BY <2>1, <2>2, <2>3
    <2> QED
      BY <2>4, KaslrAssumption, Zenon DEF Pages
  <1> QED
    BY <1>4, <1>5, <1>6, <1>7, Zenon DEF a

(* Mappings() lays them out from phys on, and asks for room behind them    *)
(* for the page tables.                                                    *)
LEMMA MappingsAreLaid ==
    ASSUME NEW image \in Images, Fits(Allocs(image)), NEW lo \in Nat
    PROVE  LET a == Allocs(image)
               M == Mappings(a, lo)
           IN  /\ LaidOut(M, a, Offsets(a), KaslrStart, lo)
               /\ Bytes(M) = Bytes(a)
               /\ MemorySize(a) \in Nat /\ Bytes(a) \in Nat
  <1> DEFINE a == Allocs(image)
             M == Mappings(a, lo)
             sum == Offsets(a)
  <1>1. /\ Adjacent(a) /\ IsSum(sum, a)
        /\ \A i \in 1 .. Len(a) : a[i].prot \in Prots
        /\ \A u \in a[1].virt .. End(a) :
              u \in Pages /\ Index(u, 0) = Index(KaslrStart, 0) /\ Index(u, 1) = Index(KaslrStart, 1)
    BY ImageIsLaid, Zenon
  <1> HIDE DEF a
  <1>2. IsLaid(M, a, sum, lo)
    BY Zenon DEF Mappings, IsLaid
  <1> HIDE DEF M
  <1>3. LaidOut(M, a, sum, KaslrStart, lo)
    BY <1>1, <1>2, LayOut, Zenon
  <1> DEFINE n == Len(a)
             d == End(M) - M[1].virt
  <1>4. /\ Adjacent(M) /\ Len(M) = n /\ d \in Nat /\ sum[n] = d * PageBytes /\ sum[n] \in Nat
    BY <1>3, Zenon DEF LaidOut, Laid
  <1>5. n \in Nat /\ n > 0
    BY <1>1, Zenon DEF Adjacent
  <1>6. Offsets(M)[n] = (M[n].virt + PagesIn(M[n]) - M[1].virt) * PageBytes
    <2>1. IsSum(Offsets(M), M)
      BY <1>4, <1>5, OffsetsAreSums, Zenon
    <2>2. n \in 1 .. n
      BY <1>5
    <2> QED
      BY <1>4, <2>1, <2>2, AdjacentSums, Zenon
  <1>7. M[n].virt + PagesIn(M[n]) - M[1].virt = d /\ d > 0
    <2> DEFINE x == M[n].virt
               y == PagesIn(M[n])
               z == M[1].virt
               e == End(M)
    <2>1. e = x + y
      BY <1>4, Zenon DEF End
    <2>2. n \in 1 .. n /\ 1 \in 1 .. n
      BY <1>5
    <2>3. x \in Nat /\ y \in Nat /\ z \in Nat /\ z <= x /\ y > 0
      BY <1>4, <2>2, AdjacentPages, AdjacentOrder, Zenon
    <2> HIDE DEF x, y, z, e
    <2>4. x + y - z = e - z /\ e - z > 0
      BY <2>1, <2>3
    <2> QED
      BY <2>4, Zenon DEF x, y, z, e
  <1>8. Bytes(M) = Bytes(a) /\ Bytes(a) = sum[n]
    BY <1>4, <1>6, <1>7, Zenon DEF Bytes
  <1>9. EstimatePageTableSize(d * PageBytes) \in Nat
    BY <1>4, <1>5, <1>7, EstimateFits
  <1>10. MemorySize(a) = sum[n] + EstimatePageTableSize(sum[n])
    BY <1>8, Zenon DEF MemorySize
  <1>11. MemorySize(a) \in Nat
    <2> DEFINE x == sum[n]
               y == EstimatePageTableSize(x)
    <2>1. MemorySize(a) = x + y /\ x \in Nat /\ y \in Nat
      BY <1>4, <1>9, <1>10, Zenon
    <2> HIDE DEF x, y
    <2> QED
      BY <2>1
  <1> QED
    BY <1>3, <1>4, <1>8, <1>11, Zenon DEF M, a

(* The steps before vmsh has memory in the VM, and those while it has.     *)
Early == {"new", "blk", "con", "kernel", "allocate"}
Placed == {"map", "walk", "load", "run", "restore", "free"}

(* The slots of the VM: KVM tells them apart by their ids. *)
SlotsInv ==
    /\ pc \in Steps /\ next <= Top
    /\ machine \in Machines /\ elf \in Images /\ failed \subseteq {"tables", "slot"}
    /\ known = machine.slots /\ known \subseteq slots /\ slots \subseteq Slots
    /\ pc \in Early => slots = known
    /\ \A s, t \in slots : s.id = t.id => s = t

(* vmsh's slot is one that was handed out, above all the hypervisor had,   *)
(* and is of the size that virt_alloc() asked for.                         *)
OursInv ==
    /\ \A s, t \in phys : s = t
    /\ pc \in Early => phys = {}
    /\ pc \in Placed => phys \subseteq slots
    /\ pc \in Placed => Fits(Allocs(elf))
    /\ \A s \in phys : /\ s.lo \in Nat /\ s.hi = s.lo + PageAlign(MemorySize(Allocs(elf)))
                       /\ \A k \in known : k.hi <= s.lo
    /\ pc = "done" => "slot" \in failed \/ Ours = {}

(* Of the guest's tables only those in old differ from what the guest has, *)
(* and old has them as they were.                                          *)
TablesInv ==
    /\ pc \in Early \cup {"map", "walk"} => tables = machine.tables /\ own = machine.tables /\ old = <<>>
    /\ DOMAIN own = DOMAIN machine.tables /\ DOMAIN own \subseteq DOMAIN tables
    /\ DOMAIN old \subseteq DOMAIN own
    /\ \A t \in DOMAIN old : old[t] = machine.tables[t]
    /\ pc \in {"load", "run", "restore"} => \A t \in DOMAIN own \ DOMAIN old : tables[t] = own[t]
    /\ pc \in {"free", "done"} => "tables" \in failed \/ \A t \in DOMAIN own :
          \/ tables[t] = own[t]
          \/ t \in DOMAIN old /\ tables[t] = machine.tables[t]

(* Where the new tables start. *)
TablesAt(s) == s.lo + Bytes(Allocs(elf))

(* What map_memory() has done so far, and when it returns. *)
MapInv ==
    /\ pc = "walk" => \A s \in phys : WalkInv(walk, tables, Root, KaslrStart, Asked(s), TablesAt(s))
    /\ MappedAsAsked

(* The inductive invariant. *)
GuestInv == AllocInv /\ SlotsInv /\ OursInv /\ TablesInv /\ MapInv

(* At the start. *)
LEMMA GuestInitial == Init => GuestInv
  <1> SUFFICES ASSUME Init
               PROVE  GuestInv
    OBVIOUS
  <1>0. /\ machine \in Machines /\ elf \in Images /\ AllocInit /\ known = machine.slots
        /\ pc = "new" /\ phys = {} /\ tables = machine.tables /\ own = tables /\ old = <<>> /\ failed = {}
    BY Zenon DEF Init
  <1>1. AllocInv
    BY <1>0, AllocInitial, Zenon
  <1>2. /\ next = Top /\ known \in GuestSlots /\ slots = known
    BY <1>0, Zenon DEF AllocInit
  <1>3. Top <= Top
    BY SpaceAssumption
  <1>4. SlotsInv
    <2>1. /\ known \subseteq Slots /\ \A s, t \in known : s.id = t.id => s = t
      BY <1>2, GuestSlotsAssumption, Zenon
    <2> QED
      BY <1>0, <1>2, <1>3, <2>1, Zenon DEF SlotsInv, Steps
  <1>5. OursInv
    BY <1>0, Zenon DEF OursInv, Early, Placed
  <1>6. DOMAIN old = {}
    BY <1>0
  <1>7. TablesInv
    BY <1>0, <1>6, Zenon DEF TablesInv, Early
  <1>8. MapInv
    BY <1>0, Zenon DEF MapInv, MappedAsAsked
  <1> QED
    BY <1>1, <1>4, <1>5, <1>7, <1>8, Zenon DEF GuestInv

(* The order of the steps that leave memory alone. *)
Goes ==
    \/ pc' = pc
    \/ pc \in Early /\ pc' \in Early \cup {"done"}
    \/ pc = "load" /\ pc' \in {"run", "restore"}
    \/ pc = "run" /\ pc' = "restore"

(* Neither tables nor mappings change. *)
SameTables == UNCHANGED <<machine, elf, phys, tables, own, old, maps, walk, failed>>

(* A step that leaves them alone keeps what is known of the tables. *)
LEMMA TablesSame ==
    ASSUME GuestInv, SameTables, Goes
    PROVE  TablesInv'
  <1>0. TablesInv
    BY Zenon DEF GuestInv
  <1>1. /\ machine' = machine /\ tables' = tables /\ own' = own /\ old' = old /\ failed' = failed
    BY Zenon DEF SameTables
  <1>2. /\ DOMAIN own' = DOMAIN machine'.tables /\ DOMAIN own' \subseteq DOMAIN tables'
        /\ DOMAIN old' \subseteq DOMAIN own'
        /\ \A t \in DOMAIN old' : old'[t] = machine'.tables[t]
    BY <1>0, <1>1, Zenon DEF TablesInv
  <1>3. CASE pc' = pc
    BY <1>0, <1>1, <1>2, <1>3, Zenon DEF TablesInv
  <1>4. CASE pc \in Early /\ pc' \in Early \cup {"done"}
    <2>1. tables = machine.tables /\ own = machine.tables /\ old = <<>>
      BY <1>0, <1>4, Zenon DEF TablesInv
    <2>2. pc' \notin {"load", "run", "restore"}
      BY <1>4, Zenon DEF Early
    <2>3. \A t \in DOMAIN own' : tables'[t] = own'[t]
      BY <1>1, <2>1, Zenon
    <2> QED
      BY <1>1, <1>2, <2>1, <2>2, <2>3, Zenon DEF TablesInv
  <1>5. CASE (pc = "load" /\ pc' \in {"run", "restore"}) \/ (pc = "run" /\ pc' = "restore")
    <2>1. pc \in {"load", "run", "restore"} /\ pc' \in {"run", "restore"}
      BY <1>5, Zenon
    <2>2. pc' \notin Early \cup {"map", "walk"} /\ pc' \notin {"free", "done"}
      BY <2>1, Zenon DEF Early
    <2>3. \A t \in DOMAIN own' \ DOMAIN old' : tables'[t] = own'[t]
      BY <1>0, <1>1, <2>1, Zenon DEF TablesInv
    <2> QED
      BY <1>2, <2>2, <2>3, Zenon DEF TablesInv
  <1> QED
    BY <1>3, <1>4, <1>5, Zenon DEF Goes

(* The same of the mappings. *)
LEMMA MapSame ==
    ASSUME GuestInv, SameTables, Goes, slots' = slots \/ pc # "load"
    PROVE  MapInv'
  <1>1. MapInv
    BY Zenon DEF GuestInv
  <1>2. /\ machine' = machine /\ elf' = elf /\ phys' = phys /\ tables' = tables /\ own' = own
        /\ maps' = maps /\ walk' = walk
    BY Zenon DEF SameTables
  <1>3. CASE pc' = pc
    <2>1. ASSUME pc' = "walk", NEW s \in phys'
          PROVE  WalkInv(walk', tables', Root', KaslrStart, Asked(s)', TablesAt(s)')
      <3>1. WalkInv(walk, tables, Root, KaslrStart, Asked(s), TablesAt(s))
        BY <1>1, <1>2, <1>3, <2>1, Zenon DEF MapInv
      <3>2. Asked(s)' = Asked(s) /\ TablesAt(s)' = TablesAt(s) /\ Root' = Root
        BY <1>2, Zenon DEF Asked, TablesAt, Root
      <3> QED
        BY <1>2, <3>1, <3>2, Zenon
    <2>2. MappedAsAsked'
      <3>1. CASE pc' # "load"
        BY <3>1, Zenon DEF MappedAsAsked
      <3>2. CASE pc' = "load"
        <4>1. Ours' = Ours /\ Root' = Root
          BY <1>2, <1>3, <3>2, Zenon DEF Ours, Root
        <4>2. MappedAsAsked /\ pc = "load"
          BY <1>1, <1>3, <3>2, Zenon DEF MapInv
        <4> QED
          BY <1>2, <4>1, <4>2, Zenon DEF MappedAsAsked
      <3> QED
        BY <3>1, <3>2, Zenon
    <2> QED
      BY <2>1, <2>2, Zenon DEF MapInv
  <1>4. CASE pc' # pc
    <2>1. pc' # "walk" /\ pc' # "load"
      BY <1>4, Zenon DEF Goes, Early
    <2> QED
      BY <2>1, Zenon DEF MapInv, MappedAsAsked
  <1> QED
    BY <1>3, <1>4, Zenon

(* A step that leaves tables and vmsh's memory alone; only the hypervisor  *)
(* may add memory.                                                         *)
LEMMA Stays ==
    ASSUME GuestInv, SameTables, Goes, next' <= Top, known' = known,
           slots' = slots \/ pc = "run",
           slots \subseteq slots', slots' \subseteq Slots, \A s, t \in slots' : s.id = t.id => s = t
    PROVE  SlotsInv' /\ OursInv' /\ TablesInv' /\ MapInv'
  <1>0. /\ machine' = machine /\ elf' = elf /\ phys' = phys /\ failed' = failed
    BY Zenon DEF SameTables
  <1>1. SlotsInv /\ OursInv
    BY Zenon DEF GuestInv
  <1>2. /\ pc' \in Early => pc \in Early
        /\ pc' \in Placed => pc \in Placed
        /\ pc' = "done" => pc = "done" \/ pc \in Early
        /\ pc = "run" => pc \notin Early /\ pc' \notin Early \cup {"done"}
    BY Zenon DEF Goes, Early, Placed
  <1>3. SlotsInv'
    <2>1. pc' \in Steps
      BY <1>1, Zenon DEF SlotsInv, Goes, Early, Steps
    <2>2. known' \subseteq slots' /\ (pc' \in Early => slots' = known')
      BY <1>1, <1>2, Zenon DEF SlotsInv
    <2> QED
      BY <1>0, <1>1, <2>1, <2>2, Zenon DEF SlotsInv
  <1>4. OursInv'
    <2>1. phys = {} => Ours' = {}
      BY <1>0, Zenon DEF Ours
    <2>2. slots' = slots => Ours' = Ours
      BY <1>0, Zenon DEF Ours
    <2>3. pc' = "done" => "slot" \in failed' \/ Ours' = {}
      BY <1>0, <1>1, <1>2, <2>1, <2>2, Zenon DEF OursInv
    <2> QED
      BY <1>0, <1>1, <1>2, <2>3, Zenon DEF OursInv
  <1>5. TablesInv' /\ MapInv'
    <2>1. slots' = slots \/ pc # "load"
      BY Zenon
    <2> QED
      BY <2>1, TablesSame, MapSame, Zenon
  <1> QED
    BY <1>3, <1>4, <1>5, Zenon

(* A step that changes neither tables nor slots. *)
LEMMA Quiet ==
    ASSUME GuestInv, SameTables, Goes, UNCHANGED allocVars
    PROVE  SlotsInv' /\ OursInv' /\ TablesInv' /\ MapInv'
  <1>1. next' = next /\ known' = known /\ slots' = slots
    BY Zenon DEF allocVars
  <1>2. next <= Top /\ slots \subseteq Slots /\ \A s, t \in slots : s.id = t.id => s = t
    BY Zenon DEF GuestInv, SlotsInv
  <1> QED
    BY <1>1, <1>2, Stays, Zenon


-----------------------------------------------------------------------------
(* Every step uses the allocator as it is meant to be used.                *)

(* What virt_alloc() asks for. *)
LEMMA SizeIsAsked ==
    ASSUME NEW image \in Images, Fits(Allocs(image))
    PROVE  /\ MemorySize(Allocs(image)) \in Sizes
           /\ MemorySize(Allocs(image)) \in Nat /\ MemorySize(Allocs(image)) > 0
  <1> DEFINE size == MemorySize(Allocs(image))
  <1>1. size \in Sizes
    BY SizesAssumption, Zenon
  <1> HIDE DEF size
  <1>2. size \in Nat /\ size > 0
    BY <1>1, SizeAssumption
  <1> QED
    BY <1>1, <1>2, Zenon DEF size

(* The destructor of PhysMem is a step of the allocator, or none. *)
LEMMA DropsAreSteps ==
    ASSUME NEW s, NEW errors, s \in Ours, DropMemory(s, errors)
    PROVE  [AllocNext]_allocVars
  <1>1. s \in slots
    BY Zenon DEF Ours
  <1> QED
    BY <1>1, Zenon DEF DropMemory, AllocNext

(* Every step is a step of the allocator, or leaves it alone. *)
LEMMA UsesAllocator ==
    ASSUME GuestInv, [Next]_vars
    PROVE  [AllocNext]_allocVars
  <1>0. elf \in Images
    BY Zenon DEF GuestInv, SlotsInv
  <1>1. ASSUME NEW here, NEW after, MmioRange(here, after)
        PROVE  [AllocNext]_allocVars
    <2>1. PageBytes \in Sizes /\ PageBytes % PageSize = 0
      <3>1. PageBytes \in Sizes /\ PageSize = PageBytes
        BY SizesAssumption, PageAssumption, Zenon
      <3>2. PageSize % PageSize = 0
        BY SpaceAssumption
      <3> QED
        BY <3>1, <3>2, Zenon
    <2> QED
      BY <1>1, <2>1, Zenon DEF MmioRange, AllocNext
  <1>2. ASSUME Allocate
        PROVE  [AllocNext]_allocVars
    <2>1. Fits(Allocs(elf)) => MemorySize(Allocs(elf)) \in Sizes
      BY <1>0, SizeIsAsked, Zenon
    <2> QED
      BY <1>2, <2>1, Zenon DEF Allocate, AllocNext
  <1>3. ASSUME NEW s \in Ours, BeginMap(s) \/ MapOnePage(s) \/ EndMap(s) \/ Free(s)
        PROVE  [AllocNext]_allocVars
    <2>1. CASE BeginMap(s) \/ MapOnePage(s)
      BY <2>1, Zenon DEF BeginMap, MapOnePage
    <2>2. CASE EndMap(s)
      BY <2>2, DropsAreSteps, Zenon DEF EndMap
    <2>3. CASE Free(s)
      BY <2>3, DropsAreSteps, Zenon DEF Free
    <2> QED
      BY <1>3, <2>1, <2>2, <2>3, Zenon
  <1>4. ASSUME HypervisorGrows
        PROVE  [AllocNext]_allocVars
    BY <1>4, Zenon DEF HypervisorGrows, AllocNext
  <1>5. ASSUME NewAllocator \/ FindKernel \/ LoadStage1 \/ GuestEdits \/ Detach \/ Restore
        PROVE  [AllocNext]_allocVars
    BY <1>5, Zenon DEF NewAllocator, FindKernel, LoadStage1, GuestEdits, Detach, Restore
  <1>6. ASSUME UNCHANGED vars
        PROVE  [AllocNext]_allocVars
    BY <1>6, Zenon DEF vars
  <1> QED
    BY <1>1, <1>2, <1>3, <1>4, <1>5, <1>6, Zenon DEF Next, Done


-----------------------------------------------------------------------------
(* The steps up to the allocation                                          *)

(* The invariant after a step, but for the allocator's part. *)
Kept == SlotsInv' /\ OursInv' /\ TablesInv' /\ MapInv'

(* Steps that only move on. *)
LEMMA MovesOnKeep ==
    ASSUME GuestInv, NewAllocator \/ FindKernel \/ LoadStage1 \/ Detach \/ UNCHANGED vars
    PROVE  Kept
  <1>1. CASE NewAllocator
    <2>1. SameTables /\ UNCHANGED allocVars
      BY <1>1, Zenon DEF NewAllocator, Untouched, SameTables, guestVars, loadVars
    <2>2. Goes
      BY <1>1, Zenon DEF NewAllocator, Goto, Goes, Early
    <2> QED
      BY <2>1, <2>2, Quiet, Zenon DEF Kept
  <1>2. CASE FindKernel
    <2>1. SameTables /\ UNCHANGED allocVars
      BY <1>2, Zenon DEF FindKernel, Untouched, SameTables, guestVars, loadVars
    <2>2. Goes
      BY <1>2, Zenon DEF FindKernel, Goto, Goes, Early
    <2> QED
      BY <2>1, <2>2, Quiet, Zenon DEF Kept
  <1>3. CASE LoadStage1
    <2>1. SameTables /\ UNCHANGED allocVars
      BY <1>3, Zenon DEF LoadStage1, SameTables, guestVars
    <2>2. Goes
      BY <1>3, Zenon DEF LoadStage1, Goto, Goes
    <2> QED
      BY <2>1, <2>2, Quiet, Zenon DEF Kept
  <1>4. CASE Detach
    <2>1. SameTables /\ UNCHANGED allocVars
      BY <1>4, Zenon DEF Detach, Untouched, SameTables, guestVars, loadVars
    <2>2. Goes
      BY <1>4, Zenon DEF Detach, Goto, Goes
    <2> QED
      BY <2>1, <2>2, Quiet, Zenon DEF Kept
  <1>5. CASE UNCHANGED vars
    <2>1. SameTables /\ UNCHANGED allocVars /\ Goes
      BY <1>5, Zenon DEF vars, SameTables, Goes
    <2> QED
      BY <2>1, Quiet, Zenon DEF Kept
  <1> QED
    BY <1>1, <1>2, <1>3, <1>4, <1>5, Zenon

(* An MMIO range, or none is left. *)
LEMMA MmioRangeKeeps ==
    ASSUME GuestInv, NEW here \in {"blk", "con"}, NEW after \in {"con", "kernel"}, MmioRange(here, after)
    PROVE  Kept
  <1>1. SameTables /\ Goes
    <2>1. SameTables
      BY Zenon DEF MmioRange, Untouched, SameTables, guestVars, loadVars
    <2>2. Goes
      BY Zenon DEF MmioRange, Goto, Goes, Early
    <2> QED
      BY <2>1, <2>2, Zenon
  <1>2. CASE UNCHANGED allocVars
    BY <1>1, <1>2, Quiet, Zenon DEF Kept
  <1>3. CASE AllocMmioRange(PageBytes)
    <2>1. next' = next - PageBytes /\ known' = known /\ slots' = slots
      BY <1>3, Zenon DEF AllocMmioRange
    <2>2. next <= Top /\ slots \subseteq Slots /\ \A s, t \in slots : s.id = t.id => s = t
      BY Zenon DEF GuestInv, SlotsInv
    <2>3. next \in Nat
      BY Zenon DEF GuestInv, AllocInv
    <2>4. next' <= Top
      BY <2>1, <2>2, <2>3, SpaceAssumption, PageBytesAssumption
    <2> QED
      BY <1>1, <2>1, <2>2, <2>4, Stays, Zenon DEF Kept
  <1> QED
    BY <1>2, <1>3, Zenon DEF MmioRange

(* The hypervisor adds memory. *)
LEMMA GrowsKeeps ==
    ASSUME GuestInv, HypervisorGrows
    PROVE  Kept
  <1>1. PICK s \in HvSlots : HypervisorAddsSlot(s)
    BY Zenon DEF HypervisorGrows
  <1>2. SameTables /\ Goes /\ pc = "run"
    BY Zenon DEF HypervisorGrows, Untouched, SameTables, guestVars, loadVars, Goes
  <1>3. /\ next' = next /\ known' = known /\ slots' = slots \cup {s}
        /\ \A t \in slots : t.id # s.id
    BY <1>1, Zenon DEF HypervisorAddsSlot, KvmAccepts
  <1>4. next <= Top /\ slots \subseteq Slots /\ \A t, u \in slots : t.id = u.id => t = u
    BY Zenon DEF GuestInv, SlotsInv
  <1>5. slots' \subseteq Slots
    BY <1>3, <1>4, HvSlotsAssumption, Zenon
  <1>6. \A t, u \in slots' : t.id = u.id => t = u
    BY <1>3, <1>4, Zenon
  <1> QED
    BY <1>2, <1>3, <1>4, <1>5, <1>6, Stays, Zenon DEF Kept

(* The new slot is free memory of the size asked for, with an id of its    *)
(* own.                                                                    *)
LEMMA SlotIsNew ==
    ASSUME GuestInv, pc \in Early, NEW size \in Nat, size > 0, PhysAlloc(size)
    PROVE  LET s == NewSlot(size)
           IN  /\ s \in Slots /\ s.hi = s.lo + PageAlign(size)
               /\ \A k \in known : k.hi <= s.lo
               /\ next' = s.lo /\ next' <= Top
  <1> DEFINE n == PageAlign(size)
             s == NewSlot(size)
  <1>1. n \in Nat /\ Aligned(n) /\ size <= n
    BY PageAlignAligns, Zenon
  <1>2. NextAddr(n) /\ next' = next - n
    BY Zenon DEF PhysAlloc
  <1>3. s = [id |-> GuessedId, lo |-> next - n, hi |-> next]
    BY Zenon DEF NewSlot
  <1> HIDE DEF n, s
  <1>4. AllocInv /\ next \in Nat /\ next <= Top
    BY Zenon DEF GuestInv, AllocInv, SlotsInv
  <1>5. n > 0
    BY <1>1
  <1>6. next - n \in Nat /\ next - n < next /\ \A k \in known : k.hi <= next - n
    BY <1>1, <1>2, <1>4, <1>5, NextAddrIsFree, Zenon
  <1>7. GuessedId \in Nat
    <2>1. slots = known /\ known \in GuestSlots
      BY Zenon DEF GuestInv, SlotsInv, AllocInv
    <2>2. Cardinality(slots) \in Nat
      BY <2>1, GuestSlotsAssumption, Zenon
    <2> QED
      BY <2>2, Zenon DEF GuessedId
  <1>8. s.lo = next - n /\ s.hi = next
    BY <1>3
  <1>9. s \in Slots
    <2> DEFINE i == GuessedId
               lo == next - n
    <2>1. i \in Nat /\ lo \in Nat /\ next \in Nat /\ s = [id |-> i, lo |-> lo, hi |-> next]
      BY <1>3, <1>4, <1>6, <1>7, Zenon
    <2> HIDE DEF i, lo
    <2> QED
      BY <2>1 DEF Slots
  <1>10. next = (next - n) + n /\ next - n <= Top
    BY <1>1, <1>4, SpaceAssumption
  <1> QED
    BY <1>2, <1>6, <1>8, <1>9, <1>10, Zenon DEF n, s

(* Memory for stage1, or none. *)
LEMMA AllocateKeeps ==
    ASSUME GuestInv, Allocate
    PROVE  Kept
  <1> DEFINE size == MemorySize(Allocs(elf))
             s == NewSlot(size)
  <1>0. SlotsInv /\ OursInv /\ TablesInv /\ pc = "allocate" /\ pc \in Early
    BY Zenon DEF GuestInv, Allocate, Early
  <1>u. /\ machine' = machine /\ elf' = elf /\ tables' = tables /\ own' = own /\ old' = old
        /\ maps' = maps /\ walk' = walk /\ failed' = failed
    BY Zenon DEF Allocate, Untouched, guestVars, loadVars
  <1>1. CASE UNCHANGED <<allocVars, phys>> /\ pc' = "done"
    <2>1. SameTables
      BY <1>1, <1>u, Zenon DEF SameTables
    <2>2. Goes
      BY <1>0, <1>1, Zenon DEF Goes
    <2> QED
      BY <1>1, <2>1, <2>2, Quiet, Zenon DEF Kept
  <1>2. CASE Fits(Allocs(elf)) /\ PhysAlloc(size) /\ phys' = {s} /\ pc' = "map"
    <2>1. elf \in Images
      BY <1>0, Zenon DEF SlotsInv
    <2>2. size \in Nat /\ size > 0
      BY <1>2, <2>1, SizeIsAsked, Zenon
    <2>3. /\ s \in Slots /\ s.hi = s.lo + PageAlign(size)
          /\ \A k \in known : k.hi <= s.lo
          /\ next' = s.lo /\ next' <= Top
      BY <1>0, <1>2, <2>2, SlotIsNew, Zenon
    <2>4. /\ known' = known /\ slots' = slots \cup {s} /\ \A t \in slots : t.id # s.id
      BY <1>2, Zenon DEF PhysAlloc, KvmAccepts
    <2>5. s.lo \in Nat
      BY <2>3 DEF Slots
    <2> HIDE DEF s
    <2>7. SlotsInv'
      <3>1. slots' \subseteq Slots /\ known' \subseteq slots' /\ \A t, u \in slots' : t.id = u.id => t = u
        BY <1>0, <2>3, <2>4, Zenon DEF SlotsInv
      <3>2. pc' \in Steps /\ pc' \notin Early
        BY <1>2, Zenon DEF Steps, Early
      <3> QED
        BY <1>0, <1>u, <2>3, <2>4, <3>1, <3>2, Zenon DEF SlotsInv
    <2>8. OursInv'
      <3>1. pc' \notin Early /\ pc' # "done"
        BY <1>2, Zenon DEF Early
      <3>2. phys' \subseteq slots' /\ \A t, u \in phys' : t = u
        BY <1>2, <2>4, Zenon
      <3>3. \A t \in phys' : /\ t.lo \in Nat /\ t.hi = t.lo + PageAlign(MemorySize(Allocs(elf')))
                             /\ \A k \in known' : k.hi <= t.lo
        BY <1>2, <1>u, <2>3, <2>4, <2>5, Zenon
      <3> QED
        BY <1>2, <1>u, <3>1, <3>2, <3>3, Zenon DEF OursInv
    <2>9. TablesInv'
      BY <1>0, <1>2, <1>u, Zenon DEF TablesInv
    <2>10. MapInv'
      BY <1>2, Zenon DEF MapInv, MappedAsAsked
    <2> QED
      BY <2>7, <2>8, <2>9, <2>10, Zenon DEF Kept
  <1> QED
    BY <1>1, <1>2, Zenon DEF Allocate, Goto


-----------------------------------------------------------------------------
(* map_memory()                                                            *)

(* The mappings that are asked for. *)
LEMMA AskedIsLaid ==
    ASSUME GuestInv, pc \in Placed, NEW s \in phys
    PROVE  /\ LaidOut(Asked(s), Allocs(elf), Offsets(Allocs(elf)), KaslrStart, s.lo)
           /\ Bytes(Asked(s)) = Bytes(Allocs(elf))
           /\ MemorySize(Allocs(elf)) \in Nat /\ Bytes(Allocs(elf)) \in Nat
           /\ s.lo \in Nat /\ s.hi = s.lo + PageAlign(MemorySize(Allocs(elf)))
  <1>1. /\ elf \in Images /\ Fits(Allocs(elf)) /\ s.lo \in Nat
        /\ s.hi = s.lo + PageAlign(MemorySize(Allocs(elf)))
    BY Zenon DEF GuestInv, SlotsInv, OursInv
  <1>2. /\ LaidOut(Mappings(Allocs(elf), s.lo), Allocs(elf), Offsets(Allocs(elf)), KaslrStart, s.lo)
        /\ Bytes(Mappings(Allocs(elf), s.lo)) = Bytes(Allocs(elf))
        /\ MemorySize(Allocs(elf)) \in Nat /\ Bytes(Allocs(elf)) \in Nat
    BY <1>1, MappingsAreLaid, Zenon
  <1> QED
    BY <1>1, <1>2, Zenon DEF Asked

(* The tables of the guest are below vmsh's memory. *)
LEMMA TablesBelow ==
    ASSUME GuestInv, pc \in {"map", "walk"}, NEW s \in phys
    PROVE  /\ Below(tables, TablesAt(s)) /\ WellFormed(tables, Root)
           /\ TablesPrivate(tables, Root, KaslrStart)
           /\ tables = machine.tables /\ own = machine.tables /\ TablesAt(s) \in Nat
           /\ \A t \in DOMAIN tables : t \in Nat /\ t < TablesAt(s)
  <1>1. machine \in Machines /\ known = machine.slots /\ known \subseteq Slots
    BY Zenon DEF GuestInv, SlotsInv
  <1>2. tables = machine.tables /\ own = machine.tables
    BY Zenon DEF GuestInv, TablesInv
  <1>3. /\ WellFormed(tables, Root) /\ TablesPrivate(tables, Root, KaslrStart)
        /\ \A t \in DOMAIN tables : \E k \in known : t < k.hi
    BY <1>1, <1>2, MachinesAssumption, Zenon DEF Root
  <1>4. DOMAIN tables \subseteq Nat /\ tables \in [DOMAIN tables -> Tables]
    BY <1>3, Zenon DEF WellFormed
  <1>5. pc \in Placed
    BY Zenon DEF Placed
  <1>6. Bytes(Allocs(elf)) \in Nat /\ s.lo \in Nat
    BY <1>5, AskedIsLaid, Zenon
  <1>7. \A k \in known : k.hi <= s.lo
    BY Zenon DEF GuestInv, OursInv
  <1>8. TablesAt(s) \in Nat /\ s.lo <= TablesAt(s)
    <2> DEFINE x == s.lo
               y == Bytes(Allocs(elf))
    <2>1. TablesAt(s) = x + y /\ x \in Nat /\ y \in Nat
      BY <1>6, Zenon DEF TablesAt
    <2> HIDE DEF x, y
    <2>2. x + y \in Nat /\ x <= x + y
      BY <2>1
    <2> QED
      BY <2>1, <2>2, Zenon DEF x
  <1>9. ASSUME NEW t \in DOMAIN tables
        PROVE  t \in Nat /\ t < TablesAt(s)
    <2>1. PICK k \in known : t < k.hi
      BY <1>3, Zenon
    <2>2. k.hi \in Nat
      <3>1. k \in Slots
        BY <1>1, Zenon
      <3> QED
        BY <3>1 DEF Slots
    <2> DEFINE x == s.lo
               y == TablesAt(s)
               z == k.hi
    <2>3. t \in Nat /\ t < z /\ z <= x /\ x <= y /\ x \in Nat /\ y \in Nat /\ z \in Nat
      BY <1>4, <1>6, <1>7, <1>8, <2>1, <2>2, Zenon
    <2> HIDE DEF x, y, z
    <2>4. t < y
      BY <2>3
    <2> QED
      BY <2>3, <2>4, Zenon DEF y
  <1> QED
    BY <1>2, <1>3, <1>4, <1>8, <1>9, Zenon DEF Below

(* Until the tables are written nothing but the walk changes. *)
LEMMA WalkKeeps ==
    ASSUME GuestInv, pc \in {"map", "walk"}, pc' = "walk",
           UNCHANGED <<allocVars, guestVars, phys, tables, own, old, loadVars, failed>>,
           \A s \in phys : WalkInv(walk', tables, Root, KaslrStart, Asked(s), TablesAt(s))
    PROVE  Kept
  <1>0. SlotsInv /\ OursInv /\ TablesInv
    BY Zenon DEF GuestInv
  <1>1. /\ machine' = machine /\ elf' = elf /\ tables' = tables /\ own' = own /\ old' = old
        /\ failed' = failed /\ phys' = phys /\ next' = next /\ known' = known /\ slots' = slots
    BY Zenon DEF guestVars, allocVars
  <1>2. pc \in Placed /\ pc' \in Placed /\ pc' \in Steps /\ pc' \notin Early /\ pc' # "done"
    BY Zenon DEF Placed, Steps, Early
  <1>3. SlotsInv'
    BY <1>0, <1>1, <1>2, Zenon DEF SlotsInv
  <1>4. OursInv'
    BY <1>0, <1>1, <1>2, Zenon DEF OursInv
  <1>5. TablesInv'
    BY <1>0, <1>1, Zenon DEF TablesInv
  <1>6. MapInv'
    <2>1. Root' = Root
      BY <1>1, Zenon DEF Root
    <2>2. ASSUME NEW s \in phys'
          PROVE  WalkInv(walk', tables', Root', KaslrStart, Asked(s)', TablesAt(s)')
      <3>1. Asked(s)' = Asked(s) /\ TablesAt(s)' = TablesAt(s)
        BY <1>1, Zenon DEF Asked, TablesAt
      <3>2. WalkInv(walk', tables, Root, KaslrStart, Asked(s), TablesAt(s))
        BY <1>1, Zenon
      <3> QED
        BY <1>1, <2>1, <3>1, <3>2, Zenon
    <2>3. MappedAsAsked'
      BY Zenon DEF MappedAsAsked
    <2> QED
      BY <2>2, <2>3, Zenon DEF MapInv
  <1> QED
    BY <1>3, <1>4, <1>5, <1>6, Zenon DEF Kept

(* map_memory() begins with the pml4. *)
LEMMA BeginMapKeeps ==
    ASSUME GuestInv, NEW s \in Ours, BeginMap(s)
    PROVE  Kept
  <1>1. /\ pc = "map" /\ pc' = "walk" /\ walk' = StartMapping(tables, known, Root, Asked(s))
        /\ UNCHANGED <<allocVars, guestVars, phys, tables, own, old, loadVars, failed>>
    BY Zenon DEF BeginMap, Goto
  <1>2. s \in phys /\ pc \in Placed /\ pc \in {"map", "walk"} /\ \A t \in phys : t = s
    BY <1>1, Zenon DEF Ours, Placed, GuestInv, OursInv
  <1>3. /\ Below(tables, TablesAt(s)) /\ WellFormed(tables, Root)
        /\ TablesPrivate(tables, Root, KaslrStart)
    BY <1>2, TablesBelow, Zenon
  <1>4. LaidOut(Asked(s), Allocs(elf), Offsets(Allocs(elf)), KaslrStart, s.lo)
    BY <1>2, AskedIsLaid, Zenon
  <1> DEFINE M == Asked(s)
  <1>5. Laid(M, KaslrStart) /\ M[Len(M)].phys + M[Len(M)].len = TablesAt(s)
    BY <1>4, Zenon DEF LaidOut, TablesAt, Bytes
  <1>6. KaslrStart \in Pages
    BY KaslrAssumption, Zenon
  <1> HIDE DEF M
  <1>7. WalkInv(StartMapping(tables, known, Root, M), tables, Root, KaslrStart, M, TablesAt(s))
    BY <1>3, <1>5, <1>6, WalkStart, Zenon
  <1>8. \A t \in phys : WalkInv(walk', tables, Root, KaslrStart, Asked(t), TablesAt(t))
    BY <1>1, <1>2, <1>7, Zenon DEF M
  <1> QED
    BY <1>1, <1>2, <1>8, WalkKeeps, Zenon

(* It maps page after page, in copies. *)
LEMMA MapOnePageKeeps ==
    ASSUME GuestInv, NEW s \in Ours, MapOnePage(s)
    PROVE  Kept
  <1> DEFINE M == Asked(s)
  <1>1. /\ pc = "walk" /\ pc' = "walk" /\ walk' = MapNext(walk, tables, known, Root, M)
        /\ walk.ok /\ walk.m <= Len(M)
        /\ UNCHANGED <<allocVars, guestVars, phys, tables, own, old, loadVars, failed>>
    BY Zenon DEF MapOnePage, MapsLeft
  <1>2. s \in phys /\ pc \in Placed /\ pc \in {"map", "walk"} /\ \A t \in phys : t = s
    BY <1>1, Zenon DEF Ours, Placed, GuestInv, OursInv
  <1>3. Below(tables, TablesAt(s))
    BY <1>2, TablesBelow, Zenon
  <1>4. Laid(M, KaslrStart)
    BY <1>2, AskedIsLaid, Zenon DEF LaidOut
  <1>5. WalkInv(walk, tables, Root, KaslrStart, M, TablesAt(s))
    BY <1>1, <1>2, Zenon DEF GuestInv, MapInv
  <1>6. KaslrStart \in Pages
    BY KaslrAssumption, Zenon
  <1> HIDE DEF M
  <1>7. WalkInv(MapNext(walk, tables, known, Root, M), tables, Root, KaslrStart, M, TablesAt(s))
    BY <1>1, <1>3, <1>4, <1>5, <1>6, WalkStep, Zenon
  <1>8. \A t \in phys : WalkInv(walk', tables, Root, KaslrStart, Asked(t), TablesAt(t))
    BY <1>1, <1>2, <1>7, Zenon DEF M
  <1> QED
    BY <1>1, <1>2, <1>8, WalkKeeps, Zenon


-----------------------------------------------------------------------------
(* The end: what is written back, and the slot                             *)

(* The destructor of PhysMem deletes vmsh's slot only: ids differ, and no  *)
(* slot that the hypervisor had is above it.                               *)
LEMMA DropKeeps ==
    ASSUME GuestInv, NEW s \in Ours, NEW errors \in SUBSET {"tables", "slot"}, DropMemory(s, errors),
           pc \in Placed, pc' = "done", UNCHANGED <<guestVars, phys>>
    PROVE  /\ SlotsInv' /\ OursInv' /\ failed \subseteq failed' /\ errors \subseteq failed'
  <1>0. SlotsInv /\ OursInv /\ AllocInv
    BY Zenon DEF GuestInv
  <1>1. /\ machine' = machine /\ elf' = elf /\ phys' = phys
    BY Zenon DEF guestVars
  <1>2. s \in slots /\ s \in phys /\ \A t \in phys : t = s
    BY <1>0, Zenon DEF Ours, OursInv
  <1>3. pc' \in Steps /\ pc' \notin Early /\ pc' \notin Placed
    BY Zenon DEF Steps, Early, Placed
  <1>4. CASE DropPhysMem(s) /\ failed' = failed \cup errors
    <2>1. next' = next /\ known' = known /\ slots' = {t \in slots : t.id # s.id}
      BY <1>4, Zenon DEF DropPhysMem
    <2>2. ASSUME NEW k \in known
          PROVE  k \in slots'
      <3>1. k \in slots /\ k \in Slots /\ k.lo < k.hi /\ k.hi <= s.lo
        BY <1>0, <1>2, GuestSlotsAssumption, Zenon DEF SlotsInv, OursInv, AllocInv
      <3>2. SUFFICES ASSUME k = s
                     PROVE  FALSE
        BY <1>0, <1>2, <2>1, <3>1, Zenon DEF SlotsInv
      <3>3. k.lo \in Nat /\ k.hi \in Nat
        BY <3>1 DEF Slots
      <3> DEFINE x == k.lo
                 y == k.hi
      <3>4. x \in Nat /\ y \in Nat /\ x < y /\ y <= x
        BY <3>1, <3>2, <3>3, Zenon
      <3> HIDE DEF x, y
      <3> QED
        BY <3>4
    <2>3. SlotsInv'
      <3>1. slots' \subseteq slots
        BY <2>1, Zenon
      <3> QED
        BY <1>0, <1>1, <1>3, <1>4, <2>1, <2>2, <3>1, Zenon DEF SlotsInv
    <2>4. Ours' = {}
      BY <1>1, <1>2, <2>1, Zenon DEF Ours
    <2>5. OursInv'
      BY <1>0, <1>1, <1>3, <2>1, <2>4, Zenon DEF OursInv
    <2> QED
      BY <1>4, <2>3, <2>5, Zenon
  <1>5. CASE UNCHANGED allocVars /\ failed' = failed \cup errors \cup {"slot"}
    <2>1. next' = next /\ known' = known /\ slots' = slots /\ "slot" \in failed'
      BY <1>5, Zenon DEF allocVars
    <2>2. SlotsInv'
      BY <1>0, <1>1, <1>3, <1>5, <2>1, Zenon DEF SlotsInv
    <2>3. OursInv'
      BY <1>0, <1>1, <1>3, <2>1, Zenon DEF OursInv
    <2> QED
      BY <1>5, <2>2, <2>3, Zenon
  <1> QED
    BY <1>4, <1>5, Zenon DEF DropMemory

(* Steps that keep slots while they write tables. *)
LEMMA WritesKeep ==
    ASSUME GuestInv, UNCHANGED <<allocVars, guestVars, phys>>, pc \in Placed, pc' \in Placed,
           failed' \subseteq {"tables", "slot"}
    PROVE  SlotsInv' /\ OursInv'
  <1>0. SlotsInv /\ OursInv
    BY Zenon DEF GuestInv
  <1>1. /\ machine' = machine /\ elf' = elf /\ phys' = phys
        /\ next' = next /\ known' = known /\ slots' = slots
    BY Zenon DEF guestVars, allocVars
  <1>2. pc' \in Steps /\ pc' \notin Early /\ pc' # "done"
    BY Zenon DEF Placed, Steps, Early
  <1> QED
    BY <1>0, <1>1, <1>2, Zenon DEF SlotsInv, OursInv

(* The tables of a function that are written over another. *)
LEMMA OnlyIs ==
    ASSUME NEW f, NEW S
    PROVE  DOMAIN Only(f, S) = S /\ \A a \in S : Only(f, S)[a] = f[a]
  BY DEF Only

(* To write all tables of f is to write f. *)
LEMMA OnlyAll ==
    ASSUME NEW f, NEW g
    PROVE  Over(Only(f, DOMAIN f), g) = Over(f, g)
  <1>1. DOMAIN Only(f, DOMAIN f) = DOMAIN f /\ \A a \in DOMAIN f : Only(f, DOMAIN f)[a] = f[a]
    BY OnlyIs, Zenon
  <1> DEFINE h == Only(f, DOMAIN f)
  <1> HIDE DEF h
  <1>2. DOMAIN h = DOMAIN f /\ \A a \in DOMAIN f : h[a] = f[a]
    BY <1>1, Zenon DEF h
  <1>3. Over(h, g) = Over(f, g)
    BY <1>2 DEF Over
  <1> QED
    BY <1>3, Zenon DEF h

(* The destructor of VirtMem. *)
LEMMA RestoreKeeps ==
    ASSUME GuestInv, Restore
    PROVE  Kept
  <1>0. TablesInv
    BY Zenon DEF GuestInv
  <1>1. /\ pc = "restore" /\ pc' = "free" /\ machine' = machine /\ own' = own /\ old' = old
        /\ UNCHANGED <<allocVars, guestVars, phys>>
    BY Zenon DEF Restore, Goto, guestVars
  <1>2. PICK S \in SUBSET DOMAIN old : /\ tables' = Over(Only(old, S), tables)
                                       /\ failed' \subseteq failed \cup {"tables"}
                                       /\ failed \subseteq failed'
                                       /\ "tables" \in failed' \/ S = DOMAIN old
    <2>1. CASE tables' = Over(old, tables) /\ failed' = failed
      <3>1. tables' = Over(Only(old, DOMAIN old), tables)
        BY <2>1, OnlyAll, Zenon
      <3> QED
        BY <2>1, <3>1, Zenon
    <2>2. CASE /\ \E S \in SUBSET DOMAIN old : tables' = Over(Only(old, S), tables)
               /\ failed' = failed \cup {"tables"}
      BY <2>2, Zenon
    <2> QED
      BY <2>1, <2>2, Zenon DEF Restore
  <1>3. SlotsInv' /\ OursInv'
    <2>1. pc \in Placed /\ pc' \in Placed
      BY <1>1, Zenon DEF Placed
    <2>2. failed' \subseteq {"tables", "slot"}
      BY <1>2, Zenon DEF GuestInv, SlotsInv
    <2> QED
      BY <1>1, <2>1, <2>2, WritesKeep, Zenon
  <1>4. /\ DOMAIN tables' = S \cup DOMAIN tables
        /\ \A t \in S : tables'[t] = old[t]
        /\ \A t \in DOMAIN tables : t \notin S => tables'[t] = tables[t]
    <2> DEFINE f == Only(old, S)
    <2>1. DOMAIN f = S /\ \A t \in S : f[t] = old[t]
      BY OnlyIs, Zenon
    <2> HIDE DEF f
    <2>2. IsOver(tables', f, tables)
      BY <1>2, OverIs, Zenon DEF f
    <2> QED
      BY <2>1, <2>2, Zenon DEF IsOver
  <1>5. TablesInv'
    <2>1. /\ DOMAIN own = DOMAIN machine.tables /\ DOMAIN own \subseteq DOMAIN tables
          /\ DOMAIN old \subseteq DOMAIN own /\ \A t \in DOMAIN old : old[t] = machine.tables[t]
          /\ \A t \in DOMAIN own \ DOMAIN old : tables[t] = own[t]
      BY <1>0, <1>1, Zenon DEF TablesInv
    <2>2. S = DOMAIN old => \A t \in DOMAIN own :
             tables'[t] = own[t] \/ (t \in DOMAIN old /\ tables'[t] = machine.tables[t])
      BY <1>4, <2>1, Zenon
    <2>3. DOMAIN own' \subseteq DOMAIN tables'
      BY <1>1, <1>4, <2>1, Zenon
    <2>4. pc' \notin Early \cup {"map", "walk"} /\ pc' \notin {"load", "run", "restore"}
      BY <1>1, Zenon DEF Early
    <2> QED
      BY <1>1, <1>2, <2>1, <2>2, <2>3, <2>4, Zenon DEF TablesInv
  <1>6. MapInv'
    BY <1>1, Zenon DEF MapInv, MappedAsAsked
  <1> QED
    BY <1>3, <1>5, <1>6, Zenon DEF Kept

(* At the end the slot is deleted. *)
LEMMA FreeKeeps ==
    ASSUME GuestInv, NEW s \in Ours, Free(s)
    PROVE  Kept
  <1>1. /\ pc = "free" /\ pc' = "done" /\ DropMemory(s, {}) /\ machine' = machine /\ own' = own
        /\ old' = old /\ tables' = tables /\ UNCHANGED <<guestVars, phys>>
    BY Zenon DEF Free, Goto, guestVars
  <1>2. SlotsInv' /\ OursInv' /\ failed \subseteq failed'
    <2>1. pc \in Placed /\ {} \in SUBSET {"tables", "slot"}
      BY <1>1, Zenon DEF Placed
    <2> QED
      BY <1>1, <2>1, DropKeeps, Zenon
  <1>3. TablesInv'
    <2>1. TablesInv
      BY Zenon DEF GuestInv
    <2>2. pc' \notin Early \cup {"map", "walk"} /\ pc' \notin {"load", "run", "restore"}
      BY <1>1, Zenon DEF Early
    <2> QED
      BY <1>1, <1>2, <2>1, <2>2, Zenon DEF TablesInv
  <1>4. MapInv'
    BY <1>1, Zenon DEF MapInv, MappedAsAsked
  <1> QED
    BY <1>2, <1>3, <1>4, Zenon DEF Kept

(* The guest changes an entry: of its memory, and of what it would have    *)
(* had without vmsh.                                                       *)
LEMMA GuestEditsKeeps ==
    ASSUME GuestInv, GuestEdits
    PROVE  Kept
  <1>0. TablesInv
    BY Zenon DEF GuestInv
  <1>1. /\ pc = "run" /\ pc' = "run" /\ machine' = machine /\ old' = old /\ failed' = failed
        /\ UNCHANGED <<allocVars, guestVars, phys>>
    BY Zenon DEF GuestEdits, guestVars
  <1> DEFINE E(t, i) ==
               CASE own[t][i].kind = "page" -> NoEntry
                 [] own[t][i].kind # "page" /\ t # Root -> Entry("page", Root, "rw")
                 [] own[t][i].kind # "page" /\ t = Root -> Entry("table", Spare, "-")
  <1>2. PICK t \in LeafTables \cup {Root}, i \in 0 .. EntryCount - 1 :
          tables' = [tables EXCEPT ![t][i] = E(t, i)] /\ own' = [own EXCEPT ![t][i] = E(t, i)]
    BY Zenon DEF GuestEdits
  <1> HIDE DEF E
  <1>3. PICK e : tables' = [tables EXCEPT ![t][i] = e] /\ own' = [own EXCEPT ![t][i] = e]
    BY <1>2, Zenon
  <1>4. /\ DOMAIN own = DOMAIN machine.tables /\ DOMAIN own \subseteq DOMAIN tables
        /\ DOMAIN old \subseteq DOMAIN own /\ \A u \in DOMAIN old : old[u] = machine.tables[u]
        /\ \A u \in DOMAIN own \ DOMAIN old : tables[u] = own[u]
    BY <1>0, <1>1, Zenon DEF TablesInv
  <1>5. DOMAIN own' = DOMAIN own /\ DOMAIN tables' = DOMAIN tables
    BY <1>3
  <1>6. \A u \in DOMAIN own : tables[u] = own[u] => tables'[u] = own'[u]
    BY <1>3, <1>4
  <1>7. SlotsInv' /\ OursInv'
    <2>1. pc \in Placed /\ pc' \in Placed
      BY <1>1, Zenon DEF Placed
    <2>2. failed' \subseteq {"tables", "slot"}
      BY <1>1, Zenon DEF GuestInv, SlotsInv
    <2> QED
      BY <1>1, <2>1, <2>2, WritesKeep, Zenon
  <1>8. TablesInv'
    <2>1. pc' \notin Early \cup {"map", "walk"} /\ pc' \notin {"free", "done"}
      BY <1>1, Zenon DEF Early
    <2> QED
      BY <1>1, <1>4, <1>5, <1>6, <2>1, Zenon DEF TablesInv
  <1>9. MapInv'
    BY <1>1, Zenon DEF MapInv, MappedAsAsked
  <1> QED
    BY <1>7, <1>8, <1>9, Zenon DEF Kept


(* map_memory() has gone through all pages: the tables with its changes    *)
(* translate as asked, and what it added is in the room for tables.        *)
LEMMA WalkIsDone ==
    ASSUME GuestInv, pc = "walk", NEW s \in phys, walk.ok, ~MapsLeft(s)
    PROVE  LET M == Asked(s)
           IN  /\ \A i \in 1 .. Len(M), u \in Pages : HasPage(M, i, u) =>
                     /\ Translate(tables, Root, u) = Unmapped
                     /\ Translate(View(walk, tables), Root, u) = Goal(M, i, u)
               /\ \A u \in Pages : (\A i \in 1 .. Len(M) : ~HasPage(M, i, u)) =>
                     Translate(View(walk, tables), Root, u) = Translate(tables, Root, u)
               /\ \A i \in 1 .. Len(M) : M[i].prot \in Prots
               /\ walk.old \subseteq DOMAIN tables
               /\ \A t \in DOMAIN walk.up : t \notin walk.old => TablesAt(s) <= t /\ t + PageBytes <= s.hi
  <1> DEFINE M == Asked(s)
             lo == TablesAt(s)
             a == Allocs(elf)
             n == End(M) - M[1].virt
  <1>1. pc \in Placed /\ pc \in {"map", "walk"} /\ ~(walk.m <= Len(M))
    BY Zenon DEF Placed, MapsLeft
  <1>2. Below(tables, lo) /\ lo \in Nat
    BY <1>1, TablesBelow, Zenon
  <1>3. /\ LaidOut(M, a, Offsets(a), KaslrStart, s.lo) /\ MemorySize(a) \in Nat /\ Bytes(a) \in Nat
        /\ s.lo \in Nat /\ s.hi = s.lo + PageAlign(MemorySize(a))
    BY <1>1, AskedIsLaid, Zenon
  <1>4. WalkInv(walk, tables, Root, KaslrStart, M, lo)
    BY Zenon DEF GuestInv, MapInv
  <1>5. KaslrStart \in Pages
    BY KaslrAssumption, Zenon
  <1>6. Laid(M, KaslrStart) /\ Bytes(a) = n * PageBytes /\ \A i \in 1 .. Len(M) : M[i].prot \in Prots
    BY <1>3, Zenon DEF LaidOut, Bytes, Laid
  <1>t. lo = s.lo + Bytes(a)
    BY Zenon DEF TablesAt
  <1> HIDE DEF M, lo
  <1>7. /\ \A i \in 1 .. Len(M), u \in Pages : HasPage(M, i, u) =>
              /\ Translate(tables, Root, u) = Unmapped
              /\ Translate(View(walk, tables), Root, u) = Goal(M, i, u)
        /\ \A u \in Pages : (\A i \in 1 .. Len(M) : ~HasPage(M, i, u)) =>
              Translate(View(walk, tables), Root, u) = Translate(tables, Root, u)
        /\ walk.pt <= lo + EstimatePageTableSize(n * PageBytes)
        /\ n \in Nat /\ n > 0
    <2> DEFINE Ended(w, T, r) ==
                 /\ \A i \in 1 .. Len(M), u \in Pages : HasPage(M, i, u) =>
                       /\ Translate(T, r, u) = Unmapped
                       /\ Translate(View(w, T), r, u) = Goal(M, i, u)
                 /\ \A u \in Pages : (\A i \in 1 .. Len(M) : ~HasPage(M, i, u)) =>
                       Translate(View(w, T), r, u) = Translate(T, r, u)
                 /\ n \in Nat /\ n > 0
                 /\ w.pt <= lo + EstimatePageTableSize(n * PageBytes)
    <2>1. ASSUME NEW w, NEW T, NEW r, Below(T, lo), WalkInv(w, T, r, KaslrStart, M, lo), w.ok,
                 ~(w.m <= Len(M))
          PROVE  Ended(w, T, r)
      BY <1>5, <1>6, <2>1, WalkEnd, Zenon
    <2>2. Ended(walk, tables, Root)
      <3> HIDE DEF Ended
      <3> QED
        BY <1>1, <1>2, <1>4, <2>1, Zenon
    <2> QED
      BY <2>2, Zenon
  <1>8. /\ walk.old \subseteq DOMAIN tables /\ walk.pt \in Nat
        /\ \A t \in DOMAIN walk.up : t \in walk.old \/ (lo <= t /\ t + PageBytes <= walk.pt)
        /\ DOMAIN View(walk, tables) \subseteq Nat
    BY <1>4, Zenon DEF WalkInv, WalkOK, WellFormed
  <1>9. walk.pt <= s.hi /\ s.hi \in Nat
    <2> DEFINE x == s.lo
               b == Bytes(a)
               e == EstimatePageTableSize(b)
               m == MemorySize(a)
               p == PageAlign(m)
               h == s.hi
               q == walk.pt
    <2>1. q <= lo + e /\ m = b + e /\ lo = x + b /\ h = x + p
      BY <1>3, <1>6, <1>7, <1>t, Zenon DEF MemorySize
    <2>2. x \in Nat /\ b \in Nat /\ m \in Nat /\ q \in Nat
      BY <1>3, <1>8, Zenon
    <2>3. p \in Nat /\ m <= p
      BY <2>2, PageAlignAligns, Zenon
    <2>4. e \in Nat
      <3>1. EstimatePageTableSize(n * PageBytes) \in Nat
        BY <1>7, EstimateFits, Zenon
      <3> QED
        BY <1>6, <3>1, Zenon
    <2> HIDE DEF x, b, e, m, p, h, q
    <2>5. q <= h /\ h \in Nat
      BY <2>1, <2>2, <2>3, <2>4
    <2> QED
      BY <2>5, Zenon DEF q, h
  <1>10. ASSUME NEW t \in DOMAIN walk.up, t \notin walk.old
         PROVE  lo <= t /\ t + PageBytes <= s.hi
    <2> DEFINE q == walk.pt
               h == s.hi
    <2>1. lo <= t /\ t + PageBytes <= q /\ q <= h /\ q \in Nat /\ h \in Nat /\ t \in Nat
      <3>1. t \in DOMAIN View(walk, tables)
        <4>1. IsOver(View(walk, tables), walk.up, tables)
          BY OverIs, Zenon DEF View
        <4> QED
          BY <4>1, Zenon DEF IsOver
      <3> QED
        BY <1>8, <1>9, <1>10, <3>1, Zenon
    <2> HIDE DEF q, h
    <2>2. t + PageBytes <= h
      BY <2>1, PageBytesAssumption
    <2> QED
      BY <2>1, <2>2, Zenon DEF h
  <1> QED
    BY <1>6, <1>7, <1>8, <1>10, Zenon DEF M, lo

(* commit_page_tables() writes all of them. *)
LEMMA CommitKeeps ==
    ASSUME GuestInv, pc = "walk", NEW s \in Ours, walk.ok, ~MapsLeft(s),
           Commit(DOMAIN walk.up), old' = Only(tables, walk.old), maps' = Asked(s), pc' = "load",
           UNCHANGED <<allocVars, guestVars, phys, own, failed>>
    PROVE  Kept
  <1> DEFINE M == Asked(s)
             lo == TablesAt(s)
  <1>1. s \in phys /\ pc \in {"map", "walk"} /\ pc \in Placed /\ pc' \in Placed
    BY Zenon DEF Ours, Placed
  <1>2. /\ machine' = machine /\ elf' = elf /\ phys' = phys /\ slots' = slots /\ own' = own
        /\ failed' = failed /\ Root' = Root /\ Ours' = Ours
    BY Zenon DEF guestVars, allocVars, Root, Ours
  <1>3. /\ \A i \in 1 .. Len(M), u \in Pages : HasPage(M, i, u) =>
              /\ Translate(tables, Root, u) = Unmapped
              /\ Translate(View(walk, tables), Root, u) = Goal(M, i, u)
        /\ \A u \in Pages : (\A i \in 1 .. Len(M) : ~HasPage(M, i, u)) =>
              Translate(View(walk, tables), Root, u) = Translate(tables, Root, u)
        /\ \A i \in 1 .. Len(M) : M[i].prot \in Prots
        /\ walk.old \subseteq DOMAIN tables
        /\ \A t \in DOMAIN walk.up : t \notin walk.old => lo <= t /\ t + PageBytes <= s.hi
    BY <1>1, WalkIsDone, Zenon
  <1>4. /\ tables = machine.tables /\ own = machine.tables /\ lo \in Nat
        /\ \A t \in DOMAIN tables : t \in Nat /\ t < lo
    BY <1>1, TablesBelow, Zenon
  <1>5. tables' = View(walk, tables)
    BY OnlyAll, Zenon DEF Commit, View
  <1>6. /\ DOMAIN tables' = DOMAIN walk.up \cup DOMAIN tables
        /\ \A t \in DOMAIN tables : t \notin DOMAIN walk.up => tables'[t] = tables[t]
    <2>1. IsOver(View(walk, tables), walk.up, tables)
      BY OverIs, Zenon DEF View
    <2>2. IsOver(tables', walk.up, tables)
      BY <1>5, <2>1, Zenon
    <2> QED
      BY <2>2, Zenon DEF IsOver
  <1>7. SlotsInv' /\ OursInv'
    <2>1. failed' \subseteq {"tables", "slot"} /\ UNCHANGED <<allocVars, guestVars, phys>>
      BY <1>2, Zenon DEF GuestInv, SlotsInv
    <2> QED
      BY <1>1, <2>1, WritesKeep, Zenon
  <1>8. TablesInv'
    <2>1. DOMAIN old' = walk.old /\ \A t \in walk.old : old'[t] = tables[t]
      BY OnlyIs, Zenon
    <2>2. ASSUME NEW t \in DOMAIN own, t \notin walk.old
          PROVE  tables'[t] = own[t]
      <3>1. t \in DOMAIN tables /\ t \in Nat /\ t < lo
        BY <1>4, Zenon
      <3>2. ~(lo <= t)
        BY <1>4, <3>1
      <3> QED
        BY <1>3, <1>4, <1>6, <2>2, <3>1, <3>2, Zenon
    <2>3. pc' \notin Early \cup {"map", "walk"} /\ pc' \notin {"free", "done"}
      BY Zenon DEF Early
    <2> QED
      BY <1>2, <1>3, <1>4, <1>6, <2>1, <2>2, <2>3, Zenon DEF TablesInv
  <1>9. ASSUME NEW v \in Pages
        PROVE  IF MappedBy(M, v) = Unmapped
               THEN Translate(tables', Root, v) = Translate(own, Root, v)
               ELSE Translate(own, Root, v) = Unmapped /\ Translate(tables', Root, v) = MappedBy(M, v)
    <2> DEFINE hits == {i \in 1 .. Len(M) : HasPage(M, i, v)}
               j == CHOOSE i \in hits : TRUE
    <2>1. MappedBy(M, v) = IF hits = {} THEN Unmapped ELSE Goal(M, j, v)
      BY Zenon DEF MappedBy, HasPage, PagesIn, Goal
    <2>2. CASE hits = {}
      <3>1. MappedBy(M, v) = Unmapped
        BY <2>1, <2>2, Zenon
      <3>2. \A i \in 1 .. Len(M) : ~HasPage(M, i, v)
        BY <2>2, Zenon
      <3> QED
        BY <1>3, <1>4, <1>5, <3>1, <3>2, Zenon
    <2>3. CASE hits # {}
      <3>1. j \in hits
        BY <2>3, Zenon
      <3>2. j \in 1 .. Len(M) /\ HasPage(M, j, v) /\ MappedBy(M, v) = Goal(M, j, v)
        BY <2>1, <2>3, <3>1, Zenon
      <3> HIDE DEF j
      <3>3. M[j].prot \in Prots
        BY <1>3, <3>2, Zenon
      <3>4. Goal(M, j, v).prot = M[j].prot /\ Unmapped.prot = "none"
        BY DEF Goal, Unmapped
      <3>5. "none" \notin Prots
        BY DEF Prots
      <3>6. MappedBy(M, v) # Unmapped
        BY <3>2, <3>3, <3>4, <3>5, Zenon
      <3> QED
        BY <1>3, <1>4, <1>5, <3>2, <3>6, Zenon
    <2> QED
      BY <2>2, <2>3, Zenon
  <1>10. ASSUME NEW t \in DOMAIN tables' \ DOMAIN own
         PROVE  lo <= t /\ t + PageBytes <= s.hi
    <2>1. t \in DOMAIN walk.up /\ t \notin walk.old
      BY <1>3, <1>4, <1>6, Zenon
    <2> QED
      BY <1>3, <2>1, Zenon
  <1>11. lo = s.lo + Bytes(M)
    BY <1>1, AskedIsLaid, Zenon DEF TablesAt
  <1>12. MapInv'
    <2>1. maps' = M
      BY Zenon
    <2> HIDE DEF M, lo
    <2>2. \A t \in DOMAIN tables' \ DOMAIN own' : \E k \in Ours' :
             k.lo + Bytes(maps') <= t /\ t + PageBytes <= k.hi
      BY <1>2, <1>10, <1>11, <2>1, Zenon
    <2>3. MappedAsAsked'
      BY <1>2, <1>9, <2>1, <2>2, Zenon DEF MappedAsAsked
    <2> QED
      BY <2>3, Zenon DEF MapInv
  <1> QED
    BY <1>7, <1>8, <1>12, Zenon DEF Kept


(* Some were written, or none: vmsh ends, and its memory goes. *)
LEMMA CutShortKeeps ==
    ASSUME GuestInv, pc = "walk", NEW s \in Ours, NEW S, S \subseteq DOMAIN walk.up,
           Commit(S), DropMemory(s, IF S = {} THEN {} ELSE {"tables"}),
           pc' = "done", UNCHANGED <<guestVars, phys, own, old>>
    PROVE  Kept
  <1> DEFINE errors == IF S = {} THEN {} ELSE {"tables"}
  <1>0. TablesInv
    BY Zenon DEF GuestInv
  <1>1. machine' = machine /\ own' = own /\ old' = old /\ UNCHANGED <<guestVars, phys>>
    BY Zenon DEF guestVars
  <1>2. SlotsInv' /\ OursInv' /\ errors \subseteq failed'
    <2>1. pc \in Placed /\ errors \in SUBSET {"tables", "slot"}
      BY Zenon DEF Placed
    <2>2. DropMemory(s, errors)
      BY Zenon
    <2> HIDE DEF errors
    <2> QED
      BY <1>1, <2>1, <2>2, DropKeeps, Zenon
  <1>3. DOMAIN tables' = S \cup DOMAIN tables /\ \A t \in DOMAIN tables : t \notin S => tables'[t] = tables[t]
    <2> DEFINE f == Only(walk.up, S)
    <2>1. DOMAIN f = S
      BY OnlyIs, Zenon
    <2>2. tables' = Over(f, tables)
      BY Zenon DEF Commit
    <2> HIDE DEF f
    <2>3. IsOver(tables', f, tables)
      BY <2>2, OverIs, Zenon
    <2> QED
      BY <2>1, <2>3, Zenon DEF IsOver
  <1>4. TablesInv'
    <2>1. /\ tables = machine.tables /\ own = machine.tables
          /\ DOMAIN own = DOMAIN machine.tables /\ DOMAIN own \subseteq DOMAIN tables
          /\ DOMAIN old \subseteq DOMAIN own /\ \A t \in DOMAIN old : old[t] = machine.tables[t]
      BY <1>0, Zenon DEF TablesInv
    <2>2. "tables" \in failed' \/ \A t \in DOMAIN own : tables'[t] = own[t]
      BY <1>2, <1>3, <2>1, Zenon
    <2>3. DOMAIN own \subseteq DOMAIN tables'
      BY <1>3, <2>1, Zenon
    <2>4. pc' \notin Early \cup {"map", "walk"} /\ pc' \notin {"load", "run", "restore"}
      BY Zenon DEF Early
    <2> QED
      BY <1>1, <2>1, <2>2, <2>3, <2>4, Zenon DEF TablesInv
  <1>5. MapInv'
    BY Zenon DEF MapInv, MappedAsAsked
  <1> QED
    BY <1>2, <1>4, <1>5, Zenon DEF Kept

(* map_memory() ends: all is written, or it gave up, or the write was cut  *)
(* short.                                                                  *)
LEMMA EndMapKeeps ==
    ASSUME GuestInv, NEW s \in Ours, EndMap(s)
    PROVE  Kept
  <1>0. pc = "walk" /\ ~MapsLeft(s) /\ UNCHANGED <<guestVars, phys, own>>
    BY Zenon DEF EndMap
  <1>1. CASE /\ walk.ok /\ Commit(DOMAIN walk.up) /\ old' = Only(tables, walk.old)
             /\ maps' = Asked(s) /\ Goto("load") /\ UNCHANGED <<allocVars, failed>>
    <2>1. UNCHANGED <<allocVars, guestVars, phys, own, failed>> /\ pc' = "load"
      BY <1>0, <1>1, Zenon DEF Goto
    <2> QED
      BY <1>0, <1>1, <2>1, CommitKeeps, Zenon
  <1>2. CASE ~walk.ok /\ DropMemory(s, {}) /\ Goto("done") /\ UNCHANGED <<tables, old, maps>>
    <2>1. pc' = "done" /\ tables' = tables /\ old' = old /\ own' = own /\ machine' = machine
      BY <1>0, <1>2, Zenon DEF Goto, guestVars
    <2>2. SlotsInv' /\ OursInv'
      <3>1. pc \in Placed /\ {} \in SUBSET {"tables", "slot"}
        BY <1>0, Zenon DEF Placed
      <3> QED
        BY <1>0, <1>2, <2>1, <3>1, DropKeeps, Zenon
    <2>3. TablesInv'
      <3>1. TablesInv
        BY Zenon DEF GuestInv
      <3>2. tables = own
        BY <1>0, <3>1, Zenon DEF TablesInv
      <3>3. pc' \notin Early \cup {"map", "walk"} /\ pc' \notin {"load", "run", "restore"}
        BY <2>1, Zenon DEF Early
      <3> QED
        BY <2>1, <3>1, <3>2, <3>3, Zenon DEF TablesInv
    <2>4. MapInv'
      BY <2>1, Zenon DEF MapInv, MappedAsAsked
    <2> QED
      BY <2>2, <2>3, <2>4, Zenon DEF Kept
  <1>3. CASE /\ \E S \in SUBSET DOMAIN walk.up :
                   Commit(S) /\ DropMemory(s, IF S = {} THEN {} ELSE {"tables"})
             /\ Goto("done") /\ UNCHANGED <<old, maps>>
    <2>1. PICK S \in SUBSET DOMAIN walk.up :
             Commit(S) /\ DropMemory(s, IF S = {} THEN {} ELSE {"tables"})
      BY <1>3, Zenon
    <2>2. pc' = "done" /\ UNCHANGED <<guestVars, phys, own, old>> /\ S \subseteq DOMAIN walk.up
      BY <1>0, <1>3, Zenon DEF Goto
    <2> QED
      BY <1>0, <2>1, <2>2, CutShortKeeps, Zenon
  <1> QED
    BY <1>1, <1>2, <1>3, Zenon DEF EndMap

-----------------------------------------------------------------------------
(* Every step keeps the invariant. *)
LEMMA GuestStep == GuestInv /\ [Next]_vars => GuestInv'
  <1> SUFFICES ASSUME GuestInv, [Next]_vars
               PROVE  GuestInv'
    OBVIOUS
  <1>1. AllocInv'
    BY UsesAllocator, AllocStep, Zenon DEF GuestInv
  <1> SUFFICES Kept
    BY <1>1, Zenon DEF GuestInv, Kept
  <1>2. CASE NewAllocator \/ FindKernel \/ LoadStage1 \/ Detach \/ Done \/ UNCHANGED vars
    BY <1>2, MovesOnKeep, Zenon DEF Done
  <1>3. CASE MmioRange("blk", "con") \/ MmioRange("con", "kernel")
    BY <1>3, MmioRangeKeeps, Zenon
  <1>4. CASE Allocate \/ HypervisorGrows \/ GuestEdits \/ Restore
    BY <1>4, AllocateKeeps, GrowsKeeps, GuestEditsKeeps, RestoreKeeps, Zenon
  <1>5. CASE \E s \in Ours : BeginMap(s) \/ MapOnePage(s) \/ EndMap(s) \/ Free(s)
    BY <1>5, BeginMapKeeps, MapOnePageKeeps, EndMapKeeps, FreeKeeps, Zenon
  <1> QED
    BY <1>2, <1>3, <1>4, <1>5, Zenon DEF Next

(* The invariant says what the properties say. *)
LEMMA GuestImplies == GuestInv => TypeOK /\ Disjoint /\ MappedAsAsked /\ NothingLeft
  <1> SUFFICES ASSUME GuestInv
               PROVE  TypeOK /\ Disjoint /\ MappedAsAsked /\ NothingLeft
    OBVIOUS
  <1>0. AllocInv /\ SlotsInv /\ OursInv /\ TablesInv /\ MapInv
    BY Zenon DEF GuestInv
  <1>1. next \in 0 .. Top
    <2>1. next \in Nat /\ next <= Top
      BY <1>0, Zenon DEF AllocInv, SlotsInv
    <2> QED
      BY <2>1, SpaceAssumption
  <1>2. TypeOK
    <2>1. \A s, t \in Ours : s = t
      BY <1>0, Zenon DEF OursInv, Ours
    <2> QED
      BY <1>0, <1>1, <2>1, Zenon DEF TypeOK, SlotsInv, TablesInv
  <1>3. Disjoint
    BY <1>0, AllocDisjoint, Zenon
  <1>4. MappedAsAsked
    BY <1>0, Zenon DEF MapInv
  <1>5. NothingLeft
    BY <1>0, Zenon DEF NothingLeft, SlotsInv, OursInv, TablesInv
  <1> QED
    BY <1>2, <1>3, <1>4, <1>5, Zenon

(* It holds in every behaviour. *)
LEMMA GuestInvariant == Spec => []GuestInv
  BY GuestInitial, GuestStep, PTL DEF Spec

(* For every guest, image, size of tables and pages, and behaviour of the  *)
(* environment, the state keeps its type; in particular, vmsh has at most  *)
(* one memory slot, and old_tables has tables of the guest only.           *)
THEOREM GuestTypes == Spec => []TypeOK
  BY GuestInvariant, GuestImplies, PTL

(* The MMIO ranges and the memory that vmsh adds for stage1 overlap        *)
(* neither each other nor a slot that the hypervisor had.                  *)
THEOREM GuestDisjoint == Spec => []Disjoint
  BY GuestInvariant, GuestImplies, PTL

(* map_memory() maps the pages of stage1 as asked, to memory of vmsh's     *)
(* slot, and changes the translation of no other page; the tables it adds  *)
(* fit into what estimate_page_table_size() adds to the allocation. This   *)
(* is for any number of entries of a table, any page size, and any tables  *)
(* of the guest in which the ones around the KASLR range are linked once.  *)
THEOREM MapsAsAsked == Spec => []MappedAsAsked
  BY GuestInvariant, GuestImplies, PTL

(* When vmsh is done its slot is deleted and the guest's tables are as the *)
(* guest left them, or an error was logged. The exception is a change of   *)
(* the guest to a table that vmsh has extended, which the destructor of    *)
(* VirtMem undoes.                                                         *)
THEOREM LeavesNothing == Spec => []NothingLeft
  BY GuestInvariant, GuestImplies, PTL

(* The destructor of PhysMem deletes vmsh's slot only: no other slot has   *)
(* the id that was guessed for it.                                         *)
LEMMA DropKeepsOthers ==
    ASSUME GuestInv, NEW s, NEW errors, s \in Ours, DropMemory(s, errors)
    PROVE  slots \ Ours \subseteq slots'
  <1>1. s \in slots /\ \A t \in slots : t.id = s.id => t = s
    BY Zenon DEF GuestInv, SlotsInv, Ours
  <1>2. CASE DropPhysMem(s)
    <2>1. slots' = {t \in slots : t.id # s.id}
      BY <1>2, Zenon DEF DropPhysMem
    <2> QED
      BY <1>1, <2>1, Zenon
  <1>3. CASE UNCHANGED allocVars
    BY <1>3, Zenon DEF allocVars
  <1> QED
    BY <1>2, <1>3, Zenon DEF DropMemory

(* No step, whatever the hypervisor adds meanwhile and whatever id was     *)
(* guessed for vmsh's memory, deletes or replaces a slot that is not       *)
(* vmsh's own.                                                             *)
THEOREM HypervisorSlotsStay == Spec => HypervisorSlotsKept
  <1> DEFINE OthersStay == slots \ Ours \subseteq slots'
  <1>1. ASSUME GuestInv, [Next]_vars
        PROVE  [OthersStay]_vars
    <2>1. ASSUME UNCHANGED slots
          PROVE  OthersStay
      BY <2>1, Zenon
    <2>2. ASSUME NEW here, NEW after, MmioRange(here, after)
          PROVE  OthersStay
      BY <2>1, <2>2, Zenon DEF MmioRange, AllocMmioRange, allocVars
    <2>3. ASSUME Allocate
          PROVE  OthersStay
      BY <2>1, <2>3, Zenon DEF Allocate, PhysAlloc, allocVars
    <2>4. ASSUME NEW s \in Ours, BeginMap(s) \/ MapOnePage(s) \/ EndMap(s) \/ Free(s)
          PROVE  OthersStay
      <3>1. CASE BeginMap(s) \/ MapOnePage(s)
        BY <2>1, <3>1, Zenon DEF BeginMap, MapOnePage, allocVars
      <3>2. CASE EndMap(s)
        BY <1>1, <2>1, <3>2, DropKeepsOthers, Zenon DEF EndMap, allocVars
      <3>3. CASE Free(s)
        BY <1>1, <3>3, DropKeepsOthers, Zenon DEF Free
      <3> QED
        BY <2>4, <3>1, <3>2, <3>3, Zenon
    <2>5. ASSUME HypervisorGrows
          PROVE  OthersStay
      BY <2>5, Zenon DEF HypervisorGrows, HypervisorAddsSlot
    <2>6. ASSUME NewAllocator \/ FindKernel \/ LoadStage1 \/ GuestEdits \/ Detach \/ Restore
          PROVE  OthersStay
      BY <2>1, <2>6, Zenon DEF NewAllocator, FindKernel, LoadStage1, GuestEdits, Detach, Restore,
                               allocVars
    <2> HIDE DEF OthersStay
    <2> QED
      BY <1>1, <2>2, <2>3, <2>4, <2>5, <2>6, Zenon DEF Next, Done
  <1> QED
    BY <1>1, GuestInvariant, PTL DEF Spec, HypervisorSlotsKept
=============================================================================
