----------------------------- MODULE GuestMemory -----------------------------
(***************************************************************************)
(* How stage1 gets into the guest and out again: the allocator's snapshot  *)
(* of the VM's memory, the MMIO ranges of the devices, the search for the  *)
(* kernel, new memory for the VM, its mapping in the guest's own page      *)
(* tables, loading, and the destructors of VirtMem and PhysMem. The VM is  *)
(* stopped except while stage1 runs, when the guest edits its tables and   *)
(* the hypervisor may add memory.                                          *)
(***************************************************************************)
EXTENDS Loader, PageTableIterator, PhysAllocator

CONSTANTS
    Machines,   \* guests: the slots, tables, and root of the page tables
    Images,     \* ELF images of stage1
    Spare,      \* a table of the guest that it may link in
    Faults      \* what the environment may do: "refuse", "short", "user"

ASSUME PageAssumption == PageSize = PageBytes

(* Tables of a guest lie below the end of its memory. *)
ASSUME MachinesAssumption ==
    \A m \in Machines :
        /\ m.slots \in GuestSlots
        /\ WellFormed(m.tables, m.root)
        /\ TablesPrivate(m.tables, m.root, KaslrStart)
        /\ \A t \in DOMAIN m.tables : \E s \in m.slots : t < s.hi

(* The pages of the segments, of which each has one at least, follow each  *)
(* other without a gap.                                                    *)
ASSUME ImagesAssumption ==
    \A image \in Images :
        LET a == Allocs(image)
        IN  /\ a \in Seq([virt : Nat, offset : Nat, len : Nat, prot : Prots]) /\ a # <<>>
            /\ \A i \in 1 .. Len(a) : a[i].len > 0 /\ a[i].len % PageBytes = 0
            /\ \A i \in 2 .. Len(a) : a[i].virt = a[i - 1].virt + a[i - 1].len \div PageBytes
            /\ a[1].virt >= KaslrStart

(* What vmsh asks the allocator for. *)
ASSUME SizesAssumption ==
    /\ PageBytes \in Sizes
    /\ \A image \in Images : Fits(Allocs(image)) => MemorySize(Allocs(image)) \in Sizes

VARIABLES
    pc,       \* the step that comes next
    machine,  \* the guest attached to
    elf,      \* the image loaded
    phys,     \* the slots of vmsh: PhysMem, of which there is one at most
    walk,     \* the state of map_memory()
    tables,   \* memory that holds page tables, vmsh's included
    own,      \* the same as the guest alone would have it
    old,      \* old_tables of VirtMem
    maps,     \* mappings of VirtMem
    mem,      \* the words uploaded
    status,   \* the address of device_status in use
    failed    \* errors that were only logged: of "tables", "slot"

guestVars == <<machine, elf>>
loadVars == <<maps, mem, status>>
vars == <<allocVars, pc, machine, elf, phys, walk, tables, own, old, maps, mem, status, failed>>

Root == machine.root

(* vmsh's memory slot, while it has one. *)
Ours == slots \cap phys

(* map_memory() is not at work. *)
NoWalk == <<>>

Steps == {"new", "blk", "con", "kernel", "allocate", "map", "walk", "load", "run", "restore", "free", "done"}

TypeOK ==
    /\ pc \in Steps
    /\ next \in 0 .. Top
    /\ slots \subseteq Slots /\ known \subseteq slots
    /\ \A s, t \in Ours : s = t
    /\ DOMAIN own \subseteq DOMAIN tables /\ DOMAIN old \subseteq DOMAIN own
    /\ failed \subseteq {"tables", "slot"}

Init ==
    /\ machine \in Machines /\ elf \in Images
    /\ AllocInit /\ known = machine.slots
    /\ pc = "new" /\ phys = {} /\ walk = NoWalk
    /\ tables = machine.tables /\ own = tables /\ old = <<>>
    /\ maps = <<>> /\ mem = <<>> /\ status = 0
    /\ failed = {}

Goto(step) == pc' = step
Untouched == UNCHANGED <<guestVars, walk, tables, own, old, loadVars, failed>>

-----------------------------------------------------------------------------
(* PhysMemAllocator::new() and GuestMem::new(): cr3 must be in a slot. *)
NewAllocator ==
    /\ pc = "new"
    /\ Goto(IF Backed(known, Root) THEN "blk" ELSE "done")
    /\ UNCHANGED <<allocVars, phys>> /\ Untouched

(* DeviceContext::new(): one page of addresses for each device. *)
MmioRange(here, after) ==
    /\ pc = here
    /\ \/ AllocMmioRange(PageBytes) /\ Goto(after)
       \/ ~NextAddr(PageBytes) /\ UNCHANGED allocVars /\ Goto("done")
    /\ UNCHANGED phys /\ Untouched

Sections == FindKernelSections(tables, known, Root, KaslrStart, KaslrEnd)

(* find_kernel(): needs a section that is only readable and has the symbol *)
(* table; also refuses a vCPU that is in user mode.                        *)
FindKernel ==
    /\ pc = "kernel"
    /\ \/ /\ Sections.ok
          /\ \E i \in 1 .. Len(Sections.sections) : Sections.sections[i].prot = "r"
          /\ Goto("allocate")
       \/ /\ \/ ~Sections.ok
             \/ "user" \in Faults
             \/ \A i \in 1 .. Len(Sections.sections) : Sections.sections[i].prot # "r"
          /\ Goto("done")
    /\ UNCHANGED <<allocVars, phys>> /\ Untouched

(* allocate(), virt_alloc() and phys_alloc(). *)
Allocate ==
    /\ pc = "allocate"
    /\ LET size == MemorySize(Allocs(elf))
       IN  \/ /\ Fits(Allocs(elf)) /\ PhysAlloc(size)
              /\ phys' = {NewSlot(size)}
              /\ Goto("map")
           \/ /\ \/ ~Fits(Allocs(elf))
                 \/ ~NextAddr(PageAlign(size))
                 \/ ~KvmAccepts(NewSlot(size))
                 \/ "refuse" \in Faults
              /\ UNCHANGED <<allocVars, phys>> /\ Goto("done")
    /\ Untouched

Asked(s) == Mappings(Allocs(elf), s.lo)

Only(f, S) == [a \in S |-> f[a]]

(* The destructor of PhysMem, after other errors; its own are only logged. *)
DropMemory(s, errors) ==
    \/ DropPhysMem(s) /\ failed' = failed \cup errors
    \/ "refuse" \in Faults /\ UNCHANGED allocVars /\ failed' = failed \cup errors \cup {"slot"}

(* map_memory(): the tables are worked on in copies, page by page. *)
BeginMap(s) ==
    /\ pc = "map" /\ Goto("walk")
    /\ walk' = StartMapping(tables, known, Root, Asked(s))
    /\ UNCHANGED <<allocVars, guestVars, phys, tables, own, old, loadVars, failed>>

MapsLeft(s) == walk.ok /\ walk.m <= Len(Asked(s))

MapOnePage(s) ==
    /\ pc = "walk" /\ MapsLeft(s)
    /\ walk' = MapNext(walk, tables, known, Root, Asked(s))
    /\ UNCHANGED <<allocVars, pc, guestVars, phys, tables, own, old, loadVars, failed>>

(* commit_page_tables(), of all tables or, where it fails, of some. *)
Commit(S) == tables' = Over(Only(walk.up, S), tables)

(* Then all are written. Where map_memory() fails, PhysMem is dropped, and *)
(* what was written stays.                                                 *)
EndMap(s) ==
    /\ pc = "walk" /\ ~MapsLeft(s)
    /\ \/ /\ walk.ok
          /\ Commit(DOMAIN walk.up)
          /\ old' = Only(tables, walk.old)
          /\ maps' = Asked(s)
          /\ Goto("load")
          /\ UNCHANGED <<allocVars, failed>>
       \/ /\ ~walk.ok
          /\ DropMemory(s, {})
          /\ Goto("done")
          /\ UNCHANGED <<tables, old, maps>>
       \/ /\ walk.ok /\ "short" \in Faults
          /\ \E S \in SUBSET DOMAIN walk.up :
                Commit(S) /\ DropMemory(s, IF S = {} THEN {} ELSE {"tables"})
          /\ Goto("done")
          /\ UNCHANGED <<old, maps>>
    /\ walk' = NoWalk
    /\ UNCHANGED <<guestVars, phys, own, mem, status>>

(* The rest of load_binary(). A failure drops the loader and its VirtMem.  *)
LoadStage1 ==
    LET image == WriteStage1Args(LoadBinary(elf, maps, Allocs(elf)), elf, maps)
    IN  /\ pc = "load"
        /\ \/ /\ image.ok
              /\ mem' = Upload(image.ls)
              /\ status' = DeviceStatus(image.ls, elf)
              /\ Goto("run")
           \/ /\ ~image.ok \/ "short" \in Faults
              /\ Goto("restore")
              /\ UNCHANGED <<mem, status>>
        /\ UNCHANGED <<allocVars, guestVars, phys, walk, tables, own, old, maps, failed>>

-----------------------------------------------------------------------------
(* While stage1 runs the guest changes an entry of its own: it maps or     *)
(* unmaps a page, or links a table. One change at a time is looked at.     *)
LeafTables == {t \in DOMAIN own : \E i \in DOMAIN own[t] : own[t][i].kind = "page"}

GuestEdits ==
    /\ pc = "run" /\ own = machine.tables
    /\ \E t \in LeafTables \cup {Root}, i \in 0 .. EntryCount - 1 :
          LET e == CASE own[t][i].kind = "page" -> NoEntry
                     [] own[t][i].kind # "page" /\ t # Root -> Entry("page", Root, "rw")
                     [] own[t][i].kind # "page" /\ t = Root -> Entry("table", Spare, "-")
          IN  /\ own[t][i].kind \in {"none", "page"} /\ tables[t][i] = own[t][i]
              /\ tables' = [tables EXCEPT ![t][i] = e]
              /\ own' = [own EXCEPT ![t][i] = e]
    /\ UNCHANGED <<allocVars, pc, guestVars, phys, walk, old, loadVars, failed>>

HypervisorGrows ==
    /\ pc = "run"
    /\ \E s \in HvSlots : HypervisorAddsSlot(s)
    /\ UNCHANGED <<pc, phys>> /\ Untouched

(* attach() has stopped the VM again and drops stage1. *)
Detach ==
    /\ pc = "run" /\ Goto("restore")
    /\ UNCHANGED <<allocVars, phys>> /\ Untouched

(* Mutant: only the pml4 is written back. *)
RestoreRoot ==
    /\ pc = "restore"
    /\ tables' = Over(Only(old, {Root}), tables)
    /\ Goto("free")
    /\ UNCHANGED <<allocVars, guestVars, phys, walk, own, old, loadVars, failed>>

(* The destructor of VirtMem writes the old tables back. *)
Restore ==
    /\ pc = "restore"
    /\ \/ tables' = Over(old, tables) /\ UNCHANGED failed
       \/ /\ "short" \in Faults
          /\ \E S \in SUBSET DOMAIN old : tables' = Over(Only(old, S), tables)
          /\ failed' = failed \cup {"tables"}
    /\ Goto("free")
    /\ UNCHANGED <<allocVars, guestVars, phys, walk, own, old, loadVars>>

(* Then its PhysMem is dropped. *)
Free(s) ==
    /\ pc = "free" /\ DropMemory(s, {})
    /\ Goto("done")
    /\ UNCHANGED <<guestVars, phys, walk, tables, own, old, loadVars>>

Done == pc = "done" /\ UNCHANGED vars

Next ==
    \/ NewAllocator
    \/ MmioRange("blk", "con")
    \/ MmioRange("con", "kernel")
    \/ FindKernel
    \/ Allocate
    \/ \E s \in Ours : BeginMap(s) \/ MapOnePage(s) \/ EndMap(s) \/ Free(s)
    \/ LoadStage1
    \/ GuestEdits
    \/ HypervisorGrows
    \/ Detach
    \/ Restore
    \/ Done

Spec == Init /\ [][Next]_vars

-----------------------------------------------------------------------------
(* What the mappings of M give to page v, or Unmapped. *)
MappedBy(M, v) ==
    LET hits == {i \in 1 .. Len(M) : v \in M[i].virt .. M[i].virt + M[i].len \div PageBytes - 1}
    IN  IF hits = {} THEN Unmapped
        ELSE LET m == M[CHOOSE i \in hits : TRUE]
             IN  [to |-> m.phys + (v - m.virt) * PageBytes, prot |-> m.prot]

(* Once map_memory() returned (until the guest edits its tables), every    *)
(* page of the guest translates as before, except the pages asked for,     *)
(* which were unmapped and now lead to their place in the new memory, with *)
(* their protection; and all tables that vmsh added are in its memory,     *)
(* behind the mapped data (estimate_page_table_size() was enough).         *)
MappedAsAsked ==
    pc = "load" =>
        /\ \A v \in Pages :
              LET before == Translate(own, Root, v)
                  after == Translate(tables, Root, v)
              IN  IF MappedBy(maps, v) = Unmapped THEN after = before
                  ELSE before = Unmapped /\ after = MappedBy(maps, v)
        /\ \A t \in DOMAIN tables \ DOMAIN own :
              \E s \in Ours : s.lo + Bytes(maps) <= t /\ t + PageBytes <= s.hi

(* The word the guest finds at an address of the image. *)
Sees(addr) ==
    LET t == Translate(tables, Root, Vbase + PageOf(addr))
        p == t.to + (addr % PageBytes)
    IN  IF p \in DOMAIN mem THEN mem[p] ELSE <<"zero">>

(* When stage1 starts, the guest reads through its own page tables what    *)
(* the linker meant: at each relocation the value for the place it was     *)
(* loaded at, at VMSH_STAGE1_ARGS the arguments, elsewhere the words of    *)
(* the file and zeros behind them; and device_status, as vmsh goes on to   *)
(* write it, is the word that stage1 polls.                                *)
LoadedAsLinked ==
    (pc = "run" /\ own = machine.tables) =>
        /\ \A n \in 1 .. Len(elf.segs) : \A o \in 0 .. elf.segs[n].mem - 1 :
              LET addr == elf.segs[n].addr + o
                  rel == {k \in 1 .. Len(elf.relocs) :
                            elf.relocs[k].at = addr /\ elf.relocs[k].kind # "weak"}
                  arg == addr - elf.args + 1
              IN  Sees(addr) =
                    CASE arg \in 1 .. Len(ArgsFields) -> <<"args", ArgsFields[arg]>>
                      [] arg \notin 1 .. Len(ArgsFields) /\ rel # {} ->
                            LET r == elf.relocs[CHOOSE k \in rel : TRUE]
                            IN  IF r.kind = "relative"
                                THEN <<"address", KaslrStart * PageBytes + r.what>>
                                ELSE ResolveSymbol(r.what)
                      [] OTHER -> IF o < elf.segs[n].file THEN <<"file", addr>> ELSE <<"zero">>
        /\ status = Translate(tables, Root, Vbase + PageOf(elf.args)).to + (elf.args % PageBytes)

(* vm_add_mem() guesses the id of vmsh's slot, and the destructor of       *)
(* PhysMem deletes whatever slot has that id by then. Though KVM may       *)
(* refuse the guess, and the hypervisor adds slots while vmsh runs, no     *)
(* step deletes or replaces a slot that is not vmsh's.                     *)
HypervisorSlotsKept == [][slots \ Ours \subseteq slots']_vars

(* When vmsh is done, all slots of the hypervisor are there and, unless    *)
(* its deletion failed, no slot of vmsh is left. Unless a write of tables  *)
(* was cut short, no table of the guest refers to vmsh's memory, and every *)
(* table of the guest is as the guest left it, except that a change the    *)
(* guest made meanwhile in a table that vmsh had read is undone.           *)
NothingLeft ==
    pc = "done" =>
        /\ known \subseteq slots
        /\ "slot" \in failed \/ Ours = {}
        /\ "tables" \in failed \/ \A t \in DOMAIN own :
              \/ tables[t] = own[t]
              \/ t \in DOMAIN old /\ tables[t] = machine.tables[t]

(* Before the search for the kernel: the iterator over the KASLR range     *)
(* yields, in order and once each, just the entries that map a page of it  *)
(* (or the page at its end), when all tables are in slots vmsh knows.      *)
IteratorComplete ==
    pc = "kernel" =>
        LET found == IterEntries(tables, known, Root, KaslrStart, KaslrEnd)
            extent(e) == e.virt .. e.virt + PagesOf(e.level) - 1
        IN  /\ \A i \in 1 .. Len(found) - 1 : found[i].virt < found[i + 1].virt
            /\ \A i \in 1 .. Len(found) :
                  Translate(tables, Root, found[i].virt).to = found[i].entry.to
            /\ (\A t \in DOMAIN tables : Backed(known, t)) =>
                  {v \in KaslrStart .. KaslrEnd : Translate(tables, Root, v) # Unmapped}
                     = UNION {extent(found[i]) : i \in 1 .. Len(found)} \cap KaslrStart .. KaslrEnd
            /\ \A i \in 1 .. Len(found) : extent(found[i]) \cap KaslrStart .. KaslrEnd # {}

=============================================================================
