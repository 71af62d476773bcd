---------------------------- MODULE PhysAllocator ----------------------------
(***************************************************************************)
(* The allocator of guest physical memory (PhysMemAllocator): it hands out *)
(* addresses downwards from the end of the physical address space, and     *)
(* gives up where they would meet a memory slot of the VM that it saw when *)
(* it was created. MMIO ranges are addresses only; memory is also added to *)
(* the VM as a slot of KVM.                                                *)
(*                                                                         *)
(* Addresses are in bytes. A range or slot ends before its byte hi.        *)
(***************************************************************************)
EXTENDS Integers, FiniteSets

CONSTANTS
    Top,         \* get_first_allocation(): 2^(physical address bits)
    PageSize,    \* bytes of a page
    Sizes,       \* sizes, in bytes, that may be asked for
    GuestSlots,  \* sets of slots the hypervisor may have set up
    HvSlots      \* slots that it may add

Slots == [id: Nat, lo: Nat, hi: Nat]

ASSUME SpaceAssumption == PageSize \in Nat /\ PageSize > 1 /\ Top \in Nat /\ Top % PageSize = 0
ASSUME SizeAssumption == Sizes \subseteq Nat \ {0}
ASSUME HvSlotsAssumption == HvSlots \subseteq Slots
ASSUME GuestSlotsAssumption ==
    \A S \in GuestSlots :
        /\ S \subseteq Slots /\ Cardinality(S) \in Nat
        /\ \A s, t \in S : s.id = t.id => s = t
        /\ \A s \in S : s.lo < s.hi /\ s.lo % PageSize = 0 /\ s.hi % PageSize = 0

VARIABLES
    next,   \* next_allocation
    known,  \* the slots the hypervisor had when GuestMem::new() asked
    slots,  \* the slots of the VM, vmsh's included
    held    \* ranges handed out and not given back

allocVars == <<next, known, slots, held>>

(* page_align() *)
PageAlign(size) == ((size + PageSize - 1) \div PageSize) * PageSize

Overlap(a, b) == a.lo < b.hi /\ b.lo < a.hi

-----------------------------------------------------------------------------
(* Mutant: nobody looks at the slots of the VM. *)
NextAddrUnchecked(size) == next >= size

(* next_addr(): the conditions under which it returns next - size. Slots   *)
(* do not overlap and PhysHostMap keeps them in order with inclusive ends, *)
(* so last_memslot_range().end is the largest hi - 1.                      *)
NextAddr(size) == /\ next >= size
                  /\ known # {}
                  /\ \A s \in known : next - size >= s.hi - 1

AllocInit ==
    /\ next = Top
    /\ known \in GuestSlots /\ slots = known
    /\ held = {}

(* alloc_mmio_range(), which does not align. Callers ask for whole pages.  *)
AllocMmioRange(size) ==
    /\ NextAddr(size)
    /\ next' = next - size
    /\ held' = held \cup {[lo |-> next - size, hi |-> next]}
    /\ UNCHANGED <<known, slots>>

(* vm_add_mem() guesses a slot id from the number of slots. *)
GuessedId == Cardinality(slots)

(* KVM_SET_USER_MEMORY_REGION with memory of its own: an id in use and an  *)
(* overlap are refused.                                                    *)
KvmAccepts(s) == \A t \in slots : t.id # s.id /\ ~Overlap(t, s)

NewSlot(size) == [id |-> GuessedId, lo |-> next - PageAlign(size), hi |-> next]

(* phys_alloc(); if vm_add_mem() fails next_allocation is put back. *)
PhysAlloc(size) ==
    /\ NextAddr(PageAlign(size))
    /\ KvmAccepts(NewSlot(size))
    /\ next' = next - PageAlign(size)
    /\ slots' = slots \cup {NewSlot(size)}
    /\ held' = held \cup {[lo |-> next - PageAlign(size), hi |-> next]}
    /\ UNCHANGED known

(* Mutant: another slot than the one added is deleted. *)
DropPhysMemBefore(s) ==
    /\ s \in slots /\ [lo |-> s.lo, hi |-> s.hi] \in held
    /\ slots' = {t \in slots : t.id # s.id - 1}
    /\ held' = held \ {[lo |-> s.lo, hi |-> s.hi]}
    /\ UNCHANGED <<next, known>>

(* Mutant: the id is guessed again, from the slots there are by now. *)
DropPhysMemGuess(s) ==
    /\ s \in slots /\ [lo |-> s.lo, hi |-> s.hi] \in held
    /\ slots' = {t \in slots : t.id # Cardinality(slots) - 1}
    /\ held' = held \ {[lo |-> s.lo, hi |-> s.hi]}
    /\ UNCHANGED <<next, known>>

(* The destructor of PhysMem deletes the slot, which KVM finds by its id.  *)
DropPhysMem(s) ==
    /\ s \in slots /\ [lo |-> s.lo, hi |-> s.hi] \in held
    /\ slots' = {t \in slots : t.id # s.id}
    /\ held' = held \ {[lo |-> s.lo, hi |-> s.hi]}
    /\ UNCHANGED <<next, known>>

(* The hypervisor adds a slot of its own. *)
HypervisorAddsSlot(s) ==
    /\ KvmAccepts(s)
    /\ slots' = slots \cup {s}
    /\ UNCHANGED <<next, known, held>>

(* Any use of the allocator, by anybody and in any order. *)
AllocNext ==
    \/ \E s \in HvSlots : HypervisorAddsSlot(s)
    \/ \E size \in Sizes : PhysAlloc(size) \/ (size % PageSize = 0 /\ AllocMmioRange(size))
    \/ \E s \in slots : DropPhysMem(s)

(* The allocator by itself, for any user of it. *)
AllocSpec == AllocInit /\ [][AllocNext]_allocVars

-----------------------------------------------------------------------------
(* Ranges handed out overlap neither each other nor a slot that the        *)
(* hypervisor had.                                                         *)
Disjoint ==
    /\ \A a, b \in held : a # b => ~Overlap(a, b)
    /\ \A a \in held, s \in known : ~Overlap(a, s)

=============================================================================
