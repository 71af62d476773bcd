---------------------------- MODULE MCGuestMemory ----------------------------
(* Guests, images and slots for GuestMemory: tables of 4 entries, pages of *)
(* 4 words, the KASLR range in the last but one entry of the last level-1  *)
(* table.                                                                  *)
EXTENDS GuestMemory

MCKaslrStart == 14 * 16
MCKaslrEnd == 15 * 16

Slot(id, lo, hi) == [id |-> id, lo |-> lo, hi |-> hi]
Ram == Slot(0, 0, 48)

MCGuestSlots == {
    {Ram},
    {Ram, Slot(1, 60, 64)},     \* room for the smaller images only
    {Ram, Slot(2, 48, 56)},     \* the guessed id is taken
    {Ram, Slot(1, 100, 120)},   \* no room but for the MMIO ranges
    {Ram, Slot(1, 120, 128)}}   \* nor for these

(* Tables of the guest: 0 the pml4, 4 its last level-1 table, 8 the        *)
(* level-2 table of the KASLR range, 12 and 16 tables of pages there, 20   *)
(* and 24 the tables of the page after the range, 28 not linked.           *)
With(entries) == [i \in 0 .. 3 |-> IF i \in DOMAIN entries THEN entries[i] ELSE NoEntry]
Table(a) == Entry("table", a, "-")
Page(prot) == Entry("page", 40, prot)
Huge(prot) == Entry("huge", 32, prot)

Guest(pt2, ptA, ptB, ptEnd) ==
    (0 :> With(3 :> Table(4))) @@ (4 :> With((2 :> Table(8)) @@ (3 :> Table(20))))
    @@ (8 :> pt2) @@ (12 :> ptA) @@ (16 :> ptB)
    @@ (20 :> With(0 :> Table(24))) @@ (24 :> ptEnd) @@ (28 :> EmptyTable)

Kernel == With((0 :> Page("rx")) @@ (1 :> Page("r")) @@ (2 :> Page("rw")))

MCTables == {
    \* the kernel in the second half, nothing before it
    Guest(With(2 :> Table(12)), Kernel, EmptyTable, EmptyTable),
    \* the same with a large page
    Guest(With((2 :> Huge("rx")) @@ (3 :> Table(12))), Kernel, EmptyTable, With(0 :> Page("rw"))),
    \* the kernel's first table has other pages already
    Guest(With((0 :> Table(16)) @@ (2 :> Table(12))), Kernel, With(3 :> Page("r")), EmptyTable),
    \* pages at the very start, or a large page after four pages, are in the way
    Guest(With(0 :> Table(12)), Kernel, EmptyTable, EmptyTable),
    Guest(With((1 :> Huge("r")) @@ (2 :> Table(12))), Kernel, EmptyTable, EmptyTable),
    \* no kernel in the range, but a page at its end
    Guest(EmptyTable, EmptyTable, EmptyTable, With(0 :> Page("r"))),
    Guest(EmptyTable, EmptyTable, EmptyTable, EmptyTable),
    \* a table outside of every slot, before the kernel or after it
    Guest(With((2 :> Table(12)) @@ (1 :> Table(52))), Kernel, EmptyTable, EmptyTable)
        @@ (52 :> EmptyTable),
    Guest(With((0 :> Table(16)) @@ (1 :> Table(52))), EmptyTable, With(1 :> Page("r")), EmptyTable)
        @@ (52 :> EmptyTable)}

MCMachines ==
    {[slots |-> S, tables |-> t, root |-> 0] :
        S \in MCGuestSlots, t \in {x \in MCTables : 52 \notin DOMAIN x}}
    \cup {[slots |-> {Ram, s}, tables |-> t, root |-> 0] :
            s \in {Slot(1, 60, 64), Slot(1, 100, 120)}, t \in {x \in MCTables : 52 \in DOMAIN x}}

Seg(addr, file, memory, prot) == [addr |-> addr, file |-> file, mem |-> memory, prot |-> prot]
Reloc(at, kind, what) == [at |-> at, kind |-> kind, what |-> what]

Text == Seg(0, 6, 6, "rx")
Data == Seg(9, 4, 7, "rw")
Image(segs, relocs, strings) == [segs |-> segs, relocs |-> relocs, args |-> 13, strings |-> strings]

Relative == Reloc(1, "relative", 10)
Printk == Reloc(10, "symbol", "_printk")

MCImages == {
    Image(<<Text, Data>>, <<Relative, Printk>>, 3),
    Image(<<Data, Text>>, <<Reloc(11, "weak", "edata"), Reloc(5, "symbol", "init")>>, 5),
    Image(<<Seg(9, 7, 7, "rw")>>, <<Reloc(10, "symbol", "filp_open")>>, 2),
    Image(<<Text, Data>>, <<Relative, Reloc(10, "symbol", "missing")>>, 3),
    Image(<<Text, Data>>, <<Reloc(0, "relative", 3)>>, 3),
    Image(<<Text, Seg(9, 4, 46, "rw")>>, <<Printk>>, 4)}

MCHvSlots == {Slot(1, 48, 52), Slot(3, 52, 60)}

=============================================================================
