------------------------------- MODULE Loader -------------------------------
(***************************************************************************)
(* The ELF loader that lays out, relocates and uploads stage1 (loader.rs). *)
(* Addresses and sizes are in words; a relocation and a field of the       *)
(* arguments are one word. An image is                                     *)
(*   segs    its loadable segments, in the order of the program headers:   *)
(*           address, words in the file, words in memory, protection       *)
(*   relocs  its relocations: address, kind, and what it refers to         *)
(*   args    the address of VMSH_STAGE1_ARGS                               *)
(*   strings the words of the command's strings                            *)
(***************************************************************************)
EXTENDS PageTable, SeqFold, TLC

CONSTANTS KaslrStart, KaslrEnd,  \* LINUX_KERNEL_KASLR_RANGE, in pages
          KernelSymbols,         \* the symbols found in the guest's kernel
          LibSymbols             \* symbols that stage1 itself defines

(* The range is inside what one entry of a level-1 table spans. *)
ASSUME KaslrAssumption ==
    /\ KaslrStart \in Pages /\ KaslrEnd \in Pages /\ KaslrStart < KaslrEnd
    /\ \A v \in KaslrStart .. KaslrEnd - 1, level \in {0, 1} : Index(v, level) = Index(KaslrStart, level)

(* page_start() and page_align(), in pages. *)
PageOf(addr) == addr \div PageBytes
PagesFor(words) == (words + PageBytes - 1) \div PageBytes

(* The fields of Stage1Args that vmsh writes, one word each. *)
ArgsFields == <<"device_status", "driver_status", "argv">>

(* Loader::new() takes vbase from largest_gap, which find_kernel_sections()*)
(* starts at the beginning of the KASLR range.                             *)
Vbase == KaslrStart

-----------------------------------------------------------------------------
(* The pages of a segment, from the page it starts in. *)
SegmentPages(s) == PagesFor(s.addr + s.mem) - PageOf(s.addr)

SegmentAlloc(s) == [virt |-> Vbase + PageOf(s.addr), offset |-> s.addr % PageBytes,
                    len |-> SegmentPages(s) * PageBytes, prot |-> s.prot]

(* The allocations of allocate(): the segments by address, then a place    *)
(* for the strings.                                                        *)
Allocs(elf) ==
    LET sorted == SortSeq([i \in 1 .. Len(elf.segs) |-> SegmentAlloc(elf.segs[i])],
                          LAMBDA a, b : a.virt < b.virt)
        last == sorted[Len(sorted)]
    IN  Append(sorted, [virt |-> last.virt + last.len \div PageBytes, offset |-> 0,
                        len |-> PagesFor(elf.strings) * PageBytes, prot |-> "rw"])

(* allocate() refuses what does not end inside the KASLR range. *)
Fits(allocs) ==
    LET last == allocs[Len(allocs)]
    IN  last.virt + last.len \div PageBytes \in KaslrStart .. KaslrEnd - 1

(* The bytes of the first i allocations. *)
Offsets(allocs) ==
    LET sum[i \in 0 .. Len(allocs)] == IF i = 0 THEN 0 ELSE sum[i - 1] + allocs[i].len
    IN  sum

Bytes(allocs) == Offsets(allocs)[Len(allocs)]

(* virt_alloc(): what it asks the allocator for, and the mappings it makes.*)
MemorySize(allocs) == Bytes(allocs) + EstimatePageTableSize(Bytes(allocs))

Mappings(allocs, phys) ==
    [i \in 1 .. Len(allocs) |->
        [virt |-> allocs[i].virt, len |-> allocs[i].len, prot |-> allocs[i].prot,
         phys |-> phys + Offsets(allocs)[i - 1]]]

-----------------------------------------------------------------------------
(* A loadable: the contents, by offset, of one mapping. *)
Loadable(content, m, offset) == [content |-> content, map |-> m, offset |-> offset]

(* load(): the file's words of a segment, with the mapping of its page.    *)
Load(s, maps, allocs) ==
    LET i == CHOOSE n \in 1 .. Len(maps) :
                /\ maps[n].virt = Vbase + PageOf(s.addr)
                /\ \A k \in 1 .. n - 1 : maps[k].virt # maps[n].virt
    IN  Loadable([o \in 0 .. s.file - 1 |-> <<"file", s.addr + o>>], maps[i], allocs[i].offset)

(* MappedMemory::contains() leaves the first address out. *)
MapContains(m, addr) == m.virt * PageBytes < addr /\ addr < m.virt * PageBytes + m.len

(* find_loadable(): the first that contains the address, or 0. *)
FindLoadable(ls, addr) ==
    LET hits == {i \in 1 .. Len(ls) : MapContains(ls[i].map, addr)}
    IN  IF hits = {} THEN 0 ELSE CHOOSE i \in hits : \A k \in hits : i <= k

(* Where an address is in the contents of a loadable. *)
OffsetIn(l, addr) == addr - (l.map.virt * PageBytes + l.offset)

(* resolve_symbol(): the kernel's, stage1's, and older names of two. *)
Older == [usleep_range_state |-> "usleep_range", _printk |-> "printk"]
ResolveSymbol(name) ==
    CASE name \in KernelSymbols \/ name \in LibSymbols -> <<"symbol", name>>
      [] name \notin KernelSymbols \cup LibSymbols /\ name \in DOMAIN Older
            /\ Older[name] \in KernelSymbols -> <<"symbol", Older[name]>>
      [] OTHER -> <<"unknown", name>>

(* The word a relocation stores. *)
Relocated(r) ==
    IF r.kind = "relative" THEN <<"address", Vbase * PageBytes + r.what>>
    ELSE ResolveSymbol(r.what)

(* relocate(): of R_AMD64_RELATIVE and R_AMD64_GLOB_DAT; a weak symbol is  *)
(* left alone, any other kind refused, as is one outside the file's words  *)
(* (a panic). x is the loadables and ok.                                   *)
Relocate(x, r) ==
    LET addr == Vbase * PageBytes + r.at
        i == FindLoadable(x.ls, addr)
        at == OffsetIn(x.ls[i], addr)
    IN  CASE ~x.ok -> x
          [] x.ok /\ (i = 0 \/ r.kind = "other") -> [x EXCEPT !.ok = FALSE]
          [] x.ok /\ i # 0 /\ r.kind = "weak" -> x
          [] x.ok /\ i # 0 /\ r.kind \in {"relative", "symbol"} ->
                IF Relocated(r)[1] = "unknown" \/ at \notin DOMAIN x.ls[i].content THEN [x EXCEPT !.ok = FALSE]
                ELSE [x EXCEPT !.ls[i].content = (at :> Relocated(r)) @@ @]

(* binary.load(): every segment, then every relocation. *)
LoadBinary(elf, maps, allocs) ==
    LET Loaded(ls, s) == Append(ls, Load(s, maps, allocs))
    IN  FoldLeft(Relocate, [ok |-> TRUE, ls |-> FoldLeft(Loaded, <<>>, elf.segs)], elf.relocs)

(* write_stage1_args(): the strings become a loadable of the last mapping, *)
(* and the contents around the arguments are made longer if they must be.  *)
WriteStage1Args(x, elf, maps) ==
    LET strings == Loadable([o \in 0 .. elf.strings - 1 |-> <<"string", o>>], maps[Len(maps)], 0)
        ls == Append(x.ls, strings)
        addr == Vbase * PageBytes + elf.args
        i == FindLoadable(ls, addr)
        start == OffsetIn(ls[i], addr)
        end == start + Len(ArgsFields)
        old == ls[i].content
        new == [o \in DOMAIN old \cup 0 .. end - 1 |->
                  CASE o \in start .. end - 1 -> <<"args", ArgsFields[o - start + 1]>>
                    [] o \notin start .. end - 1 /\ o \in DOMAIN old -> old[o]
                    [] OTHER -> <<"zero">>]
    IN  IF ~x.ok \/ i = 0 THEN [x EXCEPT !.ok = FALSE]
        ELSE IF ~(end - 1 \in DOMAIN old) /\ end > ls[i].map.len THEN [x EXCEPT !.ok = FALSE]
        ELSE [x EXCEPT !.ls = [ls EXCEPT ![i].content = new]]

(* Mutant: contents go to the start of their mapping. *)
TargetUnshifted(l, o) == l.map.phys + o

(* Where upload_binary() writes a word: virt_offset into the mapping. *)
Target(l, o) == l.map.phys + l.offset + o

(* upload_binary(): the words written to the new memory; the rest of it is *)
(* as mmap() gave it.                                                      *)
Upload(ls) ==
    LET Words(mem, l) == [p \in {Target(l, o) : o \in DOMAIN l.content} |->
                            l.content[p - Target(l, 0)]] @@ mem
    IN  FoldLeft(Words, <<>>, ls)

(* The address of device_status that vmsh goes on to use. *)
DeviceStatus(ls, elf) ==
    LET addr == Vbase * PageBytes + elf.args
        m == ls[FindLoadable(ls, addr)].map
    IN  addr - m.virt * PageBytes + m.phys

=============================================================================
