-------------------------- MODULE PageTableIterator --------------------------
(***************************************************************************)
(* How vmsh reads the guest's page tables (page_table.rs, guest_mem.rs): an*)
(* iterator over the entries of a range, and the search for the sections   *)
(* of the kernel.                                                          *)
(***************************************************************************)
EXTENDS PageTable, SeqFold

(* Where the inner iterator starts and ends: range.start and range.end in  *)
(* the first and the last entry, else 0 and usize::MAX.                    *)
InnerStart(i, start, lo) == IF i > start THEN 0 ELSE lo

(* Mutant: the end of the range cuts off every inner table. *)
InnerEndAlways(i, end, hi) == hi

InnerEnd(i, end, hi) == IF i < end THEN PageCount - 1 ELSE hi

(* What an entry e of a table adds to what its iterator has found, inner   *)
(* being all that the iterator of the table it refers to finds. A table    *)
(* that cannot be read ends the iteration of the one that refers to it.    *)
IterEntry(r, e, known, virt, level, inner) ==
    CASE r.ended \/ e.kind = "none" -> r
      [] ~r.ended /\ e.kind \in {"huge", "page"} ->
            [r EXCEPT !.found = Append(@, [virt |-> virt, level |-> level, entry |-> e])]
      [] ~r.ended /\ e.kind = "table" /\ ~Backed(known, e.to) -> [r EXCEPT !.ended = TRUE]
      [] ~r.ended /\ e.kind = "table" /\ Backed(known, e.to) -> [r EXCEPT !.found = @ \o inner]

(* PageTableIterator: the mapped entries of a table, in order, from the    *)
(* entry of page lo to the one of page hi, both included.                  *)
IterEntries(tables, known, root, lo, hi) ==
    LET Iter[level \in 0 .. 3, at \in DOMAIN tables, virt \in Pages, l \in Pages, h \in Pages] ==
            LET start == Index(l, level)
                end == Index(h, level)
                Virt(i) == virt + i * PagesOf(level)
                Inner(i) == Iter[level + 1, tables[at][i].to, Virt(i),
                                 InnerStart(i, start, l), InnerEnd(i, end, h)]
                Visit(r, i) == IterEntry(r, tables[at][i], known, Virt(i), level, Inner(i))
            IN  FoldLeft(Visit, [found |-> <<>>, ended |-> FALSE],
                         [k \in 1 .. end - start + 1 |-> start + k - 1]).found
    IN  Iter[0, root, 0, lo, hi]

(* mapped_memory() *)
MappedMemory(e) == [virt |-> e.virt, phys |-> e.entry.to, pages |-> PagesOf(e.level), prot |-> e.entry.prot]

(* The second loop of find_kernel_sections(): an entry with the protection *)
(* of the section before it makes that longer, wherever the entry is.      *)
AddEntry(r, e, known, lo) ==
    LET last == r.sections[Len(r.sections)]
        gap == IF r.gap - lo < e.virt - (last.virt + last.pages) THEN e.virt ELSE r.gap
    IN  CASE last.prot = e.entry.prot ->
                [r EXCEPT !.gap = gap, !.sections[Len(r.sections)].pages = @ + PagesOf(e.level)]
          [] last.prot # e.entry.prot /\ Backed(known, e.entry.to) ->
                [r EXCEPT !.gap = gap, !.sections = Append(@, MappedMemory(e))]
          [] last.prot # e.entry.prot /\ ~Backed(known, e.entry.to) -> [r EXCEPT !.ok = FALSE]

(* find_kernel_sections(): the sections of the kernel in the pages lo .. hi*)
(* and the end of largest_gap, which always starts at lo.                  *)
FindKernelSections(tables, known, root, lo, hi) ==
    LET entries == IterEntries(tables, known, root, lo, hi)
        above == SelectSeq(entries, LAMBDA e : e.virt > lo)
        tail == SelectSeq(Tail(above), LAMBDA e : e.virt < hi)
        first == [ok |-> TRUE, sections |-> <<MappedMemory(Head(above))>>, gap |-> Head(above).virt]
        Step(r, e) == IF r.ok THEN AddEntry(r, e, known, lo) ELSE r
    IN  IF above = <<>> \/ ~Backed(known, Head(above).entry.to)
        THEN [ok |-> FALSE, sections |-> <<>>, gap |-> lo]
        ELSE FoldLeft(Step, first, tail)

=============================================================================
