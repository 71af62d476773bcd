------------------------------ MODULE PageTable ------------------------------
(***************************************************************************)
(* The guest's four-level page tables as vmsh reads and extends them       *)
(* (page_table.rs, guest_mem.rs). Guest memory that holds tables is a      *)
(* function from physical addresses to tables; a virtual address is a page *)
(* number. The tables are worked on in copies and written back by the      *)
(* caller, in one process_vm_writev().                                     *)
(***************************************************************************)
EXTENDS Integers, Sequences

CONSTANTS EntryCount,   \* ENTRY_COUNT: entries of a table
          PageBytes     \* bytes of a page, and of a table

ASSUME EntryAssumption == EntryCount \in Nat /\ EntryCount > 1
ASSUME PageBytesAssumption == PageBytes \in Nat /\ PageBytes > 0

(* There are four levels. *)
PageCount == EntryCount * EntryCount * EntryCount * EntryCount

Pages == 0 .. PageCount - 1

(* PageTableEntry and the flags that matter: PRESENT, HUGE_PAGE, and the   *)
(* protection of what is mapped, from WRITABLE and NO_EXECUTE.             *)
Kinds == {"none", "table", "huge", "page"}
Prots == {"r", "rw", "rx", "rwx"}
Entry(kind, to, prot) == [kind |-> kind, to |-> to, prot |-> prot]
NoEntry == Entry("none", 0, "-")
Entries == 0 .. EntryCount - 1
EmptyTable == [i \in Entries |-> NoEntry]
Tables == [Entries -> [kind : Kinds, to : Nat, prot : Prots \cup {"-"}]]

(* Pages that an entry of a table of a level spans: huge_page_size(). *)
PagesOf(level) ==
    <<EntryCount * EntryCount * EntryCount, EntryCount * EntryCount, EntryCount, 1>>[level + 1]

(* get_index() *)
Index(v, level) == (v \div PagesOf(level)) % EntryCount

(* An entry of a table refers to the table at b. *)
Link(tables, a, i, b) ==
    a \in DOMAIN tables /\ i \in Entries /\ tables[a][i].kind = "table" /\ tables[a][i].to = b

(* All tables that are linked are there, and the pml4 is linked nowhere. *)
WellFormed(tables, root) ==
    /\ DOMAIN tables \subseteq Nat /\ root \in DOMAIN tables
    /\ tables \in [DOMAIN tables -> Tables]
    /\ \A a \in DOMAIN tables, i \in Entries :
          tables[a][i].kind = "table" => tables[a][i].to \in DOMAIN tables \ {root}

(* The entries that lead to the tables of the pages around page first: one *)
(* of the pml4, one of a level-1 table, and all of a level-2 table.        *)
OnTheWay(tables, root, first, a, i) ==
    \/ a = root /\ i = Index(first, 0)
    \/ Link(tables, root, Index(first, 0), a) /\ i = Index(first, 1)
    \/ \E b \in DOMAIN tables :
          Link(tables, root, Index(first, 0), b) /\ Link(tables, b, Index(first, 1), a)

(* They are entries for tables, and these tables are linked nowhere else. *)
TablesPrivate(tables, root, first) ==
    \A a \in DOMAIN tables, i \in Entries : OnTheWay(tables, root, first, a, i) =>
        /\ tables[a][i].kind # "page"
        /\ \A b \in DOMAIN tables, j \in Entries, c \in DOMAIN tables :
              Link(tables, a, i, c) /\ Link(tables, b, j, c) => b = a /\ j = i

(* PhysHostMap::get(): whether a memory slot known to vmsh has the address.*)
Backed(known, addr) == \E s \in known : s.lo <= addr /\ addr <= s.hi - 1

(* table_align() / ENTRY_COUNT *)
TablesFor(n) == (n + EntryCount - 1) \div EntryCount

(* estimate_page_table_size(), in bytes, for whole pages. *)
EstimatePageTableSize(size) ==
    LET t1 == TablesFor(size \div PageBytes)
        t2 == TablesFor(t1)
        t3 == TablesFor(t2)
    IN  (t1 + t2 + t3 + TablesFor(t3)) * PageBytes

-----------------------------------------------------------------------------
(* map_memory(). The walk w has the tables to write (up, upsert_tables),   *)
(* the addresses of those that existed (old, old_tables), the next free    *)
(* table (pt), the table it stands at, ok unless it bailed out, and where  *)
(* the loops are: at the mapping m, of which n pages are done, and page v. *)

(* Entries of f hide those of g. *)
Over(f, g) == [a \in DOMAIN f \cup DOMAIN g |-> IF a \in DOMAIN f THEN f[a] ELSE g[a]]

(* read_page_table() *)
ReadPageTable(w, tables, known, addr) ==
    IF Backed(known, addr)
    THEN [w EXCEPT !.up = Over([a \in {addr} |-> tables[a]], @), !.old = @ \cup {addr}, !.at = addr]
    ELSE [w EXCEPT !.ok = FALSE]

(* allocate_page_table() *)
AllocatePageTable(w, i) ==
    LET linked == [w.up EXCEPT ![w.at][i] = Entry("table", w.pt, "-")]
    IN  [w EXCEPT !.up = Over([a \in {w.pt} |-> EmptyTable], linked),
                  !.pt = @ + PageBytes, !.at = w.pt]

(* get_page_table(): a table of an earlier step, the guest's, or a new one.*)
GetPageTable(w, tables, known, i) ==
    LET e == w.up[w.at][i]
    IN  IF e.kind = "huge" THEN [w EXCEPT !.ok = FALSE]
        ELSE IF e.kind = "none" THEN AllocatePageTable(w, i)
        ELSE IF e.to \in DOMAIN w.up THEN [w EXCEPT !.at = e.to]
        ELSE ReadPageTable(w, tables, known, e.to)

(* Mutant: a mapped page is overwritten. *)
SetPageOver(w, i, phys, prot) == [w EXCEPT !.up[w.at][i] = Entry("page", phys, prot)]

(* The innermost loop's body; page_table_flags() keeps the protection. *)
SetPage(w, i, phys, prot) ==
    IF w.up[w.at][i].kind # "none" THEN [w EXCEPT !.ok = FALSE]
    ELSE [w EXCEPT !.up[w.at][i] = Entry("page", phys, prot)]

(* One page: from the pml4 down to its entry, stopping where a step fails. *)
MapPage(w, tables, known, root, v, phys, prot) ==
    LET Down(x, level) == IF x.ok THEN GetPageTable(x, tables, known, Index(v, level)) ELSE x
        leaf == Down(Down(Down([w EXCEPT !.at = root], 0), 1), 2)
    IN  IF leaf.ok THEN SetPage(leaf, Index(v, 3), phys, prot) ELSE leaf

(* get_start_idx(): where a loop starts for a mapping at page first, when  *)
(* the loop around it is at its iteration idx.                             *)
GetStartIdx(first, idx, level) == IF idx # 0 THEN 0 ELSE Index(first, level)

(* Whether the four loops come to page v. *)
IsVisited(v, first) ==
    LET start0 == Index(first, 0)
        start1 == GetStartIdx(first, Index(v, 0) - start0, 1)
        start2 == GetStartIdx(first, Index(v, 1) - start1, 2)
        start3 == GetStartIdx(first, Index(v, 2) - start2, 3)
    IN  /\ Index(v, 0) >= start0 /\ Index(v, 1) >= start1
        /\ Index(v, 2) >= start2 /\ Index(v, 3) >= start3

(* map_memory() up to its loop: maps is a sequence of mappings that follow *)
(* each other in physical memory, and the new tables follow them.          *)
StartMapping(tables, known, root, maps) ==
    LET last == maps[Len(maps)]
        start == [up |-> <<>>, old |-> {}, pt |-> last.phys + last.len, at |-> root, ok |-> TRUE,
                  m |-> 1, n |-> 0, v |-> maps[1].virt]
        Consecutive == \A i \in 2 .. Len(maps) : maps[i - 1].phys + maps[i - 1].len = maps[i].phys
        read == ReadPageTable(start, tables, known, root)
    IN  IF Consecutive THEN read ELSE [read EXCEPT !.ok = FALSE]

(* The next page of map_memory_single(), or the next mapping when len is   *)
(* used up. The loops may run out of pages, which is no error.             *)
MapNext(w, tables, known, root, maps) ==
    LET m == maps[w.m]
        x == MapPage(w, tables, known, root, w.v, m.phys + w.n * PageBytes, m.prot)
        ahead == {u \in Pages : u > w.v /\ IsVisited(u, m.virt)}
    IN  IF (w.n + 1) * PageBytes = m.len \/ ahead = {}
        THEN [x EXCEPT !.m = w.m + 1, !.n = 0,
                       !.v = IF w.m < Len(maps) THEN maps[w.m + 1].virt ELSE w.v]
        ELSE [x EXCEPT !.n = w.n + 1, !.v = CHOOSE u \in ahead : \A a \in ahead : u <= a]

-----------------------------------------------------------------------------
(* What the processor finds for a page: the reference for the above. *)
Unmapped == [to |-> 0, prot |-> "none"]

(* One level down for page v: from a table to the next, or to the result. *)
Descend(tables, x, level, v) ==
    LET e == tables[x.at][Index(v, level)]
    IN  IF x.done \/ e.kind = "none" THEN [x EXCEPT !.done = TRUE]
        ELSE IF e.kind = "table" THEN [x EXCEPT !.at = e.to]
        ELSE [x EXCEPT !.done = TRUE,
                       !.res = [to |-> e.to + (v % PagesOf(level)) * PageBytes, prot |-> e.prot]]

Translate(tables, root, v) ==
    LET Down(x, level) == Descend(tables, x, level, v)
    IN  Down(Down(Down(Down([at |-> root, done |-> FALSE, res |-> Unmapped], 0), 1), 2), 3).res

=============================================================================
