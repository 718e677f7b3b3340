------------------------------- MODULE Paging -------------------------------
(***************************************************************************)
(* The page tables: those that boot/main.asm builds, and the two loops of  *)
(* src/kernel/drivers/pcie.c that add to them.  A machine's memory         *)
(* management is the record vm:                                            *)
(*   tables  by the physical address of each page table, its entries that  *)
(*           are present: [frame |-> an address, large |-> maps a page]    *)
(*   pool    the page pool new tables are taken from                       *)
(*   stray   the pages that were written as if they were page tables       *)
(*   halted  allocate_physical_frame_with_offset found no page             *)
(* virtual_offset is 0 wherever the kernel passes one: a table's physical  *)
(* address is where the kernel reads and writes it.                        *)
(***************************************************************************)
EXTENDS Memory

CONSTANTS
    ENTRIES,          \* 512: the entries of a page table
    page_table_l4,    \* the address of the root
    IDENTITY_TABLES   \* 8: the level 2 tables that boot fills

ASSUME PagingAssumption ==
    /\ ENTRIES \in Nat \ {0, 1} /\ IDENTITY_TABLES \in 1..ENTRIES
    /\ page_table_l4 \in Nat \ {0}
    /\ page_table_l4 + (2 + IDENTITY_TABLES) * PAGE_SIZE <= END

LARGE == ENTRIES * PAGE_SIZE   \* 2 MiB, what an entry at level 2 spans
GIB   == ENTRIES * LARGE       \* what an entry at level 3 spans
UNMAPPED == UINTPTR_MOD        \* no address

PML4_INDEX(v) == (v \div (ENTRIES * GIB)) % ENTRIES
PDPT_INDEX(v) == (v \div GIB) % ENTRIES
PD_INDEX(v)   == (v \div LARGE) % ENTRIES
PT_INDEX(v)   == (v \div PAGE_SIZE) % ENTRIES

With(f, x, v) == [y \in DOMAIN f \cup {x} |-> IF y = x THEN v ELSE f[y]]

Below(frame) == [frame |-> frame, large |-> FALSE]
Page(frame)  == [frame |-> frame, large |-> TRUE]
EmptyTable   == [i \in {} |-> Below(0)]

page_table_l3    == page_table_l4 + PAGE_SIZE
page_table_l2(k) == page_table_l4 + (2 + k) * PAGE_SIZE
BootTables == {page_table_l4, page_table_l3} \cup {page_table_l2(k) : k \in 0..(IDENTITY_TABLES - 1)}

(* setup_page_tables maps the lowest 8 GiB to themselves in large pages.   *)
setup_page_tables ==
    [t \in BootTables |->
        CASE t = page_table_l4 -> [i \in {0} |-> Below(page_table_l3)]
          [] t = page_table_l3 -> [i \in 0..(IDENTITY_TABLES - 1) |-> Below(page_table_l2(i))]
          [] OTHER -> LET k == (t - page_table_l2(0)) \div PAGE_SIZE
                      IN  [i \in 0..(ENTRIES - 1) |-> Page((k * ENTRIES + i) * LARGE)]]

(* allocate_physical_frame_with_offset, for the table below entry i of t.  *)
NewTable(vm, t, i) ==
    LET r == memory_alloc_pages(vm.pool, 1)
    IN  IF r.ptr = NULL
        THEN [vm EXCEPT !.pool = r.pool, !.halted = TRUE]
        ELSE [vm EXCEPT !.pool = r.pool,
                        !.tables = With(With(@, t, With(@[t], i, Below(r.ptr))), r.ptr, EmptyTable)]

(* One "if (!(table[i] & PAGE_PRESENT))" of the two loops.                 *)
table_below(vm, t, i) ==
    IF vm.halted \/ i \in DOMAIN vm.tables[t] THEN vm ELSE NewTable(vm, t, i)

(* The level 3 and level 2 tables for v, made if they are not there.       *)
tables_for(vm, v) ==
    LET a == table_below(vm, page_table_l4, PML4_INDEX(v))
    IN  IF a.halted THEN a
        ELSE table_below(a, a.tables[page_table_l4][PML4_INDEX(v)].frame, PDPT_INDEX(v))

directory(vm, v) == vm.tables[vm.tables[page_table_l4][PML4_INDEX(v)].frame][PDPT_INDEX(v)].frame

(* One iteration of map_pcie_ecam_2mb: v is mapped to a large page.        *)
map_large(vm, v, phys) ==
    LET a == tables_for(vm, v)
        d == directory(a, v)
    IN  IF a.halted THEN a
        ELSE [a EXCEPT !.tables = With(@, d, With(@[d], PD_INDEX(v), Page(phys)))]

(* Mutant: a large page in the way is replaced by a page table.            *)
map_small_split(vm, v, phys) ==
    LET a  == tables_for(vm, v)
        t  == directory(a, v)
        b  == IF a.tables[t][PD_INDEX(v)].large THEN NewTable(a, t, PD_INDEX(v)) ELSE a
        pt == b.tables[t][PD_INDEX(v)].frame
    IN  [b EXCEPT !.tables =
            With(@, pt, With(@[pt], PT_INDEX(v), Below(phys - (phys % PAGE_SIZE))))]

(***************************************************************************)
(* One iteration of map_mmio_region: v is mapped to a page of 4 KiB.  An   *)
(* entry at level 2 that is present is taken for a page table, also when   *)
(* it maps a large page: the write then goes into that page.               *)
(***************************************************************************)
map_small(vm, v, phys) ==
    LET a  == tables_for(vm, v)
        b  == table_below(a, directory(a, v), PD_INDEX(v))
        e  == b.tables[directory(b, v)][PD_INDEX(v)]
        pt == e.frame
    IN  IF a.halted THEN a
        ELSE IF b.halted THEN b
        ELSE IF e.large THEN [b EXCEPT !.stray = @ \cup {pt}]
        ELSE [b EXCEPT !.tables =
                 With(@, pt, With(@[pt], PT_INDEX(v), Below(phys - (phys % PAGE_SIZE))))]

(***************************************************************************)
(* The processor: where the virtual address v leads.  A large page that is *)
(* not aligned has reserved bits set and faults, as no mapping at all does.*)
(***************************************************************************)
translate(tables, v) ==
    LET Digit(span)  == (v \div span) % ENTRIES
        Has(t, span) == t \in DOMAIN tables /\ Digit(span) \in DOMAIN tables[t]
        t3 == tables[page_table_l4][Digit(ENTRIES * GIB)].frame
        t2 == tables[t3][Digit(GIB)].frame
        e  == tables[t2][Digit(LARGE)]
    IN  IF ~(Has(page_table_l4, ENTRIES * GIB) /\ Has(t3, GIB) /\ Has(t2, LARGE))
        THEN UNMAPPED
        ELSE IF e.large
             THEN IF e.frame % LARGE = 0 THEN e.frame + (v % LARGE) ELSE UNMAPPED
             ELSE IF Has(e.frame, PAGE_SIZE)
                  THEN tables[e.frame][Digit(PAGE_SIZE)].frame + (v % PAGE_SIZE)
                  ELSE UNMAPPED
=============================================================================
