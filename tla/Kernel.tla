------------------------------- MODULE Kernel -------------------------------
(***************************************************************************)
(* From the boot loader to the idle loop: the checks and page tables of    *)
(* boot/main.asm, then kernel_main of src/kernel/main.c with everything it *)
(* sets up, in its order, over the page tables, the PCI Express driver and *)
(* the descriptors of the modules this one extends.  What drivers may call *)
(* afterwards follows.                                                     *)
(*                                                                         *)
(* The boot information is a list of tags in memory: info maps the address *)
(* of each to its type and size, and an ACPI tag (types 14 and 15) to the  *)
(* root pointer behind its header.                                         *)
(***************************************************************************)
EXTENDS Pcie, Interrupts

CONSTANTS
    multiboot_addr,  \* where the boot loader put the boot information
    Infos,           \* what it may have left there
    Cpus,            \* the processors: what the boot checks see of them
    l_pageCount,     \* 16: the pages malloc takes at a time
    Masked,          \* the vectors whose gates drivers switch on and off
    Resources,       \* what drivers map: records of phys and size
    MaxRanges        \* bound: the ranges handed out before drivers stop

ASSUME KernelAssumption ==
    /\ multiboot_addr \in Nat /\ multiboot_addr % 8 = 0 /\ MaxRanges \in Nat
    /\ l_pageCount \in Nat \ {0} /\ pool_end + l_pageCount * PAGE_SIZE < UINTPTR_MOD
    /\ pool_end <= 3 * GIB
    /\ \A r \in Resources : {r.phys, r.size} \subseteq Nat

(* The boot loader's layout: each tag at the next multiple of 8 behind the *)
(* one before it, and the end tag, of type 0, behind all others.           *)
LaidOut(tags) ==
    /\ DOMAIN tags \subseteq Nat /\ multiboot_addr + 8 \in DOMAIN tags
    /\ \A a \in DOMAIN tags : multiboot_addr + 8 <= a
    /\ \E a \in DOMAIN tags : tags[a].type = 0
    /\ \A a \in DOMAIN tags :
          LET behind == a + ((tags[a].size + 7) \div 8) * 8
          IN  /\ tags[a].size \in 8..(UINTPTR_MOD - 8)
              /\ IF tags[a].type = 0
                 THEN \A b \in DOMAIN tags : b <= a
                 ELSE /\ behind \in DOMAIN tags
                      /\ \A b \in DOMAIN tags : b <= a \/ behind <= b

ASSUME InfoAssumption == \A tags \in Infos : LaidOut(tags)

VARIABLES
    processor,   \* what the checks find
    info,        \* the boot information
    tag,         \* the tag a walk is at
    screen,      \* the frame buffer tag vbe_init found
    acpi_rsdp    \* the root pointer: the address of its tag

kernel_vars == <<processor, info, tag, screen, acpi_rsdp>>
vars == <<pcie_vars, pc, interrupt_vars, kernel_vars>>

(* The size of a tag, rounded up to 8.                                     *)
tag_step(size) == align_up(size, 8)

info_end == CHOOSE e \in {a + info[a].size : a \in DOMAIN info} :
                \A a \in DOMAIN info : a < e

Init ==
    /\ InitMachine
    /\ vm = [tables |-> [t \in {} |-> EmptyTable], pool |-> unset_pool, stray |-> {}, halted |-> FALSE]
    /\ pc = "start"
    /\ InitPcieState
    /\ InitInterrupts
    /\ processor \in Cpus
    /\ info \in Infos
    /\ tag = 0 /\ screen = NULL /\ acpi_rsdp = NULL

(*------------------------------- the boot code ---------------------------*)

kernel_step == cpu = Running

(***************************************************************************)
(* check_multiboot, check_cpuid and check_long_mode.  The last one refuses *)
(* a processor whose highest extended leaf is the very one it goes on to   *)
(* read.  trigger_error prints a letter and halts.                         *)
(***************************************************************************)
Checks ==
    /\ kernel_step /\ pc = "start"
    /\ pc' = IF /\ processor.multiboot /\ processor.cpuid
                /\ processor.leaf # "80000001" /\ processor.long_mode
             THEN "paging" ELSE "error"
    /\ UNCHANGED <<pcie_vars, interrupt_vars, kernel_vars>>

SetupPageTables ==
    /\ kernel_step /\ pc = "paging"
    /\ vm' = [vm EXCEPT !.tables = setup_page_tables]
    /\ pc' = "gdt"
    /\ UNCHANGED <<machine, config, bus_memory, g_pml4_virt, g_mmio_next, g_next_vector,
                   pcie_devices, segment, stack, loop, ranges, vectors,
                   interrupt_vars, kernel_vars>>

(*------------------------------- kernel_main -----------------------------*)

GdtInitialize ==
    /\ kernel_step /\ pc = "gdt"
    /\ GDT_Initialize
    /\ pc' = "memory"
    /\ UNCHANGED <<pcie_vars, kernel_vars>>

(* Mutant: malloc is tried as soon as there is a pool.                     *)
MemoryInitTested ==
    /\ kernel_step /\ pc = "memory"
    /\ vm' = [vm EXCEPT !.pool = memory_alloc_pages(memory_init, l_pageCount).pool]
    /\ pc' = "idt"
    /\ UNCHANGED <<machine, config, bus_memory, g_pml4_virt, g_mmio_next, g_next_vector,
                   pcie_devices, segment, stack, loop, ranges, vectors,
                   interrupt_vars, kernel_vars>>

MemoryInit ==
    /\ kernel_step /\ pc = "memory"
    /\ vm' = [vm EXCEPT !.pool = memory_init]
    /\ pc' = "idt"
    /\ UNCHANGED <<machine, config, bus_memory, g_pml4_virt, g_mmio_next, g_next_vector,
                   pcie_devices, segment, stack, loop, ranges, vectors,
                   interrupt_vars, kernel_vars>>

IdtInitialize ==
    /\ kernel_step /\ pc = "idt"
    /\ IDT_Initialize
    /\ tag' = multiboot_addr + 8
    /\ pc' = "vbe"
    /\ UNCHANGED <<pcie_vars, processor, info, screen, acpi_rsdp>>

FRAMEBUFFER == 8
ACPI_OLD == 14
ACPI_NEW == 15

(* vbe_init: the first frame buffer tag before the end tag.                *)
VbeInit ==
    /\ kernel_step /\ pc = "vbe" /\ tag \in DOMAIN info
    /\ IF info[tag].type \in {0, FRAMEBUFFER}
       THEN /\ screen' = IF info[tag].type = FRAMEBUFFER THEN tag ELSE screen
            /\ tag' = multiboot_addr + 8
            /\ pc' = "tags"
       ELSE /\ tag' = tag + tag_step(info[tag].size)
            /\ UNCHANGED <<screen, pc>>
    /\ UNCHANGED <<pcie_vars, interrupt_vars, processor, info, acpi_rsdp>>

(* Mutant: the last of the two kinds of root pointer wins.                 *)
TagsLastWins ==
    /\ kernel_step /\ pc = "tags" /\ tag \in DOMAIN info
    /\ IF tag >= info_end \/ info[tag].type = 0
       THEN /\ pc' = "acpi"
            /\ UNCHANGED <<tag, acpi_rsdp>>
       ELSE /\ acpi_rsdp' = IF info[tag].type \in {ACPI_OLD, ACPI_NEW} THEN tag ELSE acpi_rsdp
            /\ tag' = tag + tag_step(info[tag].size)
            /\ UNCHANGED pc
    /\ UNCHANGED <<pcie_vars, interrupt_vars, processor, info, screen>>

(***************************************************************************)
(* The walk of kernel_main: the root pointer of ACPI 2.0, or the old one   *)
(* if there is no other so far.                                            *)
(***************************************************************************)
Tags ==
    /\ kernel_step /\ pc = "tags" /\ tag \in DOMAIN info
    /\ IF tag >= info_end \/ info[tag].type = 0
       THEN /\ pc' = "acpi"
            /\ UNCHANGED <<tag, acpi_rsdp>>
       ELSE /\ acpi_rsdp' = IF \/ info[tag].type = ACPI_NEW
                               \/ info[tag].type = ACPI_OLD /\ acpi_rsdp = NULL
                            THEN tag ELSE acpi_rsdp
            /\ tag' = tag + tag_step(info[tag].size)
            /\ UNCHANGED pc
    /\ UNCHANGED <<pcie_vars, interrupt_vars, processor, info, screen>>

(* find_mcfg_table: the first MCFG in the XSDT, which only revision 2 has; *)
(* NULL, or its place in the XSDT.                                         *)
find_mcfg_table(rsdp) ==
    LET hits == {k \in 1..Len(rsdp.xsdt) : rsdp.xsdt[k] = "MCFG"}
    IN  IF rsdp.revision < 2 \/ hits = {} THEN NULL
        ELSE CHOOSE k \in hits : \A j \in hits : k <= j

(* initPcie is called if there is a table for it.                          *)
FindMcfg ==
    /\ kernel_step /\ pc = "acpi"
    /\ pc' = IF /\ acpi_rsdp # NULL
                /\ find_mcfg_table(info[acpi_rsdp].rsdp) # NULL
             THEN "segment" ELSE "malloc"
    /\ UNCHANGED <<pcie_vars, interrupt_vars, kernel_vars>>

(* A step of initPcie; the processor faults at an address not mapped.      *)
PcieStep ==
    /\ kernel_step
    /\ PcieNext
    /\ UNCHANGED <<interrupt_vars, kernel_vars>>

(* initPcie has been through all entries and returned.                     *)
InitPcieDone ==
    /\ kernel_step /\ pc = "segment"
    /\ segment = Len(machine.mcfg)
    /\ pcie_set_pml4_and_offset(page_table_l4)
    /\ pc' = "malloc"
    /\ UNCHANGED <<interrupt_vars, kernel_vars>>

(* malloc(32) and malloc(64): each takes a chunk, if the pool has one, and *)
(* free keeps it.                                                          *)
TestMalloc ==
    /\ kernel_step /\ pc = "malloc"
    /\ vm' = [vm EXCEPT !.pool =
                 memory_alloc_pages(memory_alloc_pages(@, l_pageCount).pool, l_pageCount).pool]
    /\ pc' = "idle"
    /\ UNCHANGED <<machine, config, bus_memory, g_pml4_virt, g_mmio_next, g_next_vector,
                   pcie_devices, segment, stack, loop, ranges, vectors,
                   interrupt_vars, kernel_vars>>

(*--------------------------------- drivers -------------------------------*)

EnableDevice ==
    /\ kernel_step /\ segment > 0
    /\ \E d \in ToSet(pcie_devices) : pcie_enable_device(d.fn, "idle")
    /\ UNCHANGED <<interrupt_vars, kernel_vars>>

MapResource ==
    /\ kernel_step /\ Len(ranges) < MaxRanges
    /\ \E r \in Resources : pcie_map_phys_mmio(r.phys, r.size, "idle")
    /\ UNCHANGED <<interrupt_vars, kernel_vars>>

Interrupt ==
    /\ \/ \E v \in Strikes : Strike(v)
       \/ Pop \/ Iretq
       \/ pc = "idle" /\ kernel_step /\ \E v \in Masked, on \in BOOLEAN : SwitchGate(v, on)
    /\ UNCHANGED <<pcie_vars, pc, kernel_vars>>

KernelStep ==
    \/ Checks \/ SetupPageTables
    \/ GdtInitialize \/ MemoryInit \/ IdtInitialize
    \/ VbeInit \/ Tags \/ FindMcfg \/ PcieStep \/ InitPcieDone \/ TestMalloc

Next == KernelStep \/ EnableDevice \/ MapResource \/ Interrupt

Spec == Init /\ [][Next]_vars

(* The kernel goes on unless an interrupt is being served, which it is.    *)
FairSpec == Spec /\ WF_vars(KernelStep) /\ WF_vars(cpu # Running /\ Interrupt)

(*------------------------------- properties ------------------------------*)

BeforePaging == {"start", "paging", "error"}
BeforeAcpi   == BeforePaging \cup {"gdt", "memory", "idt", "vbe", "tags"}
Enumerating  == {"walk", "bridge", "bar", "restore", "map_bar", "program"}
Finished     == {"malloc", "idle"}

(* Every variable keeps its type; the walks over the boot information are  *)
(* always at a tag, and the table of devices keeps to its size.            *)
TypeOK ==
    /\ pc \in BeforeAcpi \cup Enumerating \cup Finished \cup {"acpi", "segment", "ecam", "mmio"}
    /\ tag \in DOMAIN info \cup {0}
    /\ {screen, acpi_rsdp} \subseteq DOMAIN info \cup {NULL}
    /\ g_pml4_virt \in {NULL, page_table_l4} /\ g_mmio_next \in 0..(UINTPTR_MOD - 1)
    /\ g_next_vector \in FIRST_VECTOR..END_VECTOR
    /\ Len(pcie_devices) <= PCIE_MAX_DEVICES
    /\ \A c \in ToSet(stack) : c.dev < DEVICES /\ c.func < FUNCTIONS /\ c.bus <= c.end + 1
    /\ cpu.at \in {"none", "stub", "iretq"}

(***************************************************************************)
(* The walks over the boot information never leave its tags (TypeOK), and  *)
(* whatever order these come in, the ACPI 2.0 root pointer is taken if     *)
(* there is one, else the old one; and the frame buffer is found if there  *)
(* is a tag for it.                                                        *)
(***************************************************************************)
TagsFound ==
    LET Types == {info[a].type : a \in DOMAIN info}
    IN  /\ TypeOK
        /\ pc \notin BeforeAcpi =>
            /\ ACPI_NEW \in Types => acpi_rsdp # NULL /\ info[acpi_rsdp].type = ACPI_NEW
            /\ ACPI_OLD \in Types => acpi_rsdp # NULL
            /\ FRAMEBUFFER \in Types => screen # NULL /\ info[screen].type = FRAMEBUFFER

(***************************************************************************)
(* The boot loader may have put the boot information just behind the       *)
(* kernel, where the page pool is: nobody reads it any more once a page    *)
(* has been handed out.                                                    *)
(***************************************************************************)
InfoReadBeforeReused ==
    pc \in {"vbe", "tags", "acpi"} => vm.pool.next = kernel_end

(* The pages that boot mapped to themselves, the kernel's own among them,  *)
(* stay mapped to themselves whatever is mapped later.                     *)
IdentityKept ==
    pc \notin BeforePaging =>
        \A n \in 0..(IDENTITY_TABLES * ENTRIES - 1) :
            translate(vm.tables, n * LARGE) = n * LARGE

(***************************************************************************)
(* While the buses of an MCFG entry are enumerated, each configuration     *)
(* address leads to the page of that very function.                        *)
(***************************************************************************)
EcamTranslates ==
    pc \in Enumerating =>
        \A bus \in machine.mcfg[segment].start..machine.mcfg[segment].end,
           dev \in 0..(DEVICES - 1), func \in 0..(FUNCTIONS - 1) :
               Address(bus, dev, func) = ConfigPage(<<bus, dev, func>>)

(* One MCFG entry, of buses from 0, at an address a large page can have:   *)
(* what map_pcie_ecam_2mb and the address computation take for granted.    *)
OneSegment ==
    \A m \in Machines :
        /\ Len(m.mcfg) <= 1
        /\ \A k \in 1..Len(m.mcfg) : m.mcfg[k].start = 0 /\ m.mcfg[k].base % LARGE = 0

(***************************************************************************)
(* What PCI asks of functions that are to be found: they are on a bus of   *)
(* the MCFG entry, and function 0 of their device is there and says if     *)
(* there are more.                                                         *)
(***************************************************************************)
FunctionsAnnounced ==
    \A m \in Machines : \A fn \in DOMAIN m.functions :
        LET first == <<fn[1], fn[2], 0>>
        IN  /\ Len(m.mcfg) = 1 => fn[1] <= m.mcfg[1].end
            /\ first \in DOMAIN m.functions
            /\ fn[3] > 0 => m.functions[first].multi

(***************************************************************************)
(* And of MSI-X: a list of capabilities leads to its own entries, to MSI-X *)
(* within the number of them that is followed, and the BAR that this names *)
(* is there and has been assigned.                                         *)
(***************************************************************************)
MsixReachable ==
    \A m \in Machines : \A fn \in DOMAIN m.functions :
        LET f     == m.functions[fn]
            c     == f.caps
            Slots == DOMAIN c.id
        IN  /\ 0 \notin Slots /\ c.start \in Slots \cup {0}
            /\ \A p \in Slots : c.next[p] \in Slots \cup {0}
            /\ (\E p \in Slots : c.id[p] = MSIX) =>
                  /\ \E n \in 0..(MAX_CAPABILITIES - 1) : \E path \in [0..n -> Slots] :
                        /\ path[0] = c.start /\ c.id[path[n]] = MSIX
                        /\ \A k \in 1..n : path[k] = c.next[path[k - 1]]
                  /\ f.msix.bir \in DOMAIN f.bars /\ f.bars[f.msix.bir].base # 0

(* Sizing leaves no trace: except between its write of all ones and the    *)
(* restoring one, every BAR holds what the firmware assigned.              *)
BarsRestored ==
    pc # "restore" =>
        \A fn \in DOMAIN config : \A i \in 0..6 : config[fn].bar[i] = register(fn, i).value

(* The size pcie_get_bar_size finds for ports of 16 bits has the upper     *)
(* half of the register, which is wired to 0, in it: nearly 4 GiB.         *)
size_found(b) == IF b.kind = "io16" THEN b.size + (REG_MOD - HALF_MOD) ELSE b.size

(***************************************************************************)
(* A function's BARs are in the table with the base they have and, those   *)
(* of 32 and 64 bits, the size they have, ports and memory alike.  Ports   *)
(* with a register of 16 bits have the base, but not the size.             *)
(***************************************************************************)
BarsRight ==
    \A k \in 1..Len(pcie_devices) :
        k < Len(pcie_devices) \/ pc \notin {"bar", "restore", "map_bar", "mmio"} =>
            LET d == pcie_devices[k]
                b == machine.functions[d.fn].bars
            IN  \A i \in DOMAIN b : d.bars[i] = b[i].base /\ d.bar_size[i] = size_found(b[i])

PagesOf(r) == (r.virt \div PAGE_SIZE)..((r.virt + r.size - 1) \div PAGE_SIZE)

(* No page of the window is handed out for two things, nor is one of the   *)
(* configuration space.                                                    *)
RangesDisjoint ==
    /\ \A i, j \in 1..Len(ranges) : i < j => PagesOf(ranges[i]) \cap PagesOf(ranges[j]) = {}
    /\ \A i \in 1..Len(ranges) :
          \A p \in PagesOf(ranges[i]) : p * PAGE_SIZE < PCIE_VIRTUAL_BASE

(***************************************************************************)
(* What goes astray - entries of MSI-X tables while nothing is mapped in   *)
(* the window, entries of page tables where map_mmio_region takes a large  *)
(* page for a table - lands behind the kernel and its pool: it overwrites  *)
(* neither code nor data nor a page table.                                 *)
(***************************************************************************)
WritesMissKernel == \A a \in DOMAIN bus_memory \cup vm.stray : pool_end <= a

(* Vectors for MSI-X are never those of exceptions or of the local APIC,   *)
(* and none is given out again before all others have been.                *)
VectorsSound ==
    \A i, j \in 1..Len(vectors) :
        /\ FIRST_VECTOR <= vectors[i] /\ vectors[i] < END_VECTOR
        /\ i < j /\ j - i < END_VECTOR - FIRST_VECTOR => vectors[i] # vectors[j]

(* A function that has MSI-X switched on is one that has the capability,   *)
(* wherever in its list, and every function in the table that has it, and  *)
(* a table to fill, has it switched on.                                    *)
MsixWhereCapable ==
    \A fn \in DOMAIN config :
        LET f == machine.functions[fn]
            Capable == \E p \in DOMAIN f.caps.id : f.caps.id[p] = MSIX
        IN  /\ config[fn].msix => Capable
            /\ /\ pc \in Finished /\ Capable
               /\ \E d \in ToSet(pcie_devices) : d.fn = fn
               => config[fn].msix

(***************************************************************************)
(* When the kernel goes on after initPcie, every function there is, behind *)
(* bridges too, is in the table, unless the table is full; and MSI-X is on *)
(* where it was found, and nowhere else.                                   *)
(***************************************************************************)
EveryFunctionRecorded ==
    /\ pc \in Finished /\ segment > 0 /\ Len(pcie_devices) < PCIE_MAX_DEVICES =>
          \A fn \in DOMAIN machine.functions : \E d \in ToSet(pcie_devices) : d.fn = fn
    /\ MsixWhereCapable

(***************************************************************************)
(* The kernel comes to its idle loop, or to an error of the boot checks:   *)
(* the walks, the recursion into bridges and all the loops end, and what   *)
(* they access is mapped.  There is one exception, an MSI-X table behind   *)
(* the memory that boot mapped, at which the kernel is stuck.              *)
(***************************************************************************)
BootEnds == <>(pc \in {"idle", "error"} \/ BeyondIdentity)

(***************************************************************************)
(* What pcie.h says of the mapping functions: the address they return is   *)
(* the virtual base of the resource asked for.                             *)
(***************************************************************************)
ReturnedIsMapped ==
    pc = "idle" =>
        \A i \in 1..Len(ranges) : translate(vm.tables, ranges[i].virt) = ranges[i].phys

(***************************************************************************)
(* What pcie.c says of 64 bit BARs: one takes two registers.  So the       *)
(* driver has addresses for BARs only, and the upper register of one, or a *)
(* bridge's bus numbers, is not taken for a BAR of its own.                *)
(***************************************************************************)
OnlyBarsMapped ==
    pc = "idle" =>
        \A d \in ToSet(pcie_devices) : \A i \in 0..5 :
            d.bars_virt[i] # 0 => i \in DOMAIN machine.functions[d.fn].bars
=============================================================================
