-------------------------------- MODULE Pcie --------------------------------
(***************************************************************************)
(* src/kernel/drivers/pcie.c: the configuration space (ECAM) is mapped,    *)
(* the functions on its buses are found and put into a table, their BARs   *)
(* are sized and mapped, and their MSI-X tables filled.                    *)
(*                                                                         *)
(* A loop iteration, or a call, is one action; the recursion of            *)
(* pcie_enumerate_devices is a stack.  The machine is chosen in Init:      *)
(*   mcfg       the entries of the MCFG table: base, start and end bus     *)
(*   functions  by <<bus, device, function>>, what is there: multi,        *)
(*              bridge (and its registers behind the BARs), bars, and its  *)
(*              capabilities (caps, msix)                                  *)
(* Vendor, device and class codes other than that of a bridge change       *)
(* nothing and are left out.                                               *)
(***************************************************************************)
EXTENDS Paging, Sequences, FiniteSets, SequencesExt

CONSTANTS
    BYTE,              \* 256: the values of a byte
    DEVICES,           \* 32: the devices on a bus
    FUNCTIONS,         \* 8: the functions of a device
    PCIE_MAX_DEVICES,  \* 1024: the size of the device table
    FIRST_VECTOR,      \* 0x40: the first vector given to MSI-X
    END_VECTOR,        \* 0xF0: the first that is not
    MAX_CAPABILITIES,  \* 64: how far a capability list is followed
    MSIX_ENTRY,        \* 16: the bytes of an MSI-X table entry
    Machines           \* what the kernel may be started on

REG_MOD == BYTE * BYTE * BYTE * BYTE     \* a configuration register's values
BUS     == DEVICES * FUNCTIONS * PAGE_SIZE   \* 1 MiB: one bus's registers

ASSUME PcieAssumption ==
    /\ BYTE \in Nat \ {0, 1} /\ BYTE % 2 = 0
    /\ {DEVICES, FUNCTIONS, PCIE_MAX_DEVICES, MAX_CAPABILITIES, MSIX_ENTRY} \subseteq Nat \ {0}
    /\ FIRST_VECTOR \in Nat /\ END_VECTOR \in Nat /\ FIRST_VECTOR < END_VECTOR
    /\ REG_MOD * REG_MOD = UINTPTR_MOD /\ LARGE = 2 * BUS /\ BYTE * BUS <= GIB
    /\ UINTPTR_MOD % (ENTRIES * ENTRIES * GIB) = 0

PCIE_VIRTUAL_BASE == UINTPTR_MOD - GIB

HALF_MOD == BYTE * BYTE      \* 64 KiB: what 16 bits of a register address

(* What the specifications of PCI leave to a BAR: a block of a power of    *)
(* two, aligned to its size, that is in the space its registers address    *)
(* but not all of it, and no smaller than their flag bits.  Ports have a   *)
(* register of 32 bits (io) or of 16, the others wired to 0 (io16).        *)
BlockOf(b) ==
    LET space == CASE b.kind = "mem64" -> UINTPTR_MOD
                   [] b.kind = "io16"  -> HALF_MOD
                   [] OTHER            -> REG_MOD
    IN
    /\ b.base \in Nat /\ b.size \in Nat \ {0} /\ b.base % b.size = 0
    /\ b.kind \in {"io", "io16", "mem32", "mem64"}
    /\ b.size % (IF b.kind \in {"io", "io16"} THEN 4 ELSE 16) = 0
    /\ space % b.size = 0 /\ b.size < space /\ b.base + b.size <= space
    /\ b.kind = "mem64" => REG_MOD % b.size = 0 \/ b.size % REG_MOD = 0

(* What a machine is: bus, device and function numbers have their widths;  *)
(* a bridge has two BARs, then bus numbers and windows, which are not all  *)
(* ones; and a BAR of 64 bits takes the place of the next.                 *)
WellFormed(m) ==
    /\ m.mcfg \in Seq([base : Nat, start : 0..(BYTE - 1), end : 0..(BYTE - 1)])
    /\ \A k \in 1..Len(m.mcfg) : m.mcfg[k].start <= m.mcfg[k].end
    /\ \A fn \in DOMAIN m.functions :
          LET f == m.functions[fn]
          IN  /\ fn \in (0..(BYTE - 1)) \X (0..(DEVICES - 1)) \X (0..(FUNCTIONS - 1))
              /\ f.bridge => f.registers \in [2..5 -> [value : 0..(REG_MOD - 2), ones : 0..(REG_MOD - 1)]]
              /\ {f.msix.entries, f.msix.bir, f.msix.offset} \subseteq Nat
              /\ DOMAIN f.bars \subseteq IF f.bridge THEN 0..1 ELSE 0..5
              /\ \A i \in DOMAIN f.bars :
                    /\ BlockOf(f.bars[i])
                    /\ f.bars[i].kind = "mem64" =>
                          i + 1 \notin DOMAIN f.bars /\ i # (IF f.bridge THEN 1 ELSE 5)

ASSUME MachineAssumption == \A m \in Machines : WellFormed(m)

VARIABLES
    machine,
    config,        \* the registers of each function that are written
    bus_memory,    \* what was written through MSI-X tables, by address
    vm,            \* page tables and page pool
    g_pml4_virt, g_mmio_next, g_next_vector,
    pcie_devices,  \* the device table, pcie_device_count entries of it
    segment,       \* the MCFG entry in progress
    stack,         \* the calls of pcie_enumerate_devices
    pc, loop,      \* where the kernel is, and the locals of its inner loops
    ranges,        \* history: the virtual ranges handed out, and for what
    vectors        \* history: the vectors handed out

pcie_vars == <<machine, config, bus_memory, vm, g_pml4_virt, g_mmio_next, g_next_vector,
               pcie_devices, segment, stack, loop, ranges, vectors>>

(*------------------------------- hardware --------------------------------*)

(* A register: the value the firmware left there, and what it reads after  *)
(* all ones were written.  Nobody writes anything else but what was read.  *)
Register(value, ones) == [value |-> value, ones |-> ones]
written(r, v) == IF v = REG_MOD - 1 THEN r.ones ELSE v

(* What of a BAR's size its first register answers for, and the second.    *)
Grain(b)      == IF b.size < REG_MOD THEN b.size ELSE REG_MOD
UpperGrain(b) == IF b.size < REG_MOD THEN 1 ELSE b.size \div REG_MOD

(***************************************************************************)
(* Registers 0x10 to 0x28 of a function: its BARs, in which the bits below *)
(* the size are wired to the flags; of a bridge only two BARs, then bus    *)
(* numbers and windows, whose wired bits are up to the bridge (PCI Express *)
(* has the latency timer beside the bus numbers wired to 0).  Left out are *)
(* the status bits beside a window, which a write of all ones clears.      *)
(***************************************************************************)
register(fn, i) ==
    LET f == machine.functions[fn]
        b == f.bars[i]
    IN  CASE f.bridge /\ i \in 2..5 -> Register(f.registers[i].value, f.registers[i].ones)
          [] i \in DOMAIN f.bars /\ b.kind = "io"    -> Register(b.base + 1, REG_MOD - b.size + 1)
          [] i \in DOMAIN f.bars /\ b.kind = "io16"  -> Register(b.base + 1, HALF_MOD - b.size + 1)
          [] i \in DOMAIN f.bars /\ b.kind = "mem32" -> Register(b.base, REG_MOD - b.size)
          [] i \in DOMAIN f.bars /\ b.kind = "mem64" ->
                 Register((b.base % REG_MOD) + 4, REG_MOD - Grain(b) + 4)
          [] i - 1 \in DOMAIN f.bars /\ f.bars[i - 1].kind = "mem64" ->
                 Register(f.bars[i - 1].base \div REG_MOD, REG_MOD - UpperGrain(f.bars[i - 1]))
          [] OTHER -> Register(0, 0)

ConfigPage(fn) == machine.mcfg[1].base + fn[1] * BUS + (fn[2] * FUNCTIONS + fn[3]) * PAGE_SIZE

InitMachine ==
    /\ machine \in Machines
    /\ config = [fn \in DOMAIN machine.functions |->
                    [bar |-> [i \in 0..6 |-> register(fn, i).value], enabled |-> FALSE, msix |-> FALSE]]
    /\ bus_memory = [a \in {} |-> 0]

(* Mutant: the window starts a GiB behind the base, not four.              *)
InitPcieStateLow ==
    /\ g_pml4_virt = NULL
    /\ g_mmio_next = (PCIE_VIRTUAL_BASE + GIB) % UINTPTR_MOD
    /\ g_next_vector = FIRST_VECTOR
    /\ pcie_devices = <<>>
    /\ segment = 0 /\ stack = <<>>
    /\ loop = [i |-> 0, base |-> 0, virt |-> 0, end |-> 0, phys |-> 0,
               low |-> 0, high |-> 0, next |-> pc]
    /\ ranges = <<>> /\ vectors = <<>>

(* PCIE_VIRTUAL_BASE + 4 GiB, where uint64_t wraps around.                 *)
InitPcieState ==
    /\ g_pml4_virt = NULL
    /\ g_mmio_next = (PCIE_VIRTUAL_BASE + 4 * GIB) % UINTPTR_MOD
    /\ g_next_vector = FIRST_VECTOR
    /\ pcie_devices = <<>>
    /\ segment = 0 /\ stack = <<>>
    /\ loop = [i |-> 0, base |-> 0, virt |-> 0, end |-> 0, phys |-> 0,
               low |-> 0, high |-> 0, next |-> pc]
    /\ ranges = <<>> /\ vectors = <<>>

(*------------------------- configuration accesses ------------------------*)

get_pcie_config_addr(base, bus, dev, func) ==
    base + bus * BUS + (dev * FUNCTIONS + func) * PAGE_SIZE

ecam_virt_base == PCIE_VIRTUAL_BASE + machine.mcfg[segment].start * BUS

(* Where a read of a function's registers goes, and who answers it.        *)
Address(bus, dev, func) ==
    translate(vm.tables, get_pcie_config_addr(ecam_virt_base, bus, dev, func))
Mapped(bus, dev, func) == Address(bus, dev, func) # UNMAPPED
Answers(bus, dev, func) ==
    {fn \in DOMAIN machine.functions : ConfigPage(fn) = Address(bus, dev, func)}

(*--------------------------- initPcie, mapping ---------------------------*)

(* The loop over the MCFG entries, and the start of map_pcie_ecam_2mb.     *)
NextSegment ==
    /\ pc = "segment"
    /\ segment < Len(machine.mcfg)
    /\ LET e    == machine.mcfg[segment + 1]
           virt == PCIE_VIRTUAL_BASE + e.start * BUS
       IN  loop' = [loop EXCEPT !.virt = virt, !.phys = e.base,
                                !.end = virt + ((e.end - e.start) + 1) * BUS]
    /\ segment' = segment + 1
    /\ pc' = "ecam"
    /\ UNCHANGED <<machine, config, bus_memory, vm, g_pml4_virt, g_mmio_next, g_next_vector,
                   pcie_devices, stack, ranges, vectors>>

Call(bus, end) == [bus |-> bus, end |-> end, dev |-> 0, func |-> 0, max |-> 0]

(* Mutant: the last large page is mapped only if all of it is asked for.   *)
MapEcamWhole ==
    /\ pc = "ecam" /\ ~vm.halted
    /\ IF loop.virt + LARGE <= loop.end
       THEN /\ vm' = map_large(vm, loop.virt, loop.phys)
            /\ loop' = [loop EXCEPT !.virt = @ + LARGE, !.phys = @ + LARGE]
            /\ UNCHANGED <<pc, stack>>
       ELSE /\ stack' = <<Call(machine.mcfg[segment].start, machine.mcfg[segment].end)>>
            /\ pc' = "walk"
            /\ UNCHANGED <<vm, loop>>
    /\ UNCHANGED <<machine, config, bus_memory, g_pml4_virt, g_mmio_next, g_next_vector,
                   pcie_devices, segment, ranges, vectors>>

(* The loop of map_pcie_ecam_2mb, then the call that enumerates.           *)
MapEcam ==
    /\ pc = "ecam" /\ ~vm.halted
    /\ IF loop.virt < loop.end
       THEN /\ vm' = map_large(vm, loop.virt, loop.phys)
            /\ loop' = [loop EXCEPT !.virt = @ + LARGE, !.phys = @ + LARGE]
            /\ UNCHANGED <<pc, stack>>
       ELSE /\ stack' = <<Call(machine.mcfg[segment].start, machine.mcfg[segment].end)>>
            /\ pc' = "walk"
            /\ UNCHANGED <<vm, loop>>
    /\ UNCHANGED <<machine, config, bus_memory, g_pml4_virt, g_mmio_next, g_next_vector,
                   pcie_devices, segment, ranges, vectors>>

(*------------------------ pcie_enumerate_devices -------------------------*)

top == Last(stack)
fn_at == <<top.bus, top.dev, top.func>>
here  == CHOOSE fn \in Answers(top.bus, top.dev, top.func) : TRUE

NextDevice(f) ==
    IF f.dev + 1 < DEVICES
    THEN [f EXCEPT !.dev = @ + 1, !.func = 0, !.max = 0]
    ELSE Call(f.bus + 1, f.end)
NextFunction(f) ==
    IF f.func + 1 < f.max THEN [f EXCEPT !.func = @ + 1] ELSE NextDevice(f)

WithTop(f) == [stack EXCEPT ![Len(stack)] = f]

(* Mutant: every device is taken to have one function.                     *)
ProbeSingle ==
    /\ pc = "walk" /\ top.bus <= top.end /\ top.max = 0
    /\ Mapped(top.bus, top.dev, 0)
    /\ LET who == Answers(top.bus, top.dev, 0)
       IN  stack' = WithTop(IF who = {} THEN NextDevice(top) ELSE [top EXCEPT !.max = 1])
    /\ UNCHANGED <<machine, config, bus_memory, vm, g_pml4_virt, g_mmio_next, g_next_vector,
                   pcie_devices, segment, pc, loop, ranges, vectors>>

(***************************************************************************)
(* The head of the loop over devices: function 0 tells whether there is a  *)
(* device and whether it has more functions.  A read that is not mapped    *)
(* faults and has no step: the stub returns to it, with rax lost, and what *)
(* the kernel does after that is not modelled.                             *)
(***************************************************************************)
Probe ==
    /\ pc = "walk" /\ top.bus <= top.end /\ top.max = 0
    /\ Mapped(top.bus, top.dev, 0)
    /\ LET who == Answers(top.bus, top.dev, 0)
       IN  stack' = WithTop(IF who = {} THEN NextDevice(top)
                            ELSE [top EXCEPT !.max =
                                     IF \E fn \in who : machine.functions[fn].multi THEN FUNCTIONS ELSE 1])
    /\ UNCHANGED <<machine, config, bus_memory, vm, g_pml4_virt, g_mmio_next, g_next_vector,
                   pcie_devices, segment, pc, loop, ranges, vectors>>

Record(fn) ==
    [fn |-> fn, bars |-> [i \in 0..5 |-> 0], bar_size |-> [i \in 0..5 |-> 0],
     bars_virt |-> [i \in 0..5 |-> 0]]

(* The head of the loop over functions: one that answers is recorded while *)
(* the table has room, and only then are its BARs and MSI-X looked at.     *)
Visit ==
    /\ pc = "walk" /\ top.bus <= top.end /\ top.max > 0
    /\ Mapped(top.bus, top.dev, top.func)
    /\ IF Answers(top.bus, top.dev, top.func) = {}
       THEN /\ stack' = WithTop(NextFunction(top))
            /\ UNCHANGED <<pcie_devices, pc, loop>>
       ELSE /\ IF Len(pcie_devices) < PCIE_MAX_DEVICES
               THEN /\ pcie_devices' = Append(pcie_devices, Record(fn_at))
                    /\ pc' = "bar"
               ELSE /\ UNCHANGED pcie_devices
                    /\ pc' = "bridge"
            /\ loop' = [loop EXCEPT !.i = 0]
            /\ UNCHANGED stack
    /\ UNCHANGED <<machine, config, bus_memory, vm, g_pml4_virt, g_mmio_next, g_next_vector,
                   segment, ranges, vectors>>

(* Mutant: the caller comes back to the bridge it left from.               *)
BridgeAgain ==
    /\ pc = "bridge"
    /\ LET numbers     == config[here].bar[2]
           secondary   == (numbers \div BYTE) % BYTE
           subordinate == (numbers \div (BYTE * BYTE)) % BYTE
           onward      == WithTop(NextFunction(top))
       IN  stack' = IF /\ machine.functions[here].bridge
                       /\ secondary # 0 /\ subordinate >= secondary
                    THEN Append(stack, Call(secondary, subordinate))
                    ELSE onward
    /\ pc' = "walk"
    /\ UNCHANGED <<machine, config, bus_memory, vm, g_pml4_virt, g_mmio_next, g_next_vector,
                   pcie_devices, segment, loop, ranges, vectors>>

(* The end of the loop body: into the buses behind a bridge, or on.        *)
Bridge ==
    /\ pc = "bridge"
    /\ LET numbers     == config[here].bar[2]
           secondary   == (numbers \div BYTE) % BYTE
           subordinate == (numbers \div (BYTE * BYTE)) % BYTE
           onward      == WithTop(NextFunction(top))
       IN  stack' = IF /\ machine.functions[here].bridge
                       /\ secondary # 0 /\ subordinate >= secondary
                    THEN Append(onward, Call(secondary, subordinate))
                    ELSE onward
    /\ pc' = "walk"
    /\ UNCHANGED <<machine, config, bus_memory, vm, g_pml4_virt, g_mmio_next, g_next_vector,
                   pcie_devices, segment, loop, ranges, vectors>>

(* A call has been through its buses: back to its caller.                  *)
Return ==
    /\ pc = "walk" /\ top.bus > top.end
    /\ stack' = Front(stack)
    /\ pc' = IF Len(stack) = 1 THEN "segment" ELSE "walk"
    /\ UNCHANGED <<machine, config, bus_memory, vm, g_pml4_virt, g_mmio_next, g_next_vector,
                   pcie_devices, segment, loop, ranges, vectors>>

(*---------------------------------- BARs ---------------------------------*)

is_io(low)     == low % 2 = 1
is_64_bit(low) == ~is_io(low) /\ (low \div 2) % 4 = 2

(* Mutant: the flag bits of an I/O BAR are taken for those of a memory BAR.*)
flag_bits_of_memory(low) == 16

flag_bits(low) == IF is_io(low) THEN 4 ELSE 16
unflagged(v, low) == v - (v % flag_bits(low))

pcie_get_bar(low, high) ==
    IF is_64_bit(low) THEN high * REG_MOD + unflagged(low, low) ELSE unflagged(low, low)

(* From what the registers read after all ones were written: ~x + 1.       *)
pcie_get_bar_size(low, read_low, read_high) ==
    LET x   == (IF is_64_bit(low) THEN read_high * REG_MOD ELSE 0) + unflagged(read_low, low)
        mod == IF is_64_bit(low) THEN UINTPTR_MOD ELSE REG_MOD
    IN  IF x = 0 THEN 0 ELSE mod - x

(* What the function holds when v and, for 64 bits, w is written to BAR i. *)
BarsWritten(i, wide, v, w) ==
    [config EXCEPT ![here].bar = [j \in 0..6 |->
        CASE j = i              -> written(register(here, i), v)
          [] wide /\ j = i + 1  -> written(register(here, i + 1), w)
          [] OTHER              -> @[j]]]

(* The first half of pcie_get_bar_size, after pcie_get_bar: all ones.      *)
SizeBar ==
    /\ pc = "bar" /\ loop.i < 6
    /\ LET low  == config[here].bar[loop.i]
           high == IF is_64_bit(low) THEN config[here].bar[loop.i + 1] ELSE 0
       IN  /\ config' = BarsWritten(loop.i, is_64_bit(low), REG_MOD - 1, REG_MOD - 1)
           /\ loop' = [loop EXCEPT !.low = low, !.high = high]
           /\ pcie_devices' = [pcie_devices EXCEPT ![Len(pcie_devices)].bars[loop.i] =
                                  pcie_get_bar(low, high)]
    /\ pc' = "restore"
    /\ UNCHANGED <<machine, bus_memory, vm, g_pml4_virt, g_mmio_next, g_next_vector,
                   segment, stack, ranges, vectors>>

(* Mutant: only the lower register is restored.                            *)
RestoreLow ==
    /\ pc = "restore"
    /\ LET low   == loop.low
           wide  == is_64_bit(low)
           upper == IF wide THEN config[here].bar[loop.i + 1] ELSE 0
       IN  /\ config' = BarsWritten(loop.i, FALSE, low, loop.high)
           /\ pcie_devices' = [pcie_devices EXCEPT ![Len(pcie_devices)].bar_size[loop.i] =
                                  pcie_get_bar_size(low, config[here].bar[loop.i], upper)]
    /\ pc' = "map_bar"
    /\ UNCHANGED <<machine, bus_memory, vm, g_pml4_virt, g_mmio_next, g_next_vector,
                   segment, stack, loop, ranges, vectors>>

(* The second half: the answer is read, and the old values go back.        *)
Restore ==
    /\ pc = "restore"
    /\ LET low   == loop.low
           wide  == is_64_bit(low)
           upper == IF wide THEN config[here].bar[loop.i + 1] ELSE 0
       IN  /\ config' = BarsWritten(loop.i, wide, low, loop.high)
           /\ pcie_devices' = [pcie_devices EXCEPT ![Len(pcie_devices)].bar_size[loop.i] =
                                  pcie_get_bar_size(low, config[here].bar[loop.i], upper)]
    /\ pc' = "map_bar"
    /\ UNCHANGED <<machine, bus_memory, vm, g_pml4_virt, g_mmio_next, g_next_vector,
                   segment, stack, loop, ranges, vectors>>

(*------------------------------- the window ------------------------------*)

(* Mutant: the range is not rounded up to whole pages.                     *)
size_pages_bare(size) == size

size_pages(size) == align_up(size, PAGE_SIZE)

(***************************************************************************)
(* What pcie_map_phys_mmio and pcie_map_bar_for_device have in common: the *)
(* window moves on, and map_mmio_region, which returns at once without a   *)
(* root table, goes on at next; i is the caller's loop variable.           *)
(***************************************************************************)
MapRange(phys, size, i, next) ==
    /\ g_mmio_next' = (g_mmio_next + size_pages(size)) % UINTPTR_MOD
    /\ ranges' = Append(ranges, [virt |-> g_mmio_next, phys |-> phys, size |-> size])
    /\ loop' = [loop EXCEPT !.i = i, !.base = g_mmio_next, !.virt = g_mmio_next,
                            !.end = g_mmio_next + size_pages(size), !.phys = phys, !.next = next]
    /\ pc' = IF g_pml4_virt = NULL THEN next ELSE "mmio"

(* The loop of map_mmio_region.                                            *)
MapMmio ==
    /\ pc = "mmio" /\ ~vm.halted
    /\ IF loop.virt < loop.end
       THEN /\ vm' = map_small(vm, loop.virt, loop.phys)
            /\ loop' = [loop EXCEPT !.virt = @ + PAGE_SIZE, !.phys = @ + PAGE_SIZE]
            /\ UNCHANGED pc
       ELSE /\ pc' = loop.next
            /\ UNCHANGED <<vm, loop>>
    /\ UNCHANGED <<machine, config, bus_memory, g_pml4_virt, g_mmio_next, g_next_vector,
                   pcie_devices, segment, stack, ranges, vectors>>

(* pcie_map_bar_for_device, the rest of the loop over BARs.                *)
MapBar ==
    /\ pc = "map_bar"
    /\ LET d    == Last(pcie_devices)
           phys == d.bars[loop.i]
           size == d.bar_size[loop.i]
       IN  IF phys = 0 \/ size = 0
           THEN /\ loop' = [loop EXCEPT !.i = @ + 1]
                /\ pc' = "bar"
                /\ UNCHANGED <<g_mmio_next, ranges, pcie_devices>>
           ELSE /\ MapRange(phys, size, loop.i + 1, "bar")
                /\ pcie_devices' = [pcie_devices EXCEPT
                      ![Len(pcie_devices)].bars_virt[loop.i] = g_mmio_next]
    /\ UNCHANGED <<machine, config, bus_memory, vm, g_pml4_virt, g_next_vector,
                   segment, stack, vectors>>

(*--------------------------------- MSI-X ---------------------------------*)

(***************************************************************************)
(* pcie_find_capability: the list is followed for MAX_CAPABILITIES entries *)
(* at most.  caps is [start |-> p, id |-> by offset, next |-> by offset].  *)
(***************************************************************************)
pcie_find_capability(caps, id) ==
    LET ptr[n \in 0..MAX_CAPABILITIES] ==
            IF n = 0 THEN caps.start
            ELSE IF ptr[n - 1] = 0 THEN 0 ELSE caps.next[ptr[n - 1]]
        hits == {n \in 0..(MAX_CAPABILITIES - 1) : ptr[n] # 0 /\ caps.id[ptr[n]] = id}
    IN  IF hits = {} THEN 0 ELSE ptr[CHOOSE n \in hits : \A m \in hits : n <= m]

MSIX == 17      \* the id of the MSI-X capability, 0x11

(* pcie_map_msix_table: after the BARs, the table the capability names.    *)
MapMsixTable ==
    /\ pc = "bar" /\ loop.i = 6
    /\ LET f     == machine.functions[here]
           d     == Last(pcie_devices)
           cap   == pcie_find_capability(f.caps, MSIX)
           table == IF f.msix.bir < 6 THEN d.bars[f.msix.bir] ELSE 0
       IN  IF cap = 0 \/ table = 0
           THEN pc' = "bridge" /\ UNCHANGED <<g_mmio_next, ranges, loop>>
           ELSE MapRange(table + f.msix.offset, f.msix.entries * MSIX_ENTRY, 0,
                         IF g_mmio_next = 0 THEN "bridge" ELSE "program")
    /\ UNCHANGED <<machine, config, bus_memory, vm, g_pml4_virt, g_next_vector,
                   pcie_devices, segment, stack, vectors>>

(* Mutant: the counter is let one too far.                                 *)
allocate_vector_late(v) == IF v > END_VECTOR THEN FIRST_VECTOR ELSE v

(* pcie_allocate_vector: the vector given out when the counter is at v.    *)
pcie_allocate_vector(v) == IF v >= END_VECTOR THEN FIRST_VECTOR ELSE v

(* The loop of pcie_enable_msix_for_device: entry i gets a vector.  As in  *)
(* Probe, a write that is not mapped has no step.                          *)
ProgramEntry ==
    /\ pc = "program"
    /\ loop.i < machine.functions[here].msix.entries
    /\ LET v == pcie_allocate_vector(g_next_vector)
           a == translate(vm.tables, loop.base + loop.i * MSIX_ENTRY)
       IN  /\ a # UNMAPPED
           /\ bus_memory' = With(bus_memory, a, v)
           /\ vectors' = Append(vectors, v)
           /\ g_next_vector' = v + 1
    /\ loop' = [loop EXCEPT !.i = @ + 1]
    /\ UNCHANGED <<machine, config, vm, g_pml4_virt, g_mmio_next, pcie_devices,
                   segment, stack, pc, ranges>>

(***************************************************************************)
(* Nothing is mapped in the window yet, but it begins in memory that boot  *)
(* mapped to itself.  If what was found before has taken so much of it     *)
(* that a function's MSI-X table is behind that memory, the entry in hand  *)
(* cannot be written.                                                      *)
(***************************************************************************)
BeyondIdentity ==
    /\ pc = "program" /\ loop.i < machine.functions[here].msix.entries
    /\ IDENTITY_TABLES * GIB <= loop.base + loop.i * MSIX_ENTRY
    /\ translate(vm.tables, loop.base + loop.i * MSIX_ENTRY) = UNMAPPED

(* Its end: MSI-X Enable is set in the function.                           *)
EnableMsix ==
    /\ pc = "program"
    /\ loop.i = machine.functions[here].msix.entries
    /\ config' = [config EXCEPT ![here].msix = TRUE]
    /\ pc' = "bridge"
    /\ UNCHANGED <<machine, bus_memory, vm, g_pml4_virt, g_mmio_next, g_next_vector,
                   pcie_devices, segment, stack, loop, ranges, vectors>>

(*-------------------------- what drivers may call ------------------------*)

(* pcie_map_phys_mmio, called from outside when the kernel is in state at. *)
pcie_map_phys_mmio(phys, size, at) ==
    /\ pc = at
    /\ MapRange(phys, size, 0, at)
    /\ UNCHANGED <<machine, config, bus_memory, vm, g_pml4_virt, g_next_vector,
                   pcie_devices, segment, stack, vectors>>

(* pcie_enable_device: memory space and bus mastering on.                  *)
pcie_enable_device(fn, at) ==
    /\ pc = at
    /\ fn \in DOMAIN config /\ Mapped(fn[1], fn[2], fn[3])
    /\ config' = [f \in DOMAIN config |->
                     IF f \in Answers(fn[1], fn[2], fn[3]) THEN [config[f] EXCEPT !.enabled = TRUE]
                     ELSE config[f]]
    /\ UNCHANGED <<machine, bus_memory, vm, g_pml4_virt, g_mmio_next, g_next_vector,
                   pcie_devices, segment, stack, pc, loop, ranges, vectors>>

(* pcie_set_pml4_and_offset, which kernel_main calls after initPcie.       *)
pcie_set_pml4_and_offset(pml4) ==
    /\ g_pml4_virt' = pml4
    /\ UNCHANGED <<machine, config, bus_memory, vm, g_mmio_next, g_next_vector,
                   pcie_devices, segment, stack, loop, ranges, vectors>>

PcieNext ==
    \/ NextSegment \/ MapEcam
    \/ Probe \/ Visit \/ Bridge \/ Return
    \/ SizeBar \/ Restore \/ MapBar \/ MapMmio
    \/ MapMsixTable \/ ProgramEntry \/ EnableMsix
=============================================================================
