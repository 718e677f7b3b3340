---------------------------- MODULE KernelProofs ----------------------------
(***************************************************************************)
(* What Kernel promises for every machine, boot information and size: the  *)
(* tags and the root pointer that are found, the boot information that is  *)
(* read in time, the descriptors of interrupts, the pages that boot mapped *)
(* to themselves, configuration addresses that lead to their function,     *)
(* BARs that are sized right and left alone, ranges of the window that do  *)
(* not meet, vectors for MSI-X, and a table with every function there is.  *)
(* The inductive invariants:                                               *)
(*   VectorInv     the last vectors given out, counted back from the       *)
(*                 counter                                                 *)
(*   LoopInv       the locals of the inner loops, and where they return to *)
(*   BootPoolInv   a pool that is set up and untouched                     *)
(*   InterruptInv  gates by vector, and the stack between push and pop     *)
(*   BarInv        registers as assigned, but for the one being sized      *)
(*   VmInv         page tables by level, with one parent each, and the     *)
(*                 entries of boot still in them                           *)
(*   WalkInv       what is found, from the tags behind the current one     *)
(*   EnumInv       the root table's time (RootInv), the calls under way    *)
(*                 (StackInv), the BAR in hand (SizingInv), the records    *)
(*                 (TableInv)                                              *)
(*   EcamInv       the large pages of the configuration space so far       *)
(*   RightInv      bases and sizes, as far as the slot in hand             *)
(*   RangesInv     ranges one behind the other, counted by the slots       *)
(*   WalkedInv     functions recorded, as far as the first call has come   *)
(*   MsixInv       MSI-X on where it is there, but for the one in hand     *)
(***************************************************************************)
EXTENDS Kernel, MemoryLemmas

-----------------------------------------------------------------------------
(* Vectors are given out by the step that fills an MSI-X entry only.       *)
LEMMA VectorsFrame ==
    ASSUME [Next]_vars
    PROVE  ProgramEntry \/ UNCHANGED <<g_next_vector, vectors>>
  <1>1. CASE KernelStep
    <2>1. CASE PcieStep
      BY <2>1 DEF PcieStep, PcieNext, NextSegment, MapEcam, Probe, Visit, Bridge, Return,
          SizeBar, Restore, MapBar, MapMmio, MapMsixTable, EnableMsix
    <2>2. CASE KernelStep /\ ~PcieStep
      BY <2>2 DEF KernelStep, Checks, SetupPageTables, GdtInitialize, MemoryInit,
          IdtInitialize, VbeInit, Tags, FindMcfg, InitPcieDone, TestMalloc,
          pcie_set_pml4_and_offset, pcie_vars
    <2> QED BY <1>1, <2>1, <2>2
  <1>2. CASE EnableDevice
    BY <1>2 DEF EnableDevice, pcie_enable_device
  <1>3. CASE MapResource
    BY <1>3 DEF MapResource, pcie_map_phys_mmio
  <1>4. CASE Interrupt
    BY <1>4 DEF Interrupt, pcie_vars
  <1>5. CASE UNCHANGED vars
    BY <1>5 DEF vars, pcie_vars
  <1> QED BY <1>1, <1>2, <1>3, <1>4, <1>5 DEF Next

(* The vectors there are, and the last of them that were given out: each   *)
(* as far below the counter as it is back in time, or a round above that.  *)
Round == END_VECTOR - FIRST_VECTOR
Age(i) == Len(vectors) + 1 - i

VectorInv ==
    /\ vectors \in Seq(FIRST_VECTOR..(END_VECTOR - 1))
    /\ g_next_vector \in FIRST_VECTOR..END_VECTOR
    /\ \A i \in 1..Len(vectors) :
          Age(i) <= Round =>
             \/ vectors[i] = g_next_vector - Age(i)
             \/ vectors[i] = g_next_vector - Age(i) + Round
    /\ VectorsSound

(* Giving out a vector keeps that: it is the one at the counter, or the    *)
(* first after the last.                                                   *)
LEMMA VectorStep ==
    ASSUME VectorInv, ProgramEntry
    PROVE  VectorInv'
  <1> DEFINE v == pcie_allocate_vector(g_next_vector)
             n == Len(vectors)
  <1>1. /\ FIRST_VECTOR \in Nat /\ END_VECTOR \in Nat /\ FIRST_VECTOR < END_VECTOR
        /\ g_next_vector \in FIRST_VECTOR..END_VECTOR
        /\ vectors \in Seq(FIRST_VECTOR..(END_VECTOR - 1))
        /\ n \in Nat
    BY PcieAssumption DEF VectorInv
  <1>2. /\ v \in FIRST_VECTOR..(END_VECTOR - 1)
        /\ \/ v = g_next_vector
           \/ v = g_next_vector - Round /\ g_next_vector = END_VECTOR
    BY <1>1 DEF pcie_allocate_vector, Round
  <1>3. vectors' = Append(vectors, v) /\ g_next_vector' = v + 1
    BY DEF ProgramEntry
  <1> HIDE DEF v
  <1>4. /\ vectors' \in Seq(FIRST_VECTOR..(END_VECTOR - 1))
        /\ Len(vectors') = n + 1
        /\ vectors'[n + 1] = v
        /\ \A i \in 1..n : vectors'[i] = vectors[i] /\ vectors[i] \in FIRST_VECTOR..(END_VECTOR - 1)
    BY <1>1, <1>2, <1>3
  <1>5. g_next_vector' \in FIRST_VECTOR..END_VECTOR
    BY <1>1, <1>2, <1>3
  <1>6. ASSUME NEW i \in 1..n, n + 1 - i <= Round
        PROVE  \/ vectors[i] = g_next_vector - (n + 1 - i)
               \/ vectors[i] = g_next_vector - (n + 1 - i) + Round
    BY <1>6 DEF VectorInv, Age
  <1>7. ASSUME NEW i \in 1..(n + 1), n + 2 - i <= Round
        PROVE  \/ vectors'[i] = g_next_vector' - (n + 2 - i)
               \/ vectors'[i] = g_next_vector' - (n + 2 - i) + Round
    <2>1. CASE i = n + 1
      BY <1>1, <1>2, <1>3, <1>4, <2>1
    <2>2. CASE i # n + 1
      <3>1. i \in 1..n /\ n + 1 - i <= Round
        BY <1>1, <1>7, <2>2 DEF Round
      <3>2. /\ \/ vectors[i] = g_next_vector - (n + 1 - i)
               \/ vectors[i] = g_next_vector - (n + 1 - i) + Round
            /\ vectors'[i] = vectors[i] /\ vectors[i] \in FIRST_VECTOR..(END_VECTOR - 1)
        BY <1>4, <1>6, <3>1
      <3>3. n + 1 - i \in 1..(Round - 1) /\ Round \in Nat
        BY <1>1, <1>7, <3>1 DEF Round
      <3> HIDE DEF n
      <3>4. CASE v = g_next_vector
        BY <1>1, <1>3, <3>2, <3>3, <3>4
      <3>5. CASE v = g_next_vector - Round /\ g_next_vector = END_VECTOR
        BY <1>1, <1>3, <3>2, <3>3, <3>5 DEF Round
      <3> QED BY <1>2, <3>4, <3>5
    <2> QED BY <2>1, <2>2
  <1>8. ASSUME NEW i \in 1..(n + 1), NEW j \in 1..(n + 1), i < j, j - i < Round
        PROVE  vectors'[i] # vectors'[j]
    <2>1. CASE j = n + 1
      <3>1. i \in 1..n /\ n + 1 - i <= Round
        BY <1>1, <1>8, <2>1 DEF Round
      <3>2. n + 1 - i \in 1..(Round - 1) /\ Round \in Nat
        BY <1>1, <1>8, <2>1 DEF Round
      <3>3. \/ vectors[i] = g_next_vector - (n + 1 - i)
            \/ vectors[i] = g_next_vector - (n + 1 - i) + Round
        BY <1>6, <3>1
      <3>4. vectors[i] # v
        <4> HIDE DEF n
        <4> QED BY <1>1, <1>2, <3>2, <3>3
      <3> QED BY <1>4, <2>1, <3>1, <3>4
    <2>2. CASE j # n + 1
      <3>1. i \in 1..n /\ j \in 1..n
        BY <1>1, <1>8, <2>2
      <3> QED BY <1>4, <1>8, <3>1 DEF VectorInv, VectorsSound, Round
    <2> QED BY <2>1, <2>2
  <1>9. VectorsSound'
    BY <1>1, <1>2, <1>4, <1>8 DEF VectorsSound, Round
  <1>10. (\A i \in 1..Len(vectors) :
            Age(i) <= Round =>
               \/ vectors[i] = g_next_vector - Age(i)
               \/ vectors[i] = g_next_vector - Age(i) + Round)'
    BY <1>1, <1>4, <1>7 DEF Age
  <1> QED BY <1>4, <1>5, <1>9, <1>10 DEF VectorInv

(* In every state the vectors are as the counter says.                     *)
LEMMA VectorsCounted == Spec => []VectorInv
  <1>1. Init => VectorInv
    BY PcieAssumption DEF Init, InitPcieState, VectorInv, VectorsSound
  <1>2. VectorInv /\ [Next]_vars => VectorInv'
    <2> SUFFICES ASSUME VectorInv, [Next]_vars PROVE VectorInv'
      OBVIOUS
    <2>1. CASE UNCHANGED <<g_next_vector, vectors>>
      BY <2>1 DEF VectorInv, VectorsSound, Age
    <2> QED BY <2>1, VectorsFrame, VectorStep
  <1> QED BY <1>1, <1>2, PTL DEF Spec

(* Vectors for MSI-X are never those of exceptions or of the local APIC,   *)
(* and none is given out again before all others have been.                *)
THEOREM KernelVectors == Spec => []VectorsSound
  <1>1. VectorInv => VectorsSound
    BY DEF VectorInv
  <1> QED BY <1>1, VectorsCounted, PTL

-----------------------------------------------------------------------------
(* Where the kernel is in initPcie, and where a call that maps a range     *)
(* returns to.                                                             *)
PciePlaces == Enumerating \cup {"segment", "ecam", "mmio"}

LoopInv ==
    /\ loop = [i |-> loop.i, base |-> loop.base, virt |-> loop.virt, end |-> loop.end,
               phys |-> loop.phys, low |-> loop.low, high |-> loop.high, next |-> loop.next]
    /\ pc = "mmio" => loop.next \in {"bar", "bridge", "program", "idle"} /\ g_pml4_virt # NULL
    /\ loop.i \in Nat

(* A range is mapped, or skipped without a root table, and then the call   *)
(* goes on at next.                                                        *)
LEMMA MapRangeMoves ==
    ASSUME LoopInv, NEW phys, NEW size, NEW i \in Nat,
           NEW next \in {"bar", "bridge", "program", "idle"},
           MapRange(phys, size, i, next), UNCHANGED g_pml4_virt
    PROVE  LoopInv' /\ pc' \in {"bar", "bridge", "program", "idle", "mmio"}
  BY DEF LoopInv, MapRange

(* The driver moves among its own places, and leaves them for the idle     *)
(* loop only where it was called from there.                               *)
LEMMA PcieMoves ==
    ASSUME LoopInv, PcieNext
    PROVE  LoopInv' /\ pc \in PciePlaces /\ pc' \in PciePlaces \cup {"idle"}
  <1> USE DEF PciePlaces, Enumerating
  <1>1. CASE NextSegment
    BY <1>1 DEF NextSegment, LoopInv
  <1>2. CASE MapEcam
    BY <1>2 DEF MapEcam, LoopInv
  <1>3. CASE Probe
    BY <1>3 DEF Probe, LoopInv
  <1>4. CASE Visit
    BY <1>4 DEF Visit, LoopInv
  <1>5. CASE Bridge
    BY <1>5 DEF Bridge, LoopInv
  <1>6. CASE Return
    BY <1>6 DEF Return, LoopInv
  <1>7. CASE SizeBar
    BY <1>7 DEF SizeBar, LoopInv
  <1>8. CASE Restore
    BY <1>8 DEF Restore, LoopInv
  <1>9. CASE MapBar
    <2>1. CASE pc' = "bar" /\ loop' = [loop EXCEPT !.i = @ + 1]
      BY <1>9, <2>1 DEF MapBar, LoopInv
    <2>2. CASE \E phys, size : MapRange(phys, size, loop.i + 1, "bar")
      <3>1. loop.i + 1 \in Nat /\ pc = "map_bar" /\ UNCHANGED g_pml4_virt
        BY <1>9 DEF MapBar, LoopInv
      <3>2. LoopInv' /\ pc' \in {"bar", "bridge", "program", "idle", "mmio"}
        BY <2>2, <3>1, MapRangeMoves
      <3> QED BY <3>1, <3>2
    <2> QED BY <1>9, <2>1, <2>2 DEF MapBar
  <1>10. CASE MapMmio
    BY <1>10 DEF MapMmio, LoopInv
  <1>11. CASE MapMsixTable
    <2>1. CASE pc' = "bridge" /\ UNCHANGED loop
      BY <1>11, <2>1 DEF MapMsixTable, LoopInv
    <2>2. CASE \E phys, size : MapRange(phys, size, 0, IF g_mmio_next = 0 THEN "bridge" ELSE "program")
      <3>1. pc = "bar" /\ UNCHANGED g_pml4_virt
        BY <1>11 DEF MapMsixTable
      <3>2. (IF g_mmio_next = 0 THEN "bridge" ELSE "program") \in {"bar", "bridge", "program", "idle"}
        OBVIOUS
      <3> HIDE DEF PciePlaces, Enumerating
      <3>3. LoopInv' /\ pc' \in {"bar", "bridge", "program", "mmio"}
        BY <2>2, <3>1, <3>2, MapRangeMoves DEF MapRange
      <3> QED BY <3>1, <3>3 DEF PciePlaces, Enumerating
    <2> QED BY <1>11, <2>1, <2>2 DEF MapMsixTable
  <1>12. CASE ProgramEntry
    BY <1>12 DEF ProgramEntry, LoopInv
  <1>13. CASE EnableMsix
    BY <1>13 DEF EnableMsix, LoopInv
  <1> QED
    BY <1>1, <1>2, <1>3, <1>4, <1>5, <1>6, <1>7, <1>8, <1>9, <1>10, <1>11, <1>12, <1>13 DEF PcieNext

(* The driver keeps to its places whoever moves.                           *)
LEMMA LoopStep ==
    ASSUME LoopInv, [Next]_vars
    PROVE  LoopInv'
  <1>1. CASE KernelStep
    <2>1. CASE PcieStep
      BY <2>1, PcieMoves DEF PcieStep
    <2>2. CASE KernelStep /\ ~PcieStep
      BY <2>2 DEF KernelStep, Checks, SetupPageTables, GdtInitialize, MemoryInit,
          IdtInitialize, VbeInit, Tags, FindMcfg, InitPcieDone, TestMalloc,
          pcie_set_pml4_and_offset, pcie_vars, LoopInv
    <2> QED BY <1>1, <2>1, <2>2
  <1>2. CASE EnableDevice
    BY <1>2 DEF EnableDevice, pcie_enable_device, LoopInv
  <1>3. CASE MapResource
    BY <1>3, MapRangeMoves DEF MapResource, pcie_map_phys_mmio
  <1>4. CASE Interrupt
    BY <1>4 DEF Interrupt, pcie_vars, LoopInv
  <1>5. CASE UNCHANGED vars
    BY <1>5 DEF vars, pcie_vars, LoopInv
  <1> QED BY <1>1, <1>2, <1>3, <1>4, <1>5 DEF Next

-----------------------------------------------------------------------------
(* The pool is set up when the boot information is read, and nothing has   *)
(* been taken from it.                                                     *)
BootPoolInv ==
    /\ pc \in {"start", "paging", "gdt", "memory"} =>
          vm = [tables |-> vm.tables, pool |-> vm.pool, stray |-> vm.stray, halted |-> vm.halted]
    /\ pc \in {"idt", "vbe", "tags", "acpi"} => vm.pool = memory_init

(* Only the boot steps before the descriptors touch the pool.              *)
LEMMA BootPoolStep ==
    ASSUME LoopInv, BootPoolInv, [Next]_vars
    PROVE  BootPoolInv'
  <1> DEFINE Booting == {"start", "paging", "gdt", "memory", "idt", "vbe", "tags", "acpi"}
  <1>1. CASE PcieStep
    <2>1. pc' \in PciePlaces \cup {"idle"}
      BY <1>1, PcieMoves DEF PcieStep
    <2> QED BY <2>1 DEF BootPoolInv, PciePlaces, Enumerating
  <1>2. CASE KernelStep /\ ~PcieStep
    <2>1. CASE Checks
      BY <2>1 DEF Checks, pcie_vars, BootPoolInv
    <2>2. CASE SetupPageTables
      BY <2>2 DEF SetupPageTables, BootPoolInv
    <2>3. CASE GdtInitialize
      BY <2>3 DEF GdtInitialize, pcie_vars, BootPoolInv
    <2>4. CASE MemoryInit
      BY <2>4 DEF MemoryInit, BootPoolInv
    <2>5. CASE IdtInitialize
      BY <2>5 DEF IdtInitialize, pcie_vars, BootPoolInv
    <2>6. CASE VbeInit
      BY <2>6 DEF VbeInit, pcie_vars, BootPoolInv
    <2>7. CASE Tags
      BY <2>7 DEF Tags, pcie_vars, BootPoolInv
    <2>8. CASE FindMcfg
      BY <2>8 DEF FindMcfg, BootPoolInv
    <2>9. CASE InitPcieDone
      BY <2>9 DEF InitPcieDone, BootPoolInv
    <2>10. CASE TestMalloc
      BY <2>10 DEF TestMalloc, BootPoolInv
    <2> QED
      BY <1>2, <2>1, <2>2, <2>3, <2>4, <2>5, <2>6, <2>7, <2>8, <2>9, <2>10 DEF KernelStep
  <1>3. CASE EnableDevice
    BY <1>3 DEF EnableDevice, pcie_enable_device, BootPoolInv
  <1>4. CASE MapResource
    <2>1. pc' \in {"idle", "mmio"}
      BY <1>4 DEF MapResource, pcie_map_phys_mmio, MapRange
    <2> QED BY <2>1 DEF BootPoolInv
  <1>5. CASE Interrupt
    BY <1>5 DEF Interrupt, pcie_vars, BootPoolInv
  <1>6. CASE UNCHANGED vars
    BY <1>6 DEF vars, pcie_vars, BootPoolInv
  <1> QED BY <1>1, <1>2, <1>3, <1>4, <1>5, <1>6 DEF Next, KernelStep

(* The boot information may lie where the page pool is: nobody reads it    *)
(* any more once a page has been handed out.                               *)
THEOREM KernelReadsInfoFirst == Spec => []InfoReadBeforeReused
  <1>1. Init => LoopInv /\ BootPoolInv
    BY DEF Init, InitPcieState, LoopInv, BootPoolInv
  <1>2. LoopInv /\ BootPoolInv /\ [Next]_vars => (LoopInv /\ BootPoolInv)'
    BY LoopStep, BootPoolStep
  <1>3. BootPoolInv => InfoReadBeforeReused
    BY DEF BootPoolInv, InfoReadBeforeReused, memory_init
  <1> QED BY <1>1, <1>2, <1>3, PTL DEF Spec

-----------------------------------------------------------------------------
(* A number is what its quotient and its remainder are put together to,    *)
(* and has no other.                                                       *)
LEMMA DivUnique ==
    ASSUME NEW b \in Nat \ {0}, NEW q \in Nat, NEW r \in Nat, r < b
    PROVE  (b * q + r) \div b = q /\ (b * q + r) % b = r
  OBVIOUS

(* A field of 16 bits has two of 8.                                        *)
LEMMA HalfPositive ==
    OCTET \in Nat \ {0} /\ HALF \in Nat \ {0} /\ HALF = OCTET * OCTET
  BY InterruptsAssumption DEF HALF

(* Quotient and remainder by a product are those by its factors.           *)
LEMMA DigitsSplit ==
    ASSUME NEW a \in Nat, NEW b \in Nat \ {0}, NEW c \in Nat \ {0}
    PROVE  /\ a \div (b * c) = (a \div b) \div c
           /\ a % (b * c) = b * ((a \div b) % c) + (a % b)
  <1> DEFINE q == a \div b
             r == a % b
             m == q \div c
             t == q % c
  <1>1. q \in Nat /\ r \in Nat /\ r < b /\ a = b * q + r
    OBVIOUS
  <1>2. m \in Nat /\ t \in Nat /\ t < c /\ q = c * m + t
    BY <1>1
  <1> HIDE DEF m, t, q, r
  <1>3. b * c \in Nat \ {0} /\ b * t + r \in Nat /\ b * t + r < b * c
    <2>1. t <= c - 1 /\ b * t <= b * (c - 1)
      BY <1>2
    <2> QED BY <1>1, <1>2, <2>1
  <1>4. a = (b * c) * m + (b * t + r)
    <2> DEFINE x == (b * c) * m
               y == b * t
    <2>1. a = b * (c * m + t) + r
      BY <1>1, <1>2
    <2>2. b * (c * m + t) = x + y
      BY <1>2
    <2>3. x \in Nat /\ y \in Nat
      BY <1>2
    <2>4. a = x + y + r
      BY <2>1, <2>2
    <2> HIDE DEF x, y
    <2>5. a = x + (y + r)
      BY <1>1, <2>3, <2>4
    <2> QED BY <2>5 DEF x, y
  <1>5. a \div (b * c) = m /\ a % (b * c) = b * t + r
    BY <1>2, <1>3, <1>4, DivUnique
  <1> QED BY <1>5 DEF m, t, q, r

(* The three fields of an address put it together again.                   *)
LEMMA Recomposed ==
    ASSUME NEW a \in Nat
    PROVE  Low(a) + Mid(a) * HALF + High(a) * HALF * HALF = a
  <1>1. HALF \in Nat \ {0}
    BY HalfPositive
  <1> DEFINE q == a \div HALF
             r == a % HALF
             p == q \div HALF
             s == q % HALF
  <1>2. q \in Nat /\ r \in Nat /\ r < HALF /\ a = HALF * q + r
    BY <1>1
  <1>3. p \in Nat /\ s \in Nat /\ s < HALF /\ q = HALF * p + s
    BY <1>1, <1>2
  <1>4. HALF * HALF \in Nat \ {0} /\ HALF * s + r \in Nat /\ HALF * s + r < HALF * HALF
    <2>1. s <= HALF - 1 /\ HALF * s <= HALF * (HALF - 1)
      BY <1>1, <1>3
    <2> QED BY <1>1, <1>2, <1>3, <2>1
  <1>5. a = (HALF * HALF) * p + (HALF * s + r)
    <2>1. HALF \in Nat /\ p \in Nat /\ s \in Nat /\ r \in Nat /\ a = HALF * q + r /\ q = HALF * p + s
      BY <1>1, <1>2, <1>3
    <2> HIDE DEF p, q, r, s
    <2>2. HALF * (HALF * p + s) = (HALF * HALF) * p + HALF * s
      BY <2>1
    <2>3. (HALF * HALF) * p \in Nat /\ HALF * s \in Nat
      BY <2>1
    <2> QED BY <2>1, <2>2, <2>3
  <1>6. a \div (HALF * HALF) = p
    <2> HIDE DEF p, q, r, s
    <2> QED BY <1>2, <1>3, <1>4, <1>5, DivUnique
  <1>7. Low(a) = r /\ Mid(a) = s /\ High(a) = p
    BY <1>6 DEF Low, Mid, High
  <1>8. r + s * HALF + p * HALF * HALF = a
    <2>1. p \in Nat /\ s \in Nat /\ r \in Nat /\ a = (HALF * HALF) * p + (HALF * s + r)
      BY <1>2, <1>3, <1>5
    <2> HIDE DEF p, q, r, s
    <2>2. s * HALF = HALF * s
      BY <1>1, <2>1
    <2>3. p * HALF * HALF = (HALF * HALF) * p
      BY <1>1, <2>1
    <2>4. HALF * s \in Nat /\ (HALF * HALF) * p \in Nat
      BY <1>1, <2>1
    <2> QED BY <2>1, <2>2, <2>3, <2>4
  <1> QED BY <1>7, <1>8

(* So do the four of a descriptor.                                         *)
LEMMA TssFound ==
    ASSUME NEW d, NEW a \in Nat, d.BaseLow = Low(a), d.BaseMiddle = (a \div HALF) % OCTET,
           d.BaseHigh = (a \div (HALF * OCTET)) % OCTET, d.BaseUpper = High(a)
    PROVE  TssBase(d) = a
  <1> DEFINE H == HALF
             B == OCTET
             q == a \div H
             r == a % H
             t == q % B
             u == (q \div B) % B
             p == High(a)
  <1>1. B \in Nat \ {0} /\ H \in Nat \ {0} /\ H = B * B
    BY HalfPositive
  <1> HIDE DEF H, B
  <1>2. q \in Nat /\ r \in Nat /\ t \in Nat /\ u \in Nat
    BY <1>1
  <1>3. d.BaseLow = r /\ d.BaseMiddle = t
    BY DEF Low, H, B
  <1>4. d.BaseHigh = u
    <2>1. a \div (H * B) = q \div B
      BY <1>1, DigitsSplit
    <2> QED BY <2>1 DEF H, B
  <1>5. Mid(a) = B * u + t
    <2>1. q % (B * B) = B * u + t
      BY <1>1, <1>2, DigitsSplit
    <2>2. Mid(a) = q % H
      BY DEF Mid, H
    <2> QED BY <1>1, <2>1, <2>2
  <1>6. p \in Nat /\ r + (B * u + t) * H + p * H * H = a
    <2>1. H * H \in Nat \ {0}
      BY <1>1
    <2>2. p = a \div (H * H)
      BY DEF High, H
    <2>3. p \in Nat
      BY <2>1, <2>2
    <2>4. Low(a) + Mid(a) * H + High(a) * H * H = a
      BY Recomposed DEF H
    <2>5. Low(a) = r
      BY DEF Low, H
    <2> HIDE DEF p
    <2> QED BY <1>5, <2>3, <2>4, <2>5 DEF p
  <1>7. TssBase(d) = r + t * H + u * (H * B) + p * (H * H)
    BY <1>3, <1>4 DEF TssBase, H, B
  <1> HIDE DEF q, r, t, u, p
  <1>8. (B * u + t) * H = u * (H * B) + t * H
    BY <1>1, <1>2
  <1>9. p * H * H = p * (H * H)
    BY <1>1, <1>6
  <1>10. u * (H * B) \in Nat /\ t * H \in Nat /\ p * (H * H) \in Nat
    BY <1>1, <1>2, <1>6
  <1> QED BY <1>2, <1>6, <1>7, <1>8, <1>9, <1>10

-----------------------------------------------------------------------------
(* The descriptors: none are loaded, or those of g_GDT with the TSS in the *)
(* task register.  A gate leads to the stub of its own vector, from ring 0 *)
(* code, whoever may raise it and whether it is switched on or not.        *)
IsGateFor(v, gate) ==
    gate = [BaseLow |-> Low(x86_64_ISR_ASM[v]), SegmentSelector |-> 8,
            BaseMid |-> Mid(x86_64_ISR_ASM[v]), BaseHigh |-> High(x86_64_ISR_ASM[v]),
            ring |-> gate.ring, present |-> gate.present]

Loaded == gdt = g_GDT(g_TSS) /\ tr = 72

GatesInv ==
    /\ Loaded \/ (tr = 0 /\ DOMAIN idt = {})
    /\ pc \in {"memory", "idt"} => Loaded
    /\ DOMAIN idt \subseteq INTERRUPTS
    /\ idt = [v \in DOMAIN idt |-> idt[v]]
    /\ \A v \in DOMAIN idt : IsGateFor(v, idt[v])

(* The words the processor pushes for vector v.                            *)
Pushed(v) == Frame \o (IF v \in PushesErrorCode THEN <<"error">> ELSE <<>>)

(* The processor runs the kernel or the stub of the vector that struck.    *)
CpuInv ==
    \/ cpu = Running
    \/ \E v \in INTERRUPTS : cpu = [at |-> "stub", stub |-> {v}, words |-> Pushed(v)]
    \/ \E v \in INTERRUPTS : cpu = [at |-> "iretq", stub |-> {v}, words |-> Frame]

InterruptInv == GatesInv /\ CpuInv

(* The gate's three fields lead to the stub of its vector, and no other.   *)
LEMMA StubFound ==
    ASSUME NEW v \in INTERRUPTS, NEW gate, IsGateFor(v, gate)
    PROVE  Stub(gate) = {v}
  <1>1. /\ x86_64_ISR_ASM[v] \in Nat
        /\ \A w \in INTERRUPTS : x86_64_ISR_ASM[v] = x86_64_ISR_ASM[w] => v = w
    BY InterruptsAssumption
  <1>2. /\ gate.BaseLow = Low(x86_64_ISR_ASM[v])
        /\ gate.BaseMid = Mid(x86_64_ISR_ASM[v])
        /\ gate.BaseHigh = High(x86_64_ISR_ASM[v])
    BY DEF IsGateFor
  <1>3. Target(gate) = x86_64_ISR_ASM[v]
    BY <1>1, <1>2, Recomposed DEF Target
  <1> QED BY <1>1, <1>3 DEF Stub

(* The code segment that every gate names is there, and is ring 0 code.    *)
LEMMA SelectorsOfGdt ==
    ASSUME Loaded
    PROVE  /\ 8 \in DOMAIN gdt /\ gdt[8] = Segment("code", 0)
           /\ 72 \in DOMAIN gdt
           /\ gdt[72] = [kind |-> "tss", ring |-> 0, BaseLow |-> Low(g_TSS),
                         BaseMiddle |-> (g_TSS \div HALF) % OCTET,
                         BaseHigh |-> (g_TSS \div (HALF * OCTET)) % OCTET,
                         BaseUpper |-> High(g_TSS)]
  <1>1. 8 = 8 * 1 /\ 72 = 8 * 9 /\ 1 \in 0..9 /\ 9 \in 0..9
    OBVIOUS
  <1>2. 8 \in {8 * k : k \in 0..9} /\ 72 \in {8 * k : k \in 0..9}
    BY <1>1
  <1>3. 8 % 16 = 8 /\ (8 - 8) \div 16 = 0
    OBVIOUS
  <1>4. 8 # 0 /\ 72 # 0 /\ 8 # 72
    OBVIOUS
  <1>5. DOMAIN gdt = {8 * k : k \in 0..9}
    BY DEF Loaded, g_GDT
  <1>6. gdt[8] = Segment("code", (8 - 8) \div 16)
    BY <1>2, <1>3, <1>4 DEF Loaded, g_GDT
  <1>7. gdt[72] = [kind |-> "tss", ring |-> 0, BaseLow |-> Low(g_TSS),
                   BaseMiddle |-> (g_TSS \div HALF) % OCTET,
                   BaseHigh |-> (g_TSS \div (HALF * OCTET)) % OCTET,
                   BaseUpper |-> High(g_TSS)]
    BY <1>2, <1>4 DEF Loaded, g_GDT
  <1> QED BY <1>2, <1>3, <1>5, <1>6, <1>7

(* Such descriptors serve every interrupt.                                 *)
LEMMA InterruptServes ==
    ASSUME InterruptInv
    PROVE  DescriptorsServe
  <1>1. cpu.at = "iretq" => cpu.stub # {} /\ cpu.words = Frame
    BY DEF InterruptInv, CpuInv, Running
  <1>2. ASSUME tr # 0
        PROVE  /\ tr \in DOMAIN gdt /\ gdt[tr].kind = "tss"
               /\ TssBase(gdt[tr]) = g_TSS
    <2>1. Loaded
      BY <1>2 DEF InterruptInv, GatesInv
    <2>2. g_TSS \in Nat
      BY InterruptsAssumption
    <2>3. /\ gdt[72].BaseLow = Low(g_TSS) /\ gdt[72].BaseMiddle = (g_TSS \div HALF) % OCTET
          /\ gdt[72].BaseHigh = (g_TSS \div (HALF * OCTET)) % OCTET /\ gdt[72].BaseUpper = High(g_TSS)
          /\ gdt[72].kind = "tss" /\ 72 \in DOMAIN gdt
      BY <2>1, SelectorsOfGdt
    <2>4. TssBase(gdt[72]) = g_TSS
      BY <2>2, <2>3, TssFound
    <2> QED BY <2>1, <2>3, <2>4 DEF Loaded
  <1>3. ASSUME NEW v \in DOMAIN idt
        PROVE  /\ idt[v].SegmentSelector \in DOMAIN gdt
               /\ gdt[idt[v].SegmentSelector] = Segment("code", 0)
    <2>1. Loaded
      BY <1>3 DEF InterruptInv, GatesInv
    <2>2. idt[v].SegmentSelector = 8
      BY DEF InterruptInv, GatesInv, IsGateFor
    <2> QED BY <2>1, <2>2, SelectorsOfGdt
  <1> QED BY <1>1, <1>2, <1>3 DEF DescriptorsServe, SelectorsFit

(* What was pushed last is what is popped.                                 *)
LEMMA PoppedConcat ==
    ASSUME NEW S, NEW s \in Seq(S), NEW e \in S
    PROVE  SubSeq(s \o <<e>>, 1, Len(s \o <<e>>) - 1) = s
  OBVIOUS

(* What an interrupt does, and what the kernel does to the gates.          *)
LEMMA InterruptStep ==
    ASSUME InterruptInv, Interrupt
    PROVE  InterruptInv'
  <1>1. UNCHANGED pc
    BY DEF Interrupt
  <1>2. ASSUME NEW v \in Strikes, Strike(v)
        PROVE  InterruptInv'
    <2>1. v \in INTERRUPTS /\ IsGateFor(v, idt[v])
      BY <1>2 DEF Strike, InterruptInv, GatesInv
    <2>2. cpu' = [at |-> "stub", stub |-> {v}, words |-> Pushed(v)]
      BY <1>2, <2>1, StubFound DEF Strike, Pushed
    <2> QED BY <1>1, <1>2, <2>1, <2>2 DEF Strike, InterruptInv, GatesInv, CpuInv, Loaded
  <1>3. CASE Pop
    <2>1. PICK v \in INTERRUPTS : cpu = [at |-> "stub", stub |-> {v}, words |-> Pushed(v)]
      BY <1>3 DEF Pop, InterruptInv, CpuInv, Running
    <2>2. CASE v \in PushesErrorCode
      <3>1. {v} \subseteq ISR_ERRORCODE
        BY <2>2 DEF ISR_ERRORCODE, PushesErrorCode
      <3>2. SubSeq(Pushed(v), 1, Len(Pushed(v)) - 1) = Frame
        <4> DEFINE Words == {"ss", "rsp", "rflags", "cs", "rip", "error"}
        <4>1. Frame \in Seq(Words) /\ Len(Frame) = 5 /\ Pushed(v) = Frame \o <<"error">>
          <5>1. Frame \in Seq(Words) /\ Len(Frame) = 5
            BY DEF Frame
          <5>2. Pushed(v) = Frame \o <<"error">>
            BY <2>2 DEF Pushed
          <5> QED BY <5>1, <5>2
        <4>2. "error" \in Words
          OBVIOUS
        <4>3. SubSeq(Frame \o <<"error">>, 1, Len(Frame \o <<"error">>) - 1) = Frame
          BY <4>1, <4>2, PoppedConcat
        <4> QED BY <4>1, <4>3
      <3>3. cpu' = [at |-> "iretq", stub |-> {v}, words |-> Frame]
        BY <1>3, <2>1, <3>1, <3>2 DEF Pop
      <3> QED BY <1>1, <1>3, <3>3 DEF Pop, InterruptInv, GatesInv, CpuInv, Loaded
    <2>3. CASE v \notin PushesErrorCode
      <3>1. ~({v} \subseteq ISR_ERRORCODE)
        BY <2>3 DEF ISR_ERRORCODE, PushesErrorCode
      <3>2. Pushed(v) = Frame
        BY <2>3 DEF Pushed, Frame
      <3>3. cpu' = [at |-> "iretq", stub |-> {v}, words |-> Frame]
        BY <1>3, <2>1, <3>1, <3>2 DEF Pop
      <3> QED BY <1>1, <1>3, <3>3 DEF Pop, InterruptInv, GatesInv, CpuInv, Loaded
    <2> QED BY <2>2, <2>3
  <1>4. CASE Iretq
    BY <1>1, <1>4 DEF Iretq, InterruptInv, GatesInv, CpuInv, Loaded
  <1>5. ASSUME NEW v \in Masked, NEW on \in BOOLEAN, SwitchGate(v, on)
        PROVE  InterruptInv'
    <2>1. v \in DOMAIN idt /\ idt' = [idt EXCEPT ![v].present = on]
      BY <1>5 DEF SwitchGate
    <2>2. DOMAIN idt' = DOMAIN idt /\ idt' = [w \in DOMAIN idt' |-> idt'[w]]
      BY <2>1 DEF InterruptInv, GatesInv
    <2>3. \A w \in DOMAIN idt : w # v => idt'[w] = idt[w]
      BY <2>1 DEF InterruptInv, GatesInv
    <2>4. idt'[v] = [idt[v] EXCEPT !.present = on]
      BY <2>1 DEF InterruptInv, GatesInv
    <2>5. IsGateFor(v, idt'[v])
      BY <2>1, <2>4 DEF InterruptInv, GatesInv, IsGateFor
    <2> QED
      BY <1>1, <1>5, <2>1, <2>2, <2>3, <2>5 DEF SwitchGate, InterruptInv, GatesInv, CpuInv, Loaded
  <1> QED BY <1>2, <1>3, <1>4, <1>5 DEF Interrupt

(* The descriptors are loaded before anything can use them, and nobody     *)
(* else writes them.                                                       *)
LEMMA DescriptorStep ==
    ASSUME LoopInv, InterruptInv, [Next]_vars
    PROVE  InterruptInv'
  <1>1. CASE GdtInitialize
    BY <1>1 DEF GdtInitialize, GDT_Initialize, InterruptInv, GatesInv, CpuInv, Loaded
  <1>2. CASE IdtInitialize
    <2>1. Loaded /\ UNCHANGED <<gdt, tr, cpu>> /\ idt' = Gates
      BY <1>2 DEF IdtInitialize, IDT_Initialize, InterruptInv, GatesInv
    <2>2. \A v \in INTERRUPTS : IsGateFor(v, Gates[v])
      <3> TAKE v \in INTERRUPTS
      <3> QED BY DEF Gates, SetGate, IsGateFor
    <2>3. DOMAIN Gates = INTERRUPTS /\ Gates = [v \in INTERRUPTS |-> Gates[v]]
      BY DEF Gates
    <2> QED BY <2>1, <2>2, <2>3 DEF InterruptInv, GatesInv, CpuInv, Loaded
  <1>3. CASE Interrupt
    BY <1>3, InterruptStep
  <1>4. ASSUME UNCHANGED interrupt_vars, pc' \in {"memory", "idt"} => Loaded
        PROVE  InterruptInv'
    BY <1>4 DEF interrupt_vars, InterruptInv, GatesInv, CpuInv, Loaded
  <1>5. CASE PcieStep
    <2>1. UNCHANGED interrupt_vars /\ pc' \in PciePlaces \cup {"idle"}
      BY <1>5, PcieMoves DEF PcieStep
    <2> QED BY <1>4, <2>1 DEF PciePlaces, Enumerating
  <1>6. CASE MemoryInit
    BY <1>4, <1>6 DEF MemoryInit, InterruptInv, GatesInv
  <1>7. CASE Checks \/ SetupPageTables \/ FindMcfg \/ InitPcieDone \/ TestMalloc
    BY <1>4, <1>7 DEF Checks, SetupPageTables, FindMcfg, InitPcieDone, TestMalloc
  <1>8. CASE VbeInit \/ Tags
    BY <1>4, <1>8 DEF VbeInit, Tags
  <1>9. CASE EnableDevice
    BY <1>4, <1>9 DEF EnableDevice, pcie_enable_device
  <1>10. CASE MapResource
    BY <1>4, <1>10 DEF MapResource, pcie_map_phys_mmio, MapRange
  <1>11. CASE UNCHANGED vars
    BY <1>4, <1>11 DEF vars, InterruptInv, GatesInv
  <1> QED
    BY <1>1, <1>2, <1>3, <1>5, <1>6, <1>7, <1>8, <1>9, <1>10, <1>11 DEF Next, KernelStep

(* In every state gates and stack are in order.                            *)
LEMMA StubsReturn == Spec => [](LoopInv /\ InterruptInv)
  <1>1. Init => LoopInv /\ InterruptInv
    <2>1. Init => LoopInv
      BY DEF Init, InitPcieState, LoopInv
    <2>2. ASSUME Init PROVE InterruptInv
      <3>1. tr = 0 /\ cpu = Running /\ pc = "start" /\ idt = [v \in {} |-> SetGate(0, 0, 0)]
        BY <2>2 DEF Init, InitInterrupts
      <3>2. DOMAIN idt = {} /\ idt = [v \in {} |-> idt[v]]
        BY <3>1
      <3> QED BY <3>1, <3>2 DEF InterruptInv, GatesInv, CpuInv
    <2> QED BY <2>1, <2>2
  <1>2. LoopInv /\ InterruptInv /\ [Next]_vars => (LoopInv /\ InterruptInv)'
    BY LoopStep, DescriptorStep
  <1> QED BY <1>1, <1>2, PTL DEF Spec

(* When a stub returns, the frame the processor pushed is all there is on  *)
(* the stack, whichever interrupt it was; and the selectors that gates and *)
(* task register hold name what they are used for.                         *)
THEOREM KernelDescriptors == Spec => []DescriptorsServe
  <1>1. InterruptInv => DescriptorsServe
    BY InterruptServes
  <1> QED BY <1>1, StubsReturn, PTL

-----------------------------------------------------------------------------
(* Quotients and remainders of multiples.                                  *)
LEMMA ModZero ==
    ASSUME NEW d \in Nat \ {0}, NEW x \in Nat, x % d = 0
    PROVE  x \div d \in Nat /\ x = d * (x \div d)
  OBVIOUS

(* A number is put together from its quotient and its remainder.           *)
LEMMA DivMod ==
    ASSUME NEW d \in Nat \ {0}, NEW x \in Nat
    PROVE  x \div d \in Nat /\ x % d \in Nat /\ x % d < d /\ x = d * (x \div d) + (x % d)
  <1>1. x \div d \in Nat /\ x % d \in Nat /\ x % d < d
    OBVIOUS
  <1>2. x = d * (x \div d) + (x % d)
    OBVIOUS
  <1> QED BY <1>1, <1>2

(* The remainder and the quotient of a multiple.                           *)
LEMMA MultipleMod ==
    ASSUME NEW d \in Nat \ {0}, NEW k \in Nat, NEW r \in Nat, r < d
    PROVE  (d * k + r) % d = r /\ (d * k) % d = 0 /\ (d * k) \div d = k
  <1>1. d * k \in Nat /\ d * k + 0 = d * k
    OBVIOUS
  <1> QED BY <1>1, DivUnique

(* The remainder by a multiple of d leaves the same remainder by d.        *)
LEMMA ModOfMultiple ==
    ASSUME NEW d \in Nat \ {0}, NEW x \in Nat, NEW e \in Nat \ {0}, x % d = 0, e % d = 0
    PROVE  (x % e) % d = 0
  <1> DEFINE k == x \div d
             m == e \div d
             q == x \div e
             y == x % e
  <1>1. k \in Nat /\ x = d * k /\ m \in Nat /\ e = d * m
    BY ModZero
  <1>2. q \in Nat /\ y \in Nat /\ x = e * q + y
    BY DivMod
  <1> HIDE DEF k, m, q, y
  <1>3. y = d * k - (d * m) * q /\ y \in Nat
    <2>1. d * k = (d * m) * q + y
      BY <1>1, <1>2
    <2>2. d * k \in Nat /\ (d * m) * q \in Nat
      BY <1>1, <1>2
    <2> QED BY <1>2, <2>1, <2>2
  <1>4. (d * m) * q = d * (m * q) /\ m * q \in Nat
    BY <1>1, <1>2
  <1>5. d * k - d * (m * q) = d * (k - m * q)
    BY <1>1, <1>4
  <1>6. y = d * (k - m * q) /\ k - m * q \in Int
    BY <1>1, <1>3, <1>4, <1>5
  <1>7. k - m * q \in Nat
    <2>1. ASSUME k - m * q < 0 PROVE FALSE
      <3>1. d * (k - m * q) < 0
        BY <1>6, <2>1
      <3> QED BY <1>3, <1>6, <3>1
    <2> QED BY <1>6, <2>1
  <1>8. y % d = 0
    BY <1>6, <1>7, MultipleMod
  <1> QED BY <1>8 DEF y

(* A register's values are as many as a power of two, over 16.             *)
LEMMA RegisterModulus ==
    REG_MOD \in Nat /\ REG_MOD > 4
  <1>1. BYTE \in Nat /\ BYTE >= 2
    BY PcieAssumption
  <1>2. BYTE * BYTE \in Nat /\ BYTE * BYTE >= 4
    BY <1>1
  <1>3. (BYTE * BYTE) * BYTE \in Nat /\ (BYTE * BYTE) * BYTE >= 8
    BY <1>1, <1>2
  <1>4. ((BYTE * BYTE) * BYTE) * BYTE \in Nat /\ ((BYTE * BYTE) * BYTE) * BYTE >= 16
    BY <1>1, <1>3
  <1> QED BY <1>4 DEF REG_MOD

(* What a register holds is left as it is when it is written back.         *)
Settled(r) == r.value \in Nat /\ written(r, r.value) = r.value

(* It is, if it is not all ones, or these are what all ones leave.         *)
LEMMA SettledIf ==
    ASSUME NEW value \in Nat, NEW ones, value = REG_MOD - 1 => ones = value
    PROVE  Settled(Register(value, ones))
  BY DEF Settled, Register, written

(* What divides a divisor divides.                                         *)
LEMMA DividesThrough ==
    ASSUME NEW d \in Nat \ {0}, NEW e \in Nat \ {0}, NEW x \in Nat, x % e = 0, e % d = 0
    PROVE  x % d = 0
  <1> DEFINE q == x \div e
             m == e \div d
  <1>1. q \in Nat /\ x = e * q
    BY ModZero
  <1>2. m \in Nat /\ e = d * m
    BY ModZero
  <1> HIDE DEF q, m
  <1>3. x = d * (m * q) /\ m * q \in Nat
    BY <1>1, <1>2
  <1> DEFINE k == m * q
  <1> HIDE DEF k
  <1>4. k \in Nat /\ x = d * k /\ 0 \in Nat /\ 0 < d
    BY <1>3 DEF k
  <1> QED BY <1>4, MultipleMod

(* Sixteen divides the number of a register's values.                      *)
LEMMA RegisterFlags == REG_MOD % 16 = 0
  <1> DEFINE B == BYTE
             h == B \div 2
  <1>1. B \in Nat \ {0} /\ B % 2 = 0
    BY PcieAssumption
  <1>2. h \in Nat /\ B = 2 * h
    BY <1>1
  <1>3. REG_MOD = ((B * B) * B) * B
    BY DEF REG_MOD
  <1> HIDE DEF B, h
  <1> DEFINE s == B * B
             k == h * h
  <1>4. k \in Nat /\ s = 4 * k
    BY <1>2
  <1>5. REG_MOD = s * s
    BY <1>1, <1>3
  <1> HIDE DEF s, k
  <1> DEFINE m == k * k
  <1>6. m \in Nat /\ s * s = 16 * m
    BY <1>4
  <1> HIDE DEF m
  <1> QED BY <1>5, <1>6

(* And 64 KiB is a smaller power of two.                                   *)
LEMMA HalfModulus == HALF_MOD \in Nat \ {0} /\ HALF_MOD % 4 = 0 /\ HALF_MOD < REG_MOD
  <1> DEFINE B == BYTE
             h == B \div 2
  <1>1. B \in Nat \ {0, 1} /\ B % 2 = 0
    BY PcieAssumption
  <1>2. h \in Nat \ {0} /\ B = 2 * h
    BY <1>1
  <1>3. HALF_MOD = B * B /\ REG_MOD = ((B * B) * B) * B
    BY DEF HALF_MOD, REG_MOD
  <1> HIDE DEF B, h
  <1> DEFINE s == B * B
             k == h * h
  <1>4. k \in Nat \ {0} /\ s = 4 * k
    BY <1>2
  <1>5. REG_MOD = s * s
    BY <1>1, <1>3
  <1>6. HALF_MOD = s
    BY <1>3
  <1> HIDE DEF s, k
  <1>7. s \in Nat \ {0} /\ s % 4 = 0 /\ s >= 4
    BY <1>4
  <1>8. s < s * s
    BY <1>7
  <1> QED BY <1>5, <1>6, <1>7, <1>8

(* A BAR's base and size, and so the values its registers have, are        *)
(* multiples of what its flag bits take.                                   *)
LEMMA BlockFlags ==
    ASSUME NEW b, BlockOf(b)
    PROVE  /\ b.kind \in {"io", "io16"}    => b.base % 4 = 0 /\ b.size % 4 = 0
           /\ b.kind \notin {"io", "io16"} => b.base % 16 = 0 /\ b.size % 16 = 0
  <1>1. b.base \in Nat /\ b.size \in Nat \ {0} /\ b.base % b.size = 0
    BY DEF BlockOf
  <1>2. CASE b.kind \in {"io", "io16"}
    <2>1. b.size % 4 = 0
      BY <1>2 DEF BlockOf
    <2>2. b.base % 4 = 0
      BY <1>1, <2>1, DividesThrough
    <2> QED BY <1>2, <2>1, <2>2
  <1>3. CASE b.kind \notin {"io", "io16"}
    <2>1. b.size % 16 = 0
      BY <1>3 DEF BlockOf
    <2>2. b.base % 16 = 0
      BY <1>1, <2>1, DividesThrough
    <2> QED BY <1>3, <2>1, <2>2
  <1> QED BY <1>2, <1>3

(* No divisor but 1 has two numbers in a row.                              *)
LEMMA OneDivides ==
    ASSUME NEW d \in Nat \ {0}, NEW x \in Nat, x % d = 0, (x + 1) % d = 0
    PROVE  d = 1
  <1>1. CASE d > 1
    <2> DEFINE k == x \div d
    <2>1. k \in Nat /\ x = d * k
      BY ModZero
    <2> HIDE DEF k
    <2>2. 1 \in Nat /\ 1 < d
      BY <1>1
    <2>3. (d * k + 1) % d = 1
      BY <2>1, <2>2, MultipleMod
    <2> QED BY <2>1, <2>3
  <1> QED BY <1>1

(* The grains are not 0, so they can be divided by.                        *)
LEMMA GrainsPositive ==
    ASSUME NEW b, b.size \in Nat \ {0}
    PROVE  Grain(b) \in Nat \ {0} /\ UpperGrain(b) \in Nat \ {0}
  <1> DEFINE s == b.size
  <1>1. REG_MOD \in Nat \ {0} /\ s \in Nat \ {0}
    BY RegisterModulus
  <1> HIDE DEF s
  <1>2. CASE s >= REG_MOD
    <2>1. s \div REG_MOD \in Nat /\ s % REG_MOD < REG_MOD
          /\ s = REG_MOD * (s \div REG_MOD) + (s % REG_MOD)
      BY <1>1, DivMod
    <2>2. s \div REG_MOD # 0
      BY <1>1, <1>2, <2>1
    <2> QED BY <1>1, <1>2, <2>1, <2>2 DEF Grain, UpperGrain, s
  <1>3. CASE s < REG_MOD
    BY <1>1, <1>3 DEF Grain, UpperGrain, s
  <1> QED BY <1>1, <1>2, <1>3

(* What a BAR of 64 bits has in its two registers.                         *)
LEMMA WideGrains ==
    ASSUME NEW b, BlockOf(b), b.kind = "mem64"
    PROVE  LET g == Grain(b)
               u == UpperGrain(b)
           IN  /\ g \in Nat \ {0} /\ u \in Nat \ {0} /\ g % 16 = 0
               /\ REG_MOD - g \in Nat /\ REG_MOD - u \in Nat /\ REG_MOD % u = 0
               /\ u * REG_MOD = REG_MOD + (b.size - g)
               /\ (b.base \div REG_MOD) % u = 0
  <1> DEFINE R == REG_MOD
             M == UINTPTR_MOD
             size == b.size
             base == b.base
             g == Grain(b)
             u == UpperGrain(b)
  <1>1. /\ size \in Nat \ {0} /\ R \in Nat \ {0} /\ M = R * R /\ M % size = 0
        /\ size % 16 = 0 /\ R % 16 = 0
        /\ R % size = 0 \/ size % R = 0
        /\ base \in Nat /\ base % size = 0
    BY RegisterModulus, RegisterFlags, BlockFlags, PcieAssumption DEF BlockOf
  <1>2. g \in Nat \ {0} /\ u \in Nat \ {0}
    BY <1>1, GrainsPositive
  <1>3. g = (IF size < R THEN size ELSE R) /\ u = (IF size < R THEN 1 ELSE size \div R)
    BY DEF Grain, UpperGrain
  <1> HIDE DEF R, M, size, base, g, u
  <1>4. R % g = 0 /\ R % u = 0 /\ g % 16 = 0 /\ R - g \in Nat /\ R - u \in Nat /\ u * R = R + (size - g)
        /\ (base \div R) % u = 0
    <2>1. CASE size < R
      <3>1. g = size /\ u = 1
        BY <1>3, <2>1
      <3>2. size % R = size
        BY <1>1, <2>1
      <3>3. R % size = 0
        BY <1>1, <3>2
      <3>4. R % 1 = 0 /\ 1 * R = R
        BY <1>1
      <3>5. base \div R \in Nat
        BY <1>1, DivMod
      <3>6. (base \div R) % 1 = 0
        BY <3>5
      <3> QED BY <1>1, <2>1, <3>1, <3>3, <3>4, <3>6
    <2>2. CASE ~(size < R)
      <3>1. g = R /\ u = size \div R
        BY <1>3, <2>2
      <3>2. size % R = 0
        <4>1. CASE size > R
          <5>1. R % size = R
            BY <1>1, <4>1
          <5> QED BY <1>1, <5>1
        <4>2. CASE size = R
          BY <1>1, <4>2
        <4> QED BY <1>1, <2>2, <4>1, <4>2
      <3>3. u \in Nat \ {0} /\ size = R * u
        BY <1>1, <1>2, <3>1, <3>2, ModZero
      <3>4. R % u = 0 /\ u <= R
        <4> DEFINE q == M \div size
        <4>1. q \in Nat /\ M = size * q
          BY <1>1, ModZero
        <4> HIDE DEF q
        <4>2. R * R = R * (u * q) /\ u * q \in Nat
          BY <1>1, <3>3, <4>1
        <4>3. R = u * q
          <5> DEFINE k == u * q
          <5>1. k \in Nat /\ R * R = R * k
            BY <4>2
          <5> HIDE DEF k
          <5>2. (R * R) \div R = R /\ (R * k) \div R = k
            <6>1. 0 \in Nat /\ 0 < R /\ R \in Nat
              BY <1>1
            <6> QED BY <1>1, <5>1, <6>1, MultipleMod
          <5>3. R = k
            BY <5>1, <5>2
          <5> QED BY <5>3 DEF k
        <4>4. 0 \in Nat /\ 0 < u
          BY <3>3
        <4>5. R % u = 0
          BY <3>3, <4>1, <4>3, <4>4, MultipleMod
        <4>6. u <= u * q
          <5>1. q # 0
            BY <1>1, <4>1, <4>3, <3>3
          <5> QED BY <3>3, <4>1, <5>1
        <4> QED BY <4>3, <4>5, <4>6
      <3>5. R % R = 0
        BY <1>1
      <3>6. u * R = size
        BY <1>1, <3>3
      <3>7. (base \div R) % u = 0
        <4> DEFINE k == base \div size
        <4>1. k \in Nat /\ base = size * k
          BY <1>1, ModZero
        <4> HIDE DEF k
        <4>2. base = R * (u * k) /\ u * k \in Nat
          BY <1>1, <3>3, <4>1
        <4>3. 0 \in Nat /\ 0 < R /\ 0 < u
          BY <1>1, <3>3
        <4>4. base \div R = u * k
          BY <1>1, <4>2, <4>3, MultipleMod
        <4>5. (u * k) % u = 0
          BY <3>3, <4>1, <4>3, MultipleMod
        <4> QED BY <4>4, <4>5
      <3> QED BY <1>1, <3>1, <3>3, <3>4, <3>5, <3>6, <3>7
    <2> QED BY <2>1, <2>2
  <1> QED BY <1>2, <1>4 DEF R, size, base, g, u

(* Every value the firmware may have assigned is such a value.             *)
LEMMA RegistersSettled ==
    ASSUME machine \in Machines, NEW fn \in DOMAIN machine.functions, NEW i \in 0..6
    PROVE  Settled(register(fn, i))
  <1> DEFINE f == machine.functions[fn]
             b == f.bars[i]
             up == f.bars[i - 1]
             wide == i - 1 \in DOMAIN f.bars /\ up.kind = "mem64"
  <1>1. /\ f.bridge => f.registers \in [2..5 -> [value : 0..(REG_MOD - 2), ones : 0..(REG_MOD - 1)]]
        /\ DOMAIN f.bars \subseteq IF f.bridge THEN 0..1 ELSE 0..5
        /\ \A j \in DOMAIN f.bars :
              /\ BlockOf(f.bars[j])
              /\ f.bars[j].kind = "mem64" =>
                    j + 1 \notin DOMAIN f.bars /\ j # (IF f.bridge THEN 1 ELSE 5)
    BY MachineAssumption DEF WellFormed
  <1>2. REG_MOD \in Nat \ {0} /\ REG_MOD % 16 = 0 /\ REG_MOD > 4
    BY RegisterModulus, RegisterFlags
  <1>3. CASE f.bridge /\ i \in 2..5
    <2> DEFINE value == f.registers[i].value
    <2>1. register(fn, i) = Register(value, f.registers[i].ones)
      <3>1. i \notin DOMAIN f.bars /\ ~wide
        BY <1>1, <1>3
      <3> QED BY <1>3, <3>1 DEF register
    <2>2. value \in 0..(REG_MOD - 2)
      BY <1>1, <1>3
    <2> HIDE DEF value
    <2>3. value \in Nat /\ value # REG_MOD - 1
      BY <1>2, <2>2
    <2> QED BY <2>1, <2>3, SettledIf
  <1>4. CASE i \in DOMAIN f.bars
    <2>1. BlockOf(b) /\ ~(f.bridge /\ i \in 2..5) /\ ~wide
      BY <1>1, <1>4
    <2>2. CASE b.kind \in {"io", "io16"}
      <3>1. PICK ones : register(fn, i) = Register(b.base + 1, ones)
        <4>1. CASE b.kind = "io"
          BY <1>4, <2>1, <4>1 DEF register
        <4>2. CASE b.kind = "io16"
          BY <1>4, <2>1, <4>2 DEF register
        <4> QED BY <2>2, <4>1, <4>2
      <3> DEFINE base == b.base
      <3>2. base \in Nat /\ base % 4 = 0
        BY <2>1, <2>2, BlockFlags DEF BlockOf
      <3> HIDE DEF base
      <3>3. base + 1 \in Nat /\ base + 1 # REG_MOD - 1
        BY <1>2, <3>2
      <3> QED BY <3>1, <3>3, SettledIf DEF base
    <2>3. CASE b.kind = "mem32"
      <3>1. register(fn, i) = Register(b.base, REG_MOD - b.size)
        BY <1>4, <2>1, <2>3 DEF register
      <3> DEFINE base == b.base
      <3>2. base \in Nat /\ base % 16 = 0
        BY <2>1, <2>3, BlockFlags DEF BlockOf
      <3> HIDE DEF base
      <3>3. base # REG_MOD - 1
        BY <1>2, <3>2
      <3> QED BY <3>1, <3>2, <3>3, SettledIf DEF base
    <2>4. CASE b.kind = "mem64"
      <3> DEFINE base == b.base
                 low == base % REG_MOD
                 d == 16
      <3>1. register(fn, i) = Register(low + 4, REG_MOD - Grain(b) + 4)
        BY <1>4, <2>1, <2>4 DEF register
      <3>2. base \in Nat /\ base % d = 0 /\ d \in Nat \ {0}
        BY <2>1, <2>4, BlockFlags DEF BlockOf
      <3> HIDE DEF base
      <3>3. low \in Nat /\ REG_MOD % d = 0
        BY <1>2, <3>2
      <3> HIDE DEF d
      <3>4. low % d = 0
        BY <1>2, <3>2, <3>3, ModOfMultiple
      <3> HIDE DEF low
      <3>5. low + 4 \in Nat /\ low + 4 # REG_MOD - 1
        BY <1>2, <3>3, <3>4 DEF d
      <3> QED BY <3>1, <3>5, SettledIf
    <2> QED BY <2>1, <2>2, <2>3, <2>4 DEF BlockOf
  <1>5. CASE wide
    <2>1. BlockOf(up) /\ up.kind = "mem64" /\ i \notin DOMAIN f.bars /\ ~(f.bridge /\ i \in 2..5)
      BY <1>1, <1>5
    <2> DEFINE value == up.base \div REG_MOD
               u == UpperGrain(up)
    <2>2. register(fn, i) = Register(value, REG_MOD - u)
      BY <1>5, <2>1 DEF register
    <2>3. u \in Nat \ {0} /\ value % u = 0 /\ REG_MOD % u = 0
      BY <2>1, WideGrains
    <2>4. value \in Nat
      <3>1. up.base \in Nat
        BY <2>1 DEF BlockOf
      <3> QED BY <1>2, <3>1, DivMod
    <2> HIDE DEF value, u
    <2>5. ASSUME value = REG_MOD - 1 PROVE REG_MOD - u = value
      <3>1. (value + 1) % u = 0
        BY <1>2, <2>3, <2>5
      <3>2. u = 1
        BY <2>3, <2>4, <3>1, OneDivides
      <3> QED BY <2>5, <3>2
    <2> QED BY <2>2, <2>4, <2>5, SettledIf
  <1>6. CASE ~(f.bridge /\ i \in 2..5) /\ i \notin DOMAIN f.bars /\ ~wide
    <2>1. register(fn, i) = Register(0, 0)
      BY <1>6 DEF register
    <2>2. 0 \in Nat
      OBVIOUS
    <2> QED BY <2>1, <2>2, SettledIf
  <1> QED BY <1>3, <1>4, <1>5, <1>6

-----------------------------------------------------------------------------
(* Between the write of all ones to a BAR and the one that restores it,    *)
(* only its registers differ, of the function that is sized, and the old   *)
(* values are at hand.  Otherwise none differs.                            *)
Assigned(fn, i) == config[fn].bar[i] = register(fn, i).value

Sized(fn, i) ==
    fn = here /\ (i = loop.i \/ (is_64_bit(loop.low) /\ i = loop.i + 1))

ConfigShape ==
    /\ machine \in Machines
    /\ DOMAIN config = DOMAIN machine.functions
    /\ config = [fn \in DOMAIN config |->
                    [bar |-> config[fn].bar, enabled |-> config[fn].enabled, msix |-> config[fn].msix]]
    /\ \A fn \in DOMAIN config : config[fn].bar = [i \in 0..6 |-> config[fn].bar[i]]

BarInv ==
    /\ ConfigShape
    /\ \A fn \in DOMAIN config, i \in 0..6 : Assigned(fn, i) \/ (pc = "restore" /\ Sized(fn, i))
    /\ pc = "restore" /\ here \in DOMAIN config =>
          /\ loop.i \in 0..5
          /\ loop.low = register(here, loop.i).value
          /\ is_64_bit(loop.low) => loop.high = register(here, loop.i + 1).value

(* Registers and the function in hand are what they were.                  *)
LEMMA SameMachine ==
    ASSUME UNCHANGED machine
    PROVE  \A fn, i : register(fn, i)' = register(fn, i)
  BY DEF register

(* So is the function in hand.                                             *)
LEMMA SameHere ==
    ASSUME UNCHANGED <<machine, vm, segment, stack>>
    PROVE  UNCHANGED here
  BY DEF here, top, Answers, Address, ecam_virt_base, ConfigPage

(* What is written to BAR i of the function in hand.                       *)
LEMMA WrittenBars ==
    ASSUME ConfigShape, NEW i \in Nat, NEW wide \in BOOLEAN, NEW v, NEW w,
           config' = BarsWritten(i, wide, v, w), UNCHANGED machine
    PROVE  /\ ConfigShape'
           /\ \A fn \in DOMAIN config, j \in 0..6 :
                 config'[fn].bar[j] =
                    IF fn = here /\ j = i THEN written(register(here, i), v)
                    ELSE IF fn = here /\ wide /\ j = i + 1 THEN written(register(here, i + 1), w)
                    ELSE config[fn].bar[j]
  <1> DEFINE bars == [j \in 0..6 |->
                        CASE j = i              -> written(register(here, i), v)
                          [] wide /\ j = i + 1  -> written(register(here, i + 1), w)
                          [] OTHER              -> config[here].bar[j]]
  <1>1. config' = [config EXCEPT ![here].bar = bars]
    BY DEF BarsWritten
  <1>2. bars = [j \in 0..6 |-> bars[j]]
    OBVIOUS
  <1>3. \A j \in 0..6 : bars[j] = IF j = i THEN written(register(here, i), v)
                                  ELSE IF wide /\ j = i + 1 THEN written(register(here, i + 1), w)
                                  ELSE config[here].bar[j]
    <2> TAKE j \in 0..6
    <2>1. CASE j = i
      BY <2>1
    <2>2. CASE wide /\ j = i + 1
      BY <2>2
    <2>3. CASE j # i /\ ~(wide /\ j = i + 1)
      BY <2>3
    <2> QED BY <2>1, <2>2, <2>3
  <1> HIDE DEF bars
  <1>4. /\ DOMAIN config' = DOMAIN config
        /\ \A fn \in DOMAIN config : fn # here => config'[fn] = config[fn]
        /\ here \in DOMAIN config =>
              config'[here] = [bar |-> bars, enabled |-> config[here].enabled, msix |-> config[here].msix]
    BY <1>1 DEF ConfigShape
  <1>5. config' = [fn \in DOMAIN config' |-> config'[fn]]
    BY <1>1 DEF ConfigShape
  <1>6. \A fn \in DOMAIN config :
           /\ config'[fn] = [bar |-> config'[fn].bar, enabled |-> config'[fn].enabled,
                             msix |-> config'[fn].msix]
           /\ config'[fn].bar = [j \in 0..6 |-> config'[fn].bar[j]]
    <2> TAKE fn \in DOMAIN config
    <2>1. CASE fn = here
      BY <1>2, <1>4, <2>1
    <2>2. CASE fn # here
      BY <1>4, <2>2 DEF ConfigShape
    <2> QED BY <2>1, <2>2
  <1>7. ConfigShape'
    BY <1>4, <1>5, <1>6 DEF ConfigShape
  <1>8. \A fn \in DOMAIN config, j \in 0..6 :
           config'[fn].bar[j] =
              IF fn = here /\ j = i THEN written(register(here, i), v)
              ELSE IF fn = here /\ wide /\ j = i + 1 THEN written(register(here, i + 1), w)
              ELSE config[fn].bar[j]
    BY <1>3, <1>4
  <1> QED BY <1>7, <1>8

(* The write of all ones disturbs the BAR in hand, and its upper half only.*)
LEMMA SizeBarStep ==
    ASSUME LoopInv, BarInv, SizeBar
    PROVE  BarInv'
  <1> DEFINE low == config[here].bar[loop.i]
  <1>1. /\ pc = "bar" /\ loop.i \in 0..5 /\ pc' = "restore"
        /\ UNCHANGED <<machine, vm, segment, stack>>
        /\ config' = BarsWritten(loop.i, is_64_bit(low), REG_MOD - 1, REG_MOD - 1)
        /\ loop'.i = loop.i /\ loop'.low = low
        /\ is_64_bit(low) => loop'.high = config[here].bar[loop.i + 1]
    BY DEF SizeBar, LoopInv
  <1>2. UNCHANGED here /\ \A fn, i : register(fn, i)' = register(fn, i)
    BY <1>1, SameHere, SameMachine
  <1>3. is_64_bit(low) \in BOOLEAN /\ loop.i \in Nat /\ ConfigShape
    BY DEF is_64_bit, LoopInv, BarInv
  <1>4. /\ ConfigShape /\ ConfigShape'
        /\ \A fn \in DOMAIN config, j \in 0..6 :
              config'[fn].bar[j] =
                 IF fn = here /\ j = loop.i THEN written(register(here, loop.i), REG_MOD - 1)
                 ELSE IF fn = here /\ is_64_bit(low) /\ j = loop.i + 1
                 THEN written(register(here, loop.i + 1), REG_MOD - 1)
                 ELSE config[fn].bar[j]
    <2> DEFINE ones == REG_MOD - 1
               wide == is_64_bit(low)
    <2>1. config' = BarsWritten(loop.i, wide, ones, ones) /\ UNCHANGED machine /\ wide \in BOOLEAN
      BY <1>1, <1>3
    <2> HIDE DEF ones, wide
    <2>2. /\ ConfigShape'
          /\ \A fn \in DOMAIN config, j \in 0..6 :
                config'[fn].bar[j] =
                   IF fn = here /\ j = loop.i THEN written(register(here, loop.i), ones)
                   ELSE IF fn = here /\ wide /\ j = loop.i + 1
                   THEN written(register(here, loop.i + 1), ones)
                   ELSE config[fn].bar[j]
      BY <1>3, <2>1, WrittenBars
    <2> QED BY <1>3, <2>2 DEF ones, wide
  <1>5. \A fn \in DOMAIN config, i \in 0..6 : config[fn].bar[i] = register(fn, i).value
    BY <1>1 DEF BarInv, Assigned
  <1>6. DOMAIN config' = DOMAIN config
    BY <1>1, <1>4 DEF ConfigShape
  <1>7. \A fn \in DOMAIN config', i \in 0..6 : Assigned(fn, i)' \/ Sized(fn, i)'
    <2> TAKE fn \in DOMAIN config', i \in 0..6
    <2>1. CASE fn = here /\ (i = loop.i \/ (is_64_bit(low) /\ i = loop.i + 1))
      BY <1>1, <1>2, <2>1 DEF Sized
    <2>2. CASE ~(fn = here /\ (i = loop.i \/ (is_64_bit(low) /\ i = loop.i + 1)))
      <3>1. config'[fn].bar[i] = config[fn].bar[i]
        BY <1>4, <1>6, <2>2
      <3> QED BY <1>2, <1>5, <1>6, <3>1 DEF Assigned
    <2> QED BY <2>1, <2>2
  <1>8. here' \in DOMAIN config' =>
           /\ loop'.i \in 0..5
           /\ loop'.low = register(here, loop.i)'.value
           /\ is_64_bit(loop'.low) => loop'.high = register(here, loop.i + 1)'.value
    <2>1. loop.i \in 0..6 /\ loop.i + 1 \in 0..6
      BY <1>1
    <2>2. ASSUME here \in DOMAIN config
          PROVE  /\ low = register(here, loop.i).value
                 /\ config[here].bar[loop.i + 1] = register(here, loop.i + 1).value
      BY <1>5, <2>1, <2>2
    <2> QED BY <1>1, <1>2, <1>6, <2>2
  <1> QED BY <1>1, <1>4, <1>7, <1>8 DEF BarInv

(* The restoring write undoes it.                                          *)
LEMMA RestoreStep ==
    ASSUME LoopInv, BarInv, Restore
    PROVE  BarInv'
  <1> DEFINE low == loop.low
  <1>1. /\ pc = "restore" /\ pc' = "map_bar"
        /\ UNCHANGED <<machine, vm, segment, stack, loop>>
        /\ config' = BarsWritten(loop.i, is_64_bit(low), low, loop.high)
    BY DEF Restore
  <1>2. UNCHANGED here /\ \A fn, i : register(fn, i)' = register(fn, i)
    BY <1>1, SameHere, SameMachine
  <1>3. is_64_bit(low) \in BOOLEAN /\ loop.i \in Nat
    BY DEF is_64_bit, LoopInv
  <1>4. /\ ConfigShape /\ ConfigShape'
        /\ \A fn \in DOMAIN config, j \in 0..6 :
              config'[fn].bar[j] =
                 IF fn = here /\ j = loop.i THEN written(register(here, loop.i), low)
                 ELSE IF fn = here /\ is_64_bit(low) /\ j = loop.i + 1
                 THEN written(register(here, loop.i + 1), loop.high)
                 ELSE config[fn].bar[j]
    BY <1>1, <1>3, WrittenBars DEF BarInv
  <1>5. DOMAIN config' = DOMAIN config /\ DOMAIN config = DOMAIN machine.functions
    BY <1>1, <1>4 DEF ConfigShape
  <1>6. \A fn \in DOMAIN config, i \in 0..6 : config'[fn].bar[i] = register(fn, i).value
    <2> TAKE fn \in DOMAIN config, i \in 0..6
    <2>1. CASE fn = here /\ i = loop.i
      <3>1. low = register(here, i).value
        BY <1>1, <2>1 DEF BarInv
      <3>2. Settled(register(here, i))
        BY <1>4, <1>5, <2>1, RegistersSettled DEF ConfigShape
      <3> QED BY <1>4, <2>1, <3>1, <3>2 DEF Settled
    <2>2. CASE fn = here /\ is_64_bit(low) /\ i = loop.i + 1
      <3>1. loop.high = register(here, i).value /\ i # loop.i
        BY <1>1, <1>3, <2>2 DEF BarInv
      <3>2. Settled(register(here, i))
        BY <1>4, <1>5, <2>2, RegistersSettled DEF ConfigShape
      <3> QED BY <1>4, <2>2, <3>1, <3>2 DEF Settled
    <2>3. CASE ~(fn = here /\ (i = loop.i \/ (is_64_bit(low) /\ i = loop.i + 1)))
      <3>1. Assigned(fn, i) /\ config'[fn].bar[i] = config[fn].bar[i]
        BY <1>4, <2>3 DEF BarInv, Sized
      <3> QED BY <3>1 DEF Assigned
    <2> QED BY <2>1, <2>2, <2>3
  <1>7. \A fn \in DOMAIN config', i \in 0..6 : Assigned(fn, i)'
    BY <1>2, <1>5, <1>6 DEF Assigned
  <1> QED BY <1>1, <1>4, <1>7 DEF BarInv

(* Switching MSI-X or a device on leaves its BARs alone.                   *)
LEMMA SwitchedOn ==
    ASSUME BarInv, UNCHANGED machine, pc # "restore", pc' # "restore",
           DOMAIN config' = DOMAIN config,
           config' = [fn \in DOMAIN config |-> config'[fn]],
           \A fn \in DOMAIN config :
               config'[fn] = [bar |-> config[fn].bar, enabled |-> config'[fn].enabled,
                              msix |-> config'[fn].msix]
    PROVE  BarInv'
  <1>1. \A fn, i : register(fn, i)' = register(fn, i)
    BY SameMachine
  <1>2. \A fn \in DOMAIN config : config'[fn].bar = config[fn].bar
    OBVIOUS
  <1>3. ConfigShape'
    <2>1. \A fn \in DOMAIN config :
             /\ config'[fn] = [bar |-> config'[fn].bar, enabled |-> config'[fn].enabled,
                               msix |-> config'[fn].msix]
             /\ config'[fn].bar = [i \in 0..6 |-> config'[fn].bar[i]]
      <3> TAKE fn \in DOMAIN config
      <3>1. config'[fn].bar = config[fn].bar
        BY <1>2
      <3>2. config[fn].bar = [i \in 0..6 |-> config[fn].bar[i]]
        BY DEF BarInv, ConfigShape
      <3> QED BY <3>1, <3>2
    <2>2. machine' \in Machines /\ DOMAIN config' = DOMAIN machine'.functions
      BY DEF BarInv, ConfigShape
    <2> QED BY <2>1, <2>2 DEF ConfigShape
  <1>4. \A fn \in DOMAIN config', i \in 0..6 : Assigned(fn, i)'
    BY <1>1, <1>2 DEF BarInv, Assigned
  <1> QED BY <1>3, <1>4 DEF BarInv

(* MSI-X Enable is no BAR.                                                 *)
LEMMA EnableMsixStep ==
    ASSUME BarInv, EnableMsix
    PROVE  BarInv'
  <1>1. UNCHANGED machine /\ pc # "restore" /\ pc' # "restore"
    BY DEF EnableMsix
  <1>2. config' = [config EXCEPT ![here].msix = TRUE]
    BY DEF EnableMsix
  <1>3. /\ DOMAIN config' = DOMAIN config
        /\ config' = [fn \in DOMAIN config |-> config'[fn]]
        /\ \A fn \in DOMAIN config :
              config'[fn] = [bar |-> config[fn].bar, enabled |-> config'[fn].enabled,
                             msix |-> config'[fn].msix]
    <2>1. /\ config = [fn \in DOMAIN config |-> config[fn]]
          /\ \A fn \in DOMAIN config :
                config[fn] = [bar |-> config[fn].bar, enabled |-> config[fn].enabled,
                              msix |-> config[fn].msix]
      BY DEF BarInv, ConfigShape
    <2>2. /\ DOMAIN config' = DOMAIN config
          /\ config' = [fn \in DOMAIN config |-> config'[fn]]
          /\ \A fn \in DOMAIN config : fn # here => config'[fn] = config[fn]
          /\ here \in DOMAIN config => config'[here] = [config[here] EXCEPT !.msix = TRUE]
      BY <1>2, <2>1
    <2> QED BY <2>1, <2>2
  <1> QED BY <1>1, <1>3, SwitchedOn

(* Nor are memory space and bus mastering.                                 *)
LEMMA EnableDeviceStep ==
    ASSUME BarInv, EnableDevice
    PROVE  BarInv'
  <1>1. PICK fn : pcie_enable_device(fn, "idle")
    BY DEF EnableDevice
  <1> DEFINE who == Answers(fn[1], fn[2], fn[3])
  <1>2. /\ UNCHANGED machine /\ pc # "restore" /\ pc' # "restore"
        /\ config' = [f \in DOMAIN config |->
                         IF f \in who THEN [config[f] EXCEPT !.enabled = TRUE] ELSE config[f]]
    BY <1>1 DEF pcie_enable_device
  <1> HIDE DEF who
  <1>3. /\ DOMAIN config' = DOMAIN config
        /\ config' = [f \in DOMAIN config |-> config'[f]]
    BY <1>2
  <1>4. \A f \in DOMAIN config :
           config'[f] = [bar |-> config[f].bar, enabled |-> config'[f].enabled,
                         msix |-> config'[f].msix]
    <2> TAKE f \in DOMAIN config
    <2>1. config[f] = [bar |-> config[f].bar, enabled |-> config[f].enabled, msix |-> config[f].msix]
      BY DEF BarInv, ConfigShape
    <2>2. CASE f \in who
      BY <1>2, <2>1, <2>2
    <2>3. CASE f \notin who
      BY <1>2, <2>1, <2>3
    <2> QED BY <2>2, <2>3
  <1> QED BY <1>2, <1>3, <1>4, SwitchedOn

(* All other steps keep the registers; none of them comes to a restoring   *)
(* write, or leaves from one.                                              *)
LEMMA BarFrame ==
    ASSUME LoopInv, [Next]_vars
    PROVE  \/ SizeBar \/ Restore \/ EnableMsix \/ EnableDevice
           \/ UNCHANGED <<machine, config>> /\ pc # "restore" /\ pc' # "restore"
           \/ UNCHANGED <<pcie_vars, pc>>
  <1>1. CASE PcieStep
    <2>1. CASE PcieNext /\ ~(SizeBar \/ Restore \/ EnableMsix)
      <3>1. UNCHANGED <<machine, config>> /\ pc # "restore"
        BY <2>1 DEF PcieNext, NextSegment, MapEcam, Probe, Visit, Bridge, Return, MapBar,
            MapMmio, MapMsixTable, ProgramEntry
      <3>2. CASE MapMmio
        BY <3>1, <3>2 DEF MapMmio, LoopInv
      <3>3. CASE MapBar
        BY <3>1, <3>3 DEF MapBar, MapRange
      <3>4. CASE MapMsixTable
        BY <3>1, <3>4 DEF MapMsixTable, MapRange
      <3>5. CASE ~(MapMmio \/ MapBar \/ MapMsixTable)
        BY <2>1, <3>1, <3>5 DEF PcieNext, NextSegment, MapEcam, Probe, Visit, Bridge,
            Return, ProgramEntry
      <3> QED BY <3>2, <3>3, <3>4, <3>5
    <2> QED BY <1>1, <2>1 DEF PcieStep
  <1>2. CASE KernelStep /\ ~PcieStep
    BY <1>2 DEF KernelStep, Checks, SetupPageTables, GdtInitialize, MemoryInit,
        IdtInitialize, VbeInit, Tags, FindMcfg, InitPcieDone, TestMalloc,
        pcie_set_pml4_and_offset, pcie_vars
  <1>3. CASE MapResource
    BY <1>3 DEF MapResource, pcie_map_phys_mmio, MapRange
  <1>4. CASE Interrupt
    BY <1>4 DEF Interrupt
  <1>5. CASE UNCHANGED vars
    BY <1>5 DEF vars
  <1> QED BY <1>1, <1>2, <1>3, <1>4, <1>5 DEF Next, KernelStep

(* So the BARs are sound after every step.                                 *)
LEMMA BarStep ==
    ASSUME LoopInv, BarInv, [Next]_vars
    PROVE  BarInv'
  <1>1. CASE UNCHANGED <<machine, config>> /\ pc # "restore" /\ pc' # "restore"
    <2>1. \A fn, i : register(fn, i)' = register(fn, i)
      BY <1>1, SameMachine
    <2>2. ConfigShape'
      BY <1>1 DEF BarInv, ConfigShape
    <2>3. \A fn \in DOMAIN config', i \in 0..6 : Assigned(fn, i)'
      BY <1>1, <2>1 DEF BarInv, Assigned
    <2> QED BY <1>1, <2>2, <2>3 DEF BarInv
  <1>2. CASE UNCHANGED <<pcie_vars, pc>>
    <2>1. UNCHANGED <<machine, vm, segment, stack, loop, config, pc>>
      BY <1>2 DEF pcie_vars
    <2>2. UNCHANGED here /\ \A fn, i : register(fn, i)' = register(fn, i)
      BY <2>1, SameHere, SameMachine
    <2>3. ConfigShape'
      BY <2>1 DEF BarInv, ConfigShape
    <2>4. \A fn \in DOMAIN config, i \in 0..6 : Assigned(fn, i) => Assigned(fn, i)'
      BY <2>1, <2>2 DEF Assigned
    <2>5. \A fn, i : Sized(fn, i) => Sized(fn, i)'
      BY <2>1, <2>2 DEF Sized
    <2> QED BY <2>1, <2>2, <2>3, <2>4, <2>5 DEF BarInv
  <1> QED
    BY <1>1, <1>2, BarFrame, SizeBarStep, RestoreStep, EnableMsixStep, EnableDeviceStep

(* In every state the registers are in order.                              *)
LEMMA BarsKept == Spec => [](LoopInv /\ BarInv)
  <1>1. Init => LoopInv /\ BarInv
    <2> SUFFICES ASSUME Init PROVE LoopInv /\ BarInv
      OBVIOUS
    <2>1. LoopInv
      BY DEF Init, InitPcieState, LoopInv
    <2>2. /\ pc = "start" /\ machine \in Machines
          /\ config = [fn \in DOMAIN machine.functions |->
                         [bar |-> [i \in 0..6 |-> register(fn, i).value],
                          enabled |-> FALSE, msix |-> FALSE]]
      BY DEF Init, InitMachine
    <2>3. \A fn \in DOMAIN config :
             /\ config[fn] = [bar |-> config[fn].bar, enabled |-> config[fn].enabled,
                              msix |-> config[fn].msix]
             /\ config[fn].bar = [i \in 0..6 |-> config[fn].bar[i]]
             /\ \A i \in 0..6 : Assigned(fn, i)
      BY <2>2 DEF Assigned
    <2>4. ConfigShape
      BY <2>2, <2>3 DEF ConfigShape
    <2> QED BY <2>1, <2>2, <2>3, <2>4 DEF BarInv
  <1>2. LoopInv /\ BarInv /\ [Next]_vars => (LoopInv /\ BarInv)'
    BY LoopStep, BarStep
  <1> QED BY <1>1, <1>2, PTL DEF Spec

(* Sizing leaves no trace: except between its write of all ones and the    *)
(* restoring one, every BAR holds what the firmware assigned.              *)
THEOREM KernelRestoresBars == Spec => []BarsRestored
  <1>1. BarInv => BarsRestored
    BY DEF BarInv, Assigned, BarsRestored
  <1> QED BY <1>1, BarsKept, PTL

-----------------------------------------------------------------------------
(* The page tables.  A pool that is set up has handed out some pages.      *)
PoolOk(g) ==
    /\ g \in [next : Nat, limit : Nat]
    /\ g.limit = pool_end /\ g.next <= pool_end
    /\ \E k \in Nat : g.next = kernel_end + k * PAGE_SIZE

(* It gives the page it is at, or none, and never goes back.               *)
LEMMA PoolGives ==
    ASSUME NEW g, PoolOk(g), NEW n \in {1, l_pageCount}
    PROVE  LET r == memory_alloc_pages(g, n) IN
           /\ PoolOk(r.pool)
           /\ g.next <= r.pool.next
           /\ r.ptr # NULL => r.ptr = g.next /\ r.ptr \in Nat /\ r.ptr < r.pool.next
  <1> DEFINE r == memory_alloc_pages(g, n)
  <1>1. n \in Nat \ {0} /\ n * PAGE_SIZE \in Nat \ {0} /\ pool_end + n * PAGE_SIZE < UINTPTR_MOD
    <2>1. l_pageCount \in Nat \ {0} /\ pool_end + l_pageCount * PAGE_SIZE < UINTPTR_MOD
      BY KernelAssumption
    <2>2. PAGE_SIZE \in Nat \ {0} /\ pool_end \in Nat /\ UINTPTR_MOD \in Nat
      BY PageAssumption, PoolBounds, SpaceAssumption
    <2>3. 1 * PAGE_SIZE = PAGE_SIZE /\ PAGE_SIZE <= l_pageCount * PAGE_SIZE
      BY <2>1, <2>2
    <2>4. l_pageCount * PAGE_SIZE \in Nat
      BY <2>1, <2>2
    <2>5. CASE n = 1
      BY <2>1, <2>2, <2>3, <2>4, <2>5
    <2>6. CASE n = l_pageCount
      BY <2>1, <2>2, <2>3, <2>4, <2>6
    <2> QED BY <2>5, <2>6
  <1>2. PICK k \in Nat : g.next = kernel_end + k * PAGE_SIZE
    BY DEF PoolOk
  <1>3. /\ r.pool \in [next : Nat, limit : Nat]
        /\ r.pool.limit = pool_end
        /\ r.pool.next <= pool_end
        /\ \/ /\ r.ptr = NULL
              /\ r.pool.next = kernel_end + k * PAGE_SIZE
           \/ /\ r.ptr \in Nat \ {0}
              /\ r.ptr = kernel_end + k * PAGE_SIZE
              /\ r.pool.next = r.ptr + n * PAGE_SIZE
              /\ r.pool.next = kernel_end + (k + n) * PAGE_SIZE
    BY <1>1, <1>2, AllocResult DEF PoolOk
  <1> HIDE DEF r
  <1>4. k + n \in Nat
    BY <1>1
  <1>5. PoolOk(r.pool)
    BY <1>3, <1>4 DEF PoolOk
  <1>6. g.next <= r.pool.next /\ (r.ptr # NULL => r.ptr = g.next /\ r.ptr \in Nat /\ r.ptr < r.pool.next)
    BY <1>1, <1>2, <1>3 DEF PoolOk, NULL
  <1> QED BY <1>5, <1>6 DEF r

(***************************************************************************)
(* The tables have levels: 4 for the root, and every entry that is not a   *)
(* page leads to a table one level below, to which no other entry leads.   *)
(* Only entries at level 2 are large pages.                                *)
(***************************************************************************)
Leveled(T, level) ==
    /\ T = [t \in DOMAIN T |-> T[t]]
    /\ level \in [DOMAIN T -> 1..4]
    /\ page_table_l4 \in DOMAIN T /\ level[page_table_l4] = 4
    /\ \A t \in DOMAIN T : \A i \in DOMAIN T[t] :
          /\ T[t][i].large => level[t] = 2
          /\ level[t] > 1 /\ ~T[t][i].large =>
                T[t][i].frame \in DOMAIN T /\ level[T[t][i].frame] = level[t] - 1

OneParent(T, level) ==
    \A t, u \in DOMAIN T : \A i \in DOMAIN T[t], j \in DOMAIN T[u] :
        /\ level[t] > 1 /\ ~T[t][i].large
        /\ level[u] > 1 /\ ~T[u][j].large
        /\ T[t][i].frame = T[u][j].frame
        => t = u /\ i = j

(* The pool has not handed out any page behind the tables.                 *)
VmOk(m, level) ==
    /\ m = [tables |-> m.tables, pool |-> m.pool, stray |-> m.stray, halted |-> m.halted]
    /\ m.halted \in BOOLEAN
    /\ PoolOk(m.pool)
    /\ Leveled(m.tables, level)
    /\ OneParent(m.tables, level)
    /\ \A t \in DOMAIN m.tables : t \in Nat /\ t < m.pool.next

(* Tables stay, at their levels, and above the lowest so do their entries. *)
Grows(m, level, n, higher) ==
    \A t \in DOMAIN m.tables :
        /\ t \in DOMAIN n.tables /\ higher[t] = level[t]
        /\ level[t] > 1 =>
              \A i \in DOMAIN m.tables[t] :
                  i \in DOMAIN n.tables[t] /\ n.tables[t][i] = m.tables[t][i]

(* An entry that was not there is no large page, and in a table that is not*)
(* below the level low.                                                    *)
Adds(m, n, higher, low) ==
    \A t \in DOMAIN n.tables : \A i \in DOMAIN n.tables[t] :
        \/ t \in DOMAIN m.tables /\ i \in DOMAIN m.tables[t] /\ n.tables[t][i] = m.tables[t][i]
        \/ ~n.tables[t][i].large /\ higher[t] >= low

(* Adding twice is adding.                                                 *)
LEMMA AddsTransitive ==
    ASSUME NEW a, NEW b, NEW lb, NEW c, NEW lc, NEW low,
           Adds(a, b, lb, low), Adds(b, c, lc, low), Grows(b, lb, c, lc)
    PROVE  Adds(a, c, lc, low)
  <1> SUFFICES ASSUME NEW t \in DOMAIN c.tables, NEW i \in DOMAIN c.tables[t],
                      ~(~c.tables[t][i].large /\ lc[t] >= low)
               PROVE  t \in DOMAIN a.tables /\ i \in DOMAIN a.tables[t]
                      /\ c.tables[t][i] = a.tables[t][i]
    BY DEF Adds
  <1>1. t \in DOMAIN b.tables /\ i \in DOMAIN b.tables[t] /\ c.tables[t][i] = b.tables[t][i]
    BY DEF Adds
  <1>2. lc[t] = lb[t]
    BY <1>1 DEF Grows
  <1> QED BY <1>1, <1>2 DEF Adds

(* Growing twice is growing.                                               *)
LEMMA GrowsTransitive ==
    ASSUME NEW a, NEW la, NEW b, NEW lb, NEW c, NEW lc,
           Grows(a, la, b, lb), Grows(b, lb, c, lc)
    PROVE  Grows(a, la, c, lc)
  BY DEF Grows

(* So is staying as they are.                                              *)
LEMMA GrowsReflexive ==
    ASSUME NEW a, NEW la
    PROVE  Grows(a, la, a, la)
  BY DEF Grows

(* The tables with a new one, empty, below entry i of t.                   *)
Grown(T, t, i, new) == With(With(T, t, With(T[t], i, Below(new))), new, EmptyTable)

GrownFacts(T, t, i, new, U) ==
    /\ DOMAIN U = DOMAIN T \cup {new}
    /\ U = [u \in DOMAIN U |-> U[u]]
    /\ DOMAIN U[new] = {}
    /\ DOMAIN U[t] = DOMAIN T[t] \cup {i}
    /\ U[t][i].frame = new /\ U[t][i].large = FALSE
    /\ \A j \in DOMAIN T[t] : U[t][j] = T[t][j]
    /\ \A u \in DOMAIN T : u # t => U[u] = T[u]

(* What the two writes of a new table leave.                               *)
LEMMA GrownTables ==
    ASSUME NEW T, NEW t \in DOMAIN T, NEW i, NEW new, new \notin DOMAIN T, i \notin DOMAIN T[t],
           NEW U, U = Grown(T, t, i, new)
    PROVE  GrownFacts(T, t, i, new, U)
  <1> DEFINE row == With(T[t], i, Below(new))
             mid == With(T, t, row)
  <1>1. DOMAIN row = DOMAIN T[t] \cup {i} /\ row[i] = Below(new) /\ \A j \in DOMAIN T[t] : row[j] = T[t][j]
    BY DEF With
  <1>2. DOMAIN mid = DOMAIN T /\ mid[t] = row /\ \A u \in DOMAIN T : u # t => mid[u] = T[u]
    <2> HIDE DEF row
    <2> QED BY DEF With
  <1>3. U = With(mid, new, EmptyTable)
    BY DEF Grown
  <1>4. /\ DOMAIN U = DOMAIN T \cup {new}
        /\ U = [u \in DOMAIN U |-> U[u]]
        /\ U[new] = EmptyTable
        /\ \A u \in DOMAIN T : U[u] = mid[u]
    <2> HIDE DEF mid
    <2> QED BY <1>2, <1>3 DEF With
  <1>5. DOMAIN EmptyTable = {}
    BY DEF EmptyTable
  <1>6. Below(new).frame = new /\ Below(new).large = FALSE
    BY DEF Below
  <1> HIDE DEF row, mid
  <1>7. U[t] = row /\ \A u \in DOMAIN T : u # t => U[u] = T[u]
    BY <1>2, <1>4
  <1> QED BY <1>1, <1>4, <1>5, <1>6, <1>7 DEF GrownFacts

(* A table that is added keeps the levels.                                 *)
LEMMA GrownLeveled ==
    ASSUME NEW T, NEW level, Leveled(T, level), OneParent(T, level),
           NEW t \in DOMAIN T, NEW i, NEW new, new \notin DOMAIN T, i \notin DOMAIN T[t],
           level[t] > 1,
           NEW U, U = Grown(T, t, i, new),
           NEW higher, higher = With(level, new, level[t] - 1)
    PROVE  Leveled(U, higher) /\ OneParent(U, higher)
  <1>1. /\ DOMAIN U = DOMAIN T \cup {new}
        /\ U = [u \in DOMAIN U |-> U[u]]
        /\ DOMAIN U[new] = {}
        /\ DOMAIN U[t] = DOMAIN T[t] \cup {i}
        /\ U[t][i].frame = new /\ U[t][i].large = FALSE
        /\ \A j \in DOMAIN T[t] : U[t][j] = T[t][j]
        /\ \A u \in DOMAIN T : u # t => U[u] = T[u]
    <2>1. GrownFacts(T, t, i, new, U)
      BY GrownTables
    <2> QED BY <2>1 DEF GrownFacts
  <1>2. level \in [DOMAIN T -> 1..4] /\ level[t] - 1 \in 1..4
    BY DEF Leveled
  <1>3. /\ higher \in [DOMAIN U -> 1..4]
        /\ higher[new] = level[t] - 1
        /\ \A u \in DOMAIN T : higher[u] = level[u]
    <2>1. DOMAIN level = DOMAIN T
      BY <1>2
    <2>2. /\ DOMAIN higher = DOMAIN U
          /\ higher = [y \in DOMAIN higher |-> higher[y]]
          /\ higher[new] = level[t] - 1
          /\ \A u \in DOMAIN T : u # new => higher[u] = level[u]
      BY <1>1, <2>1 DEF With
    <2>3. \A u \in DOMAIN U : higher[u] \in 1..4
      BY <1>1, <1>2, <2>2
    <2> QED BY <2>2, <2>3
  <1>4. \A u \in DOMAIN U : \A j \in DOMAIN U[u] :
           \/ u = t /\ j = i
           \/ u \in DOMAIN T /\ j \in DOMAIN T[u] /\ U[u][j] = T[u][j]
    BY <1>1
  <1>5. \A u \in DOMAIN T : \A j \in DOMAIN T[u] :
          /\ T[u][j].large => level[u] = 2
          /\ level[u] > 1 /\ ~T[u][j].large =>
                T[u][j].frame \in DOMAIN T /\ level[T[u][j].frame] = level[u] - 1
    BY DEF Leveled
  <1>6. Leveled(U, higher)
    <2>1. page_table_l4 \in DOMAIN U /\ higher[page_table_l4] = 4
      BY <1>1, <1>3 DEF Leveled
    <2>2. ASSUME NEW u \in DOMAIN U, NEW j \in DOMAIN U[u]
          PROVE  /\ U[u][j].large => higher[u] = 2
                 /\ higher[u] > 1 /\ ~U[u][j].large =>
                       U[u][j].frame \in DOMAIN U /\ higher[U[u][j].frame] = higher[u] - 1
      <3>1. CASE u = t /\ j = i
        BY <1>1, <1>3, <3>1
      <3>2. CASE u \in DOMAIN T /\ j \in DOMAIN T[u] /\ U[u][j] = T[u][j]
        BY <1>1, <1>3, <1>5, <3>2
      <3> QED BY <1>4, <3>1, <3>2
    <2> QED BY <1>1, <1>3, <2>1, <2>2 DEF Leveled
  <1>7. OneParent(U, higher)
    <2> SUFFICES ASSUME NEW u \in DOMAIN U, NEW w \in DOMAIN U,
                        NEW j \in DOMAIN U[u], NEW k \in DOMAIN U[w],
                        higher[u] > 1, ~U[u][j].large, higher[w] > 1, ~U[w][k].large,
                        U[u][j].frame = U[w][k].frame
                 PROVE  u = w /\ j = k
      BY DEF OneParent
    <2>1. \A x \in DOMAIN T : \A l \in DOMAIN T[x] :
             level[x] > 1 /\ ~T[x][l].large => T[x][l].frame # new
      BY <1>5
    <2>2. CASE u \in DOMAIN T /\ j \in DOMAIN T[u] /\ U[u][j] = T[u][j]
      <3>1. T[u][j].frame # new
        BY <1>3, <2>1, <2>2
      <3>2. ~(w = t /\ k = i)
        BY <1>1, <2>2, <3>1
      <3>3. w \in DOMAIN T /\ k \in DOMAIN T[w] /\ U[w][k] = T[w][k]
        BY <1>4, <3>2
      <3> QED BY <1>3, <2>2, <3>3 DEF OneParent
    <2>3. CASE u = t /\ j = i
      <3>1. U[w][k].frame = new
        BY <1>1, <2>3
      <3>2. ~(w \in DOMAIN T /\ k \in DOMAIN T[w] /\ U[w][k] = T[w][k])
        BY <1>3, <2>1, <3>1
      <3> QED BY <1>4, <2>3, <3>2
    <2> QED BY <1>4, <2>2, <2>3
  <1> QED BY <1>6, <1>7

(* allocate_physical_frame takes a page no table is in.                    *)
LEMMA NewTableOk ==
    ASSUME NEW m, NEW level, VmOk(m, level), ~m.halted,
           NEW t \in DOMAIN m.tables, NEW i, level[t] > 1, i \notin DOMAIN m.tables[t],
           NEW n, n = NewTable(m, t, i)
    PROVE  \E higher :
              /\ VmOk(n, higher) /\ Grows(m, level, n, higher) /\ n.stray = m.stray
              /\ \A low \in 1..level[t] : Adds(m, n, higher, low)
              /\ ~n.halted => i \in DOMAIN n.tables[t] /\ ~n.tables[t][i].large
  <1> DEFINE r == memory_alloc_pages(m.pool, 1)
  <1>1. /\ PoolOk(r.pool) /\ m.pool.next <= r.pool.next
        /\ r.ptr # NULL => r.ptr = m.pool.next /\ r.ptr \in Nat /\ r.ptr < r.pool.next
    BY PoolGives DEF VmOk
  <1>2. n = IF r.ptr = NULL
            THEN [m EXCEPT !.pool = r.pool, !.halted = TRUE]
            ELSE [m EXCEPT !.pool = r.pool, !.tables = Grown(m.tables, t, i, r.ptr)]
    BY DEF NewTable, Grown
  <1> HIDE DEF r
  <1>3. /\ m = [tables |-> m.tables, pool |-> m.pool, stray |-> m.stray, halted |-> m.halted]
        /\ m.halted \in BOOLEAN /\ PoolOk(m.pool)
        /\ Leveled(m.tables, level) /\ OneParent(m.tables, level)
        /\ \A u \in DOMAIN m.tables : u \in Nat /\ u < m.pool.next
        /\ m.pool.next \in Nat /\ r.pool.next \in Nat
    BY <1>1 DEF VmOk, PoolOk
  <1>4. CASE r.ptr = NULL
    <2>1. n = [tables |-> m.tables, pool |-> r.pool, stray |-> m.stray, halted |-> TRUE]
      BY <1>2, <1>3, <1>4
    <2>2. \A u \in DOMAIN m.tables : u \in Nat /\ u < r.pool.next
      BY <1>1, <1>3
    <2>3. VmOk(n, level)
      BY <1>1, <1>3, <2>1, <2>2 DEF VmOk
    <2>4. n.tables = m.tables /\ n.stray = m.stray /\ n.halted = TRUE
      BY <2>1
    <2>5. Grows(m, level, n, level)
      BY <2>4 DEF Grows
    <2>6. ASSUME NEW low PROVE Adds(m, n, level, low)
      BY <2>4 DEF Adds
    <2> QED BY <2>3, <2>4, <2>5, <2>6
  <1>5. CASE r.ptr # NULL
    <2> DEFINE U == Grown(m.tables, t, i, r.ptr)
               higher == With(level, r.ptr, level[t] - 1)
    <2>1. n = [tables |-> U, pool |-> r.pool, stray |-> m.stray, halted |-> m.halted]
      BY <1>2, <1>3, <1>5
    <2>2. r.ptr = m.pool.next /\ r.ptr \in Nat /\ r.ptr < r.pool.next /\ r.ptr \notin DOMAIN m.tables
      BY <1>1, <1>3, <1>5
    <2>3. Leveled(U, higher) /\ OneParent(U, higher)
      BY <1>3, <2>2, GrownLeveled
    <2>4. /\ DOMAIN U = DOMAIN m.tables \cup {r.ptr}
          /\ DOMAIN U[r.ptr] = {}
          /\ DOMAIN U[t] = DOMAIN m.tables[t] \cup {i}
          /\ U[t][i].large = FALSE
          /\ \A j \in DOMAIN m.tables[t] : U[t][j] = m.tables[t][j]
          /\ \A u \in DOMAIN m.tables : u # t => U[u] = m.tables[u]
      <3>1. GrownFacts(m.tables, t, i, r.ptr, U)
        BY <2>2, GrownTables
      <3> HIDE DEF U
      <3> QED BY <3>1 DEF GrownFacts
    <2>5. \A u \in DOMAIN m.tables : higher[u] = level[u]
      BY <1>3, <2>2 DEF With, Leveled
    <2> HIDE DEF U, higher
    <2>6. \A u \in DOMAIN U : u \in Nat /\ u < r.pool.next
      BY <1>1, <1>3, <2>2, <2>4
    <2>7. VmOk(n, higher)
      BY <1>1, <1>3, <2>1, <2>3, <2>6 DEF VmOk
    <2>8. Grows(m, level, n, higher)
      BY <2>1, <2>4, <2>5 DEF Grows
    <2>9. i \in DOMAIN n.tables[t] /\ ~n.tables[t][i].large
      BY <2>1, <2>4
    <2>10. ASSUME NEW low \in 1..level[t] PROVE Adds(m, n, higher, low)
      <3>1. \A u \in DOMAIN U : \A j \in DOMAIN U[u] :
               \/ u = t /\ j = i
               \/ u \in DOMAIN m.tables /\ j \in DOMAIN m.tables[u] /\ U[u][j] = m.tables[u][j]
        BY <2>4
      <3>2. level[t] \in 1..4
        BY <1>3 DEF Leveled
      <3>3. higher[t] >= low
        BY <2>5, <3>2
      <3> QED BY <2>1, <2>4, <3>1, <3>3 DEF Adds
    <2>11. n.stray = m.stray
      BY <2>1
    <2> QED BY <2>7, <2>8, <2>9, <2>10, <2>11
  <1> QED BY <1>4, <1>5

(* The table below an entry, made if there is none.                        *)
LEMMA TableBelowOk ==
    ASSUME NEW m, NEW level, VmOk(m, level), ~m.halted,
           NEW t \in DOMAIN m.tables, NEW i, level[t] > 1,
           NEW n, n = table_below(m, t, i)
    PROVE  \E higher :
              /\ VmOk(n, higher) /\ Grows(m, level, n, higher) /\ n.stray = m.stray
              /\ \A low \in 1..level[t] : Adds(m, n, higher, low)
              /\ ~n.halted => i \in DOMAIN n.tables[t]
  <1>1. CASE i \in DOMAIN m.tables[t]
    <2>1. n = m
      BY <1>1 DEF table_below
    <2>2. \A low : Adds(m, m, level, low)
      BY DEF Adds
    <2> QED BY <1>1, <2>1, <2>2, GrowsReflexive
  <1>2. CASE i \notin DOMAIN m.tables[t]
    <2>1. n = NewTable(m, t, i)
      BY <1>2 DEF table_below
    <2> QED BY <1>2, <2>1, NewTableOk
  <1> QED BY <1>1, <1>2

(* The tables that lead to the one at level 2 for v are there.             *)
Third(m, v) == m.tables[page_table_l4][PML4_INDEX(v)].frame

LeadsTo(m, level, v) ==
    /\ PML4_INDEX(v) \in DOMAIN m.tables[page_table_l4]
    /\ ~m.tables[page_table_l4][PML4_INDEX(v)].large
    /\ Third(m, v) \in DOMAIN m.tables /\ level[Third(m, v)] = 3
    /\ PDPT_INDEX(v) \in DOMAIN m.tables[Third(m, v)]
    /\ ~m.tables[Third(m, v)][PDPT_INDEX(v)].large
    /\ directory(m, v) = m.tables[Third(m, v)][PDPT_INDEX(v)].frame
    /\ directory(m, v) \in DOMAIN m.tables /\ level[directory(m, v)] = 2

(* Above level 2 every entry leads to a table.                             *)
LEMMA BelowRoot ==
    ASSUME NEW T, NEW level, Leveled(T, level), NEW t \in DOMAIN T, level[t] \in {3, 4},
           NEW i \in DOMAIN T[t]
    PROVE  ~T[t][i].large /\ T[t][i].frame \in DOMAIN T /\ level[T[t][i].frame] = level[t] - 1
  BY DEF Leveled

(* The way to a table is still the same when the tables have grown.        *)
LEMMA GrownPath ==
    ASSUME NEW m, NEW level, NEW n, NEW higher, NEW v,
           VmOk(m, level), VmOk(n, higher), Grows(m, level, n, higher), LeadsTo(m, level, v)
    PROVE  LeadsTo(n, higher, v) /\ Third(n, v) = Third(m, v) /\ directory(n, v) = directory(m, v)
  <1>1. page_table_l4 \in DOMAIN m.tables /\ level[page_table_l4] = 4
    BY DEF VmOk, Leveled
  <1>2. /\ PML4_INDEX(v) \in DOMAIN n.tables[page_table_l4]
        /\ n.tables[page_table_l4][PML4_INDEX(v)] = m.tables[page_table_l4][PML4_INDEX(v)]
    BY <1>1 DEF Grows, LeadsTo
  <1>3. Third(n, v) = Third(m, v)
    BY <1>2 DEF Third
  <1>4. /\ Third(m, v) \in DOMAIN n.tables /\ higher[Third(m, v)] = 3
        /\ PDPT_INDEX(v) \in DOMAIN n.tables[Third(m, v)]
        /\ n.tables[Third(m, v)][PDPT_INDEX(v)] = m.tables[Third(m, v)][PDPT_INDEX(v)]
    BY DEF Grows, LeadsTo
  <1>5. directory(n, v) = directory(m, v)
    BY <1>3, <1>4 DEF directory, Third
  <1>6. directory(m, v) \in DOMAIN n.tables /\ higher[directory(m, v)] = 2
    BY DEF Grows, LeadsTo
  <1> QED BY <1>2, <1>3, <1>4, <1>5, <1>6 DEF LeadsTo

(* The two tables above the lowest levels, made if there are none.         *)
LEMMA TablesForOk ==
    ASSUME NEW m, NEW level, VmOk(m, level), ~m.halted, NEW v,
           NEW n, n = tables_for(m, v)
    PROVE  \E higher :
              /\ VmOk(n, higher) /\ Grows(m, level, n, higher) /\ n.stray = m.stray
              /\ \A low \in 1..3 : Adds(m, n, higher, low)
              /\ ~n.halted => LeadsTo(n, higher, v)
  <1> DEFINE a == table_below(m, page_table_l4, PML4_INDEX(v))
             t == a.tables[page_table_l4][PML4_INDEX(v)].frame
  <1>1. page_table_l4 \in DOMAIN m.tables /\ level[page_table_l4] = 4
    BY DEF VmOk, Leveled
  <1>2. PICK la : /\ VmOk(a, la) /\ Grows(m, level, a, la) /\ a.stray = m.stray
                  /\ \A low \in 1..3 : Adds(m, a, la, low)
                  /\ ~a.halted => PML4_INDEX(v) \in DOMAIN a.tables[page_table_l4]
    <2>1. level[page_table_l4] > 1 /\ 1..3 \subseteq 1..level[page_table_l4]
      BY <1>1
    <2> QED BY <1>1, <2>1, TableBelowOk
  <1>3. n = IF a.halted THEN a ELSE table_below(a, t, PDPT_INDEX(v))
    BY DEF tables_for
  <1> HIDE DEF a
  <1>4. CASE a.halted
    BY <1>2, <1>3, <1>4
  <1>5. CASE ~a.halted
    <2>1. /\ page_table_l4 \in DOMAIN a.tables /\ la[page_table_l4] = 4 /\ Leveled(a.tables, la)
      BY <1>2 DEF VmOk, Leveled
    <2>2. t \in DOMAIN a.tables /\ la[t] = 3
      BY <1>2, <1>5, <2>1, BelowRoot
    <2>3. n = table_below(a, t, PDPT_INDEX(v))
      BY <1>3, <1>5
    <2> HIDE DEF t
    <2>4. PICK lb : /\ VmOk(n, lb) /\ Grows(a, la, n, lb) /\ n.stray = a.stray
                    /\ \A low \in 1..3 : Adds(a, n, lb, low)
                    /\ ~n.halted => PDPT_INDEX(v) \in DOMAIN n.tables[t]
      <3>1. la[t] > 1 /\ 1..3 = 1..la[t]
        BY <2>2
      <3> QED BY <1>2, <1>5, <2>2, <2>3, <3>1, TableBelowOk
    <2>5. Grows(m, level, n, lb) /\ \A low \in 1..3 : Adds(m, n, lb, low)
      BY <1>2, <2>4, GrowsTransitive, AddsTransitive
    <2>6. /\ page_table_l4 \in DOMAIN n.tables /\ lb[page_table_l4] = 4 /\ Leveled(n.tables, lb)
      BY <2>4 DEF VmOk, Leveled
    <2>7. /\ PML4_INDEX(v) \in DOMAIN n.tables[page_table_l4]
          /\ n.tables[page_table_l4][PML4_INDEX(v)] = a.tables[page_table_l4][PML4_INDEX(v)]
      BY <1>2, <1>5, <2>1, <2>4 DEF Grows
    <2>8. Third(n, v) = t /\ ~n.tables[page_table_l4][PML4_INDEX(v)].large
      BY <2>6, <2>7, BelowRoot DEF Third, t
    <2>9. t \in DOMAIN n.tables /\ lb[t] = 3
      BY <2>2, <2>4 DEF Grows
    <2>10. ASSUME ~n.halted PROVE LeadsTo(n, lb, v)
      <3>1. PDPT_INDEX(v) \in DOMAIN n.tables[t]
        BY <2>4, <2>10
      <3>2. /\ ~n.tables[t][PDPT_INDEX(v)].large
            /\ n.tables[t][PDPT_INDEX(v)].frame \in DOMAIN n.tables
            /\ lb[n.tables[t][PDPT_INDEX(v)].frame] = 2
        BY <2>6, <2>9, <3>1, BelowRoot
      <3>3. directory(n, v) = n.tables[t][PDPT_INDEX(v)].frame
        BY <2>8 DEF directory, Third
      <3> QED BY <2>7, <2>8, <2>9, <3>1, <3>2, <3>3 DEF LeadsTo
    <2> QED BY <1>2, <2>4, <2>5, <2>10
  <1> QED BY <1>4, <1>5

(* An entry written to a table at the lowest level changes no other, and   *)
(* one for a large page none of the tables above.                          *)
Written(T, t, i, e) == With(T, t, With(T[t], i, e))

WrittenFacts(T, t, i, e, U) ==
    /\ DOMAIN U = DOMAIN T
    /\ U = [u \in DOMAIN U |-> U[u]]
    /\ DOMAIN U[t] = DOMAIN T[t] \cup {i}
    /\ U[t][i] = e
    /\ \A j \in DOMAIN T[t] : j # i => U[t][j] = T[t][j]
    /\ \A u \in DOMAIN T : u # t => U[u] = T[u]

(* What the write of an entry leaves.                                      *)
LEMMA WrittenTables ==
    ASSUME NEW T, NEW t \in DOMAIN T, NEW i, NEW e, NEW U, U = Written(T, t, i, e)
    PROVE  WrittenFacts(T, t, i, e, U)
  <1> DEFINE row == With(T[t], i, e)
  <1>1. /\ DOMAIN row = DOMAIN T[t] \cup {i} /\ row[i] = e
        /\ \A j \in DOMAIN T[t] : j # i => row[j] = T[t][j]
    BY DEF With
  <1>2. U = With(T, t, row)
    BY DEF Written
  <1> HIDE DEF row
  <1>3. /\ DOMAIN U = DOMAIN T /\ U = [u \in DOMAIN U |-> U[u]] /\ U[t] = row
        /\ \A u \in DOMAIN T : u # t => U[u] = T[u]
    BY <1>2 DEF With
  <1> QED BY <1>1, <1>3 DEF WrittenFacts

(* What may be written: an entry of the lowest level, or a large page.     *)
MayHold(level, t, e) ==
    \/ level[t] = 1 /\ ~e.large
    \/ level[t] = 2 /\ e.large

(* It keeps the levels.                                                    *)
LEMMA WrittenLeveled ==
    ASSUME NEW T, NEW level, Leveled(T, level), OneParent(T, level),
           NEW t \in DOMAIN T, NEW i, NEW e, NEW U, U = Written(T, t, i, e),
           MayHold(level, t, e)
    PROVE  Leveled(U, level) /\ OneParent(U, level)
  <1>1. WrittenFacts(T, t, i, e, U)
    BY WrittenTables
  <1>2. \A u \in DOMAIN U : \A j \in DOMAIN U[u] :
           \/ u = t /\ j = i /\ U[u][j] = e
           \/ u \in DOMAIN T /\ j \in DOMAIN T[u] /\ U[u][j] = T[u][j]
    BY <1>1 DEF WrittenFacts
  <1>3. DOMAIN U = DOMAIN T /\ U = [u \in DOMAIN U |-> U[u]]
    BY <1>1 DEF WrittenFacts
  <1>4. Leveled(U, level)
    <2>1. ASSUME NEW u \in DOMAIN U, NEW j \in DOMAIN U[u]
          PROVE  /\ U[u][j].large => level[u] = 2
                 /\ level[u] > 1 /\ ~U[u][j].large =>
                       U[u][j].frame \in DOMAIN U /\ level[U[u][j].frame] = level[u] - 1
      <3>1. CASE u = t /\ j = i /\ U[u][j] = e
        BY <3>1 DEF MayHold
      <3>2. CASE u \in DOMAIN T /\ j \in DOMAIN T[u] /\ U[u][j] = T[u][j]
        BY <1>3, <3>2 DEF Leveled
      <3> QED BY <1>2, <3>1, <3>2
    <2> QED BY <1>3, <2>1 DEF Leveled
  <1>5. OneParent(U, level)
    <2>1. \A u \in DOMAIN U : \A j \in DOMAIN U[u] :
             level[u] > 1 /\ ~U[u][j].large =>
                u \in DOMAIN T /\ j \in DOMAIN T[u] /\ U[u][j] = T[u][j]
      BY <1>2 DEF MayHold
    <2> QED BY <2>1 DEF OneParent
  <1> QED BY <1>4, <1>5

(* A write to a table, as a step of the machine's memory management.       *)
WrittenStep(m, level, t, i, e, n) ==
    /\ VmOk(n, level)
    /\ n.halted = m.halted
    /\ WrittenFacts(m.tables, t, i, e, n.tables)
    /\ level[t] = 1 => Grows(m, level, n, level)

(* And it is a sound step of the memory management.                        *)
LEMMA WrittenOk ==
    ASSUME NEW m, NEW level, VmOk(m, level),
           NEW t \in DOMAIN m.tables, NEW i, NEW e,
           MayHold(level, t, e),
           NEW n, n = [m EXCEPT !.tables = Written(m.tables, t, i, e)]
    PROVE  WrittenStep(m, level, t, i, e, n)
  <1> DEFINE U == Written(m.tables, t, i, e)
  <1>1. WrittenFacts(m.tables, t, i, e, U)
    BY WrittenTables
  <1>2. Leveled(U, level) /\ OneParent(U, level)
    BY WrittenLeveled DEF VmOk
  <1>3. n = [tables |-> U, pool |-> m.pool, stray |-> m.stray, halted |-> m.halted]
    BY DEF VmOk
  <1> HIDE DEF U
  <1>4. VmOk(n, level)
    BY <1>1, <1>2, <1>3 DEF VmOk, WrittenFacts
  <1>5. ASSUME level[t] = 1 PROVE Grows(m, level, n, level)
    BY <1>1, <1>3, <1>5 DEF Grows, WrittenFacts
  <1> QED BY <1>1, <1>3, <1>4, <1>5 DEF WrittenStep

(* The entry at level 2 for v maps a large page, and is taken for a table. *)
Astray(m, level, v) ==
    /\ LeadsTo(m, level, v)
    /\ PD_INDEX(v) \in DOMAIN m.tables[directory(m, v)]
    /\ m.tables[directory(m, v)][PD_INDEX(v)].large

PageAt(m, v) == m.tables[directory(m, v)][PD_INDEX(v)].frame

(* map_mmio_region adds tables and entries at the lowest level only, or    *)
(* goes astray.                                                            *)
LEMMA MapSmallOk ==
    ASSUME NEW m, NEW level, VmOk(m, level), ~m.halted, NEW v, NEW phys,
           NEW n, n = map_small(m, v, phys)
    PROVE  \E higher :
              /\ VmOk(n, higher) /\ Grows(m, level, n, higher) /\ Adds(m, n, higher, 1)
              /\ \/ n.stray = m.stray
                 \/ Astray(n, higher, v) /\ n.stray = m.stray \cup {PageAt(n, v)}
  <1> DEFINE a == tables_for(m, v)
             b == table_below(a, directory(a, v), PD_INDEX(v))
             e == b.tables[directory(b, v)][PD_INDEX(v)]
             entry == Below(phys - (phys % PAGE_SIZE))
  <1>1. PICK la : /\ VmOk(a, la) /\ Grows(m, level, a, la) /\ a.stray = m.stray
                  /\ Adds(m, a, la, 1)
                  /\ ~a.halted => LeadsTo(a, la, v)
    <2>1. 1 \in 1..3
      OBVIOUS
    <2> QED BY <2>1, TablesForOk
  <1>2. n = IF a.halted THEN a
            ELSE IF b.halted THEN b
            ELSE IF e.large THEN [b EXCEPT !.stray = @ \cup {e.frame}]
            ELSE [b EXCEPT !.tables = Written(b.tables, e.frame, PT_INDEX(v), entry)]
    BY DEF map_small, Written
  <1>3. ~entry.large
    BY DEF Below
  <1> HIDE DEF a, entry
  <1>4. CASE a.halted
    BY <1>1, <1>2, <1>4
  <1>5. CASE ~a.halted
    <2>1. LeadsTo(a, la, v)
      BY <1>1, <1>5
    <2>2. directory(a, v) \in DOMAIN a.tables /\ la[directory(a, v)] = 2
      BY <2>1 DEF LeadsTo
    <2>3. PICK lb : /\ VmOk(b, lb) /\ Grows(a, la, b, lb) /\ b.stray = a.stray
                    /\ Adds(a, b, lb, 1)
                    /\ ~b.halted => PD_INDEX(v) \in DOMAIN b.tables[directory(a, v)]
      <3>1. la[directory(a, v)] > 1 /\ 1 \in 1..la[directory(a, v)]
        BY <2>2
      <3> QED BY <1>1, <1>5, <2>2, <3>1, TableBelowOk
    <2> HIDE DEF b
    <2>4. Grows(m, level, b, lb) /\ Adds(m, b, lb, 1) /\ b.stray = m.stray
      BY <1>1, <2>3, GrowsTransitive, AddsTransitive
    <2>5. /\ LeadsTo(b, lb, v) /\ directory(b, v) = directory(a, v)
          /\ directory(b, v) \in DOMAIN b.tables /\ lb[directory(b, v)] = 2
      BY <1>1, <2>1, <2>3, GrownPath DEF LeadsTo
    <2>6. CASE b.halted
      BY <1>2, <1>5, <2>3, <2>4, <2>6
    <2>7. CASE ~b.halted /\ e.large
      <3>1. n = [b EXCEPT !.stray = @ \cup {e.frame}]
        BY <1>2, <1>5, <2>7
      <3> HIDE DEF e
      <3>2. n = [tables |-> b.tables, pool |-> b.pool, stray |-> n.stray, halted |-> b.halted]
        BY <2>3, <3>1 DEF VmOk
      <3>3. VmOk(n, lb)
        BY <2>3, <3>2 DEF VmOk
      <3>4. n.tables = b.tables
        BY <3>2
      <3>5. Grows(m, level, n, lb) /\ Adds(m, n, lb, 1)
        BY <2>4, <3>4 DEF Grows, Adds
      <3>6. /\ PageAt(n, v) = PageAt(b, v) /\ directory(n, v) = directory(b, v)
            /\ Third(n, v) = Third(b, v)
        BY <3>4 DEF PageAt, directory, Third
      <3>7. Astray(b, lb, v)
        BY <2>3, <2>5, <2>7 DEF Astray, e
      <3>8. Astray(n, lb, v)
        BY <3>6, <3>7, <3>4 DEF Astray, LeadsTo
      <3>9. n.stray = b.stray \cup {PageAt(b, v)}
        BY <2>3, <3>1 DEF PageAt, e, VmOk
      <3>10. n.stray = m.stray \cup {PageAt(n, v)}
        BY <2>4, <3>6, <3>9
      <3> QED BY <3>3, <3>5, <3>8, <3>10
    <2>8. CASE ~b.halted /\ ~e.large
      <3>1. n = [b EXCEPT !.tables = Written(b.tables, e.frame, PT_INDEX(v), entry)]
        BY <1>2, <1>5, <2>8
      <3>2. e.frame \in DOMAIN b.tables /\ lb[e.frame] = 1
        <4>1. PD_INDEX(v) \in DOMAIN b.tables[directory(b, v)]
          BY <2>3, <2>5, <2>8
        <4>2. Leveled(b.tables, lb)
          BY <2>3 DEF VmOk
        <4> QED BY <2>5, <2>8, <4>1, <4>2 DEF Leveled
      <3> HIDE DEF e
      <3>3. VmOk(n, lb) /\ Grows(b, lb, n, lb) /\ Adds(b, n, lb, 1)
        <4> DEFINE t == e.frame
                   i == PT_INDEX(v)
        <4>1. t \in DOMAIN b.tables /\ MayHold(lb, t, entry) /\ lb[t] = 1
          BY <1>3, <3>2 DEF MayHold
        <4>2. n = [b EXCEPT !.tables = Written(b.tables, t, i, entry)] /\ VmOk(b, lb)
          BY <2>3, <3>1
        <4> HIDE DEF t, i
        <4>3. WrittenStep(b, lb, t, i, entry, n)
          BY <4>1, <4>2, WrittenOk
        <4>4. WrittenFacts(b.tables, t, i, entry, n.tables) /\ lb[t] >= 1
          BY <4>1, <4>3 DEF WrittenStep
        <4>5. Adds(b, n, lb, 1)
          BY <1>3, <4>4 DEF Adds, WrittenFacts
        <4> QED BY <4>1, <4>3, <4>5 DEF WrittenStep
      <3>4. n.stray = b.stray
        BY <2>3, <3>1 DEF VmOk
      <3> QED BY <2>4, <3>3, <3>4, GrowsTransitive, AddsTransitive
    <2> QED BY <2>6, <2>7, <2>8
  <1> QED BY <1>4, <1>5

(* map_pcie_ecam_2mb adds tables, and writes one entry at level 2.         *)
LEMMA MapLargeOk ==
    ASSUME NEW m, NEW level, VmOk(m, level), ~m.halted, NEW v, NEW phys,
           NEW n, n = map_large(m, v, phys)
    PROVE  \E a, la :
              /\ VmOk(a, la) /\ Grows(m, level, a, la) /\ VmOk(n, la)
              /\ Adds(m, a, la, 3) /\ n.stray = m.stray
              /\ n.halted = a.halted
              /\ IF a.halted THEN n = a
                 ELSE /\ LeadsTo(a, la, v)
                      /\ WrittenFacts(a.tables, directory(a, v), PD_INDEX(v), Page(phys), n.tables)
  <1> DEFINE a == tables_for(m, v)
  <1>1. PICK la : /\ VmOk(a, la) /\ Grows(m, level, a, la) /\ a.stray = m.stray
                  /\ Adds(m, a, la, 3)
                  /\ ~a.halted => LeadsTo(a, la, v)
    <2>1. 3 \in 1..3
      OBVIOUS
    <2> QED BY <2>1, TablesForOk
  <1>2. n = IF a.halted THEN a
            ELSE [a EXCEPT !.tables = Written(a.tables, directory(a, v), PD_INDEX(v), Page(phys))]
    BY DEF map_large, Written
  <1>3. Page(phys).large
    BY DEF Page
  <1> HIDE DEF a
  <1>4. CASE a.halted
    BY <1>1, <1>2, <1>4
  <1>5. CASE ~a.halted
    <2>1. directory(a, v) \in DOMAIN a.tables /\ la[directory(a, v)] = 2 /\ LeadsTo(a, la, v)
      BY <1>1, <1>5 DEF LeadsTo
    <2>2. n = [a EXCEPT !.tables = Written(a.tables, directory(a, v), PD_INDEX(v), Page(phys))]
      BY <1>2, <1>5
    <2> DEFINE d == directory(a, v)
               e == Page(phys)
    <2> HIDE DEF d, e
    <2>3. d \in DOMAIN a.tables /\ MayHold(la, d, e)
      BY <1>3, <2>1 DEF d, e, MayHold
    <2> DEFINE i == PD_INDEX(v)
    <2>4. n = [a EXCEPT !.tables = Written(a.tables, d, i, e)] /\ VmOk(a, la)
      BY <1>1, <2>2 DEF d, e
    <2> HIDE DEF i
    <2>5. VmOk(n, la) /\ n.halted = a.halted /\ WrittenFacts(a.tables, d, i, e, n.tables)
      <3>1. WrittenStep(a, la, d, i, e, n)
        BY <2>3, <2>4, WrittenOk
      <3> QED BY <3>1 DEF WrittenStep
    <2>6. n.stray = m.stray
      BY <1>1, <2>2 DEF VmOk
    <2> QED BY <1>1, <1>5, <2>1, <2>5, <2>6 DEF d, e, i
  <1> QED BY <1>4, <1>5

-----------------------------------------------------------------------------
(* The spans of the entries at each level, and the addresses of the tables *)
(* that boot fills.                                                        *)
LEMMA Spans ==
    /\ PAGE_SIZE \in Nat \ {0} /\ ENTRIES \in Nat \ {0, 1} /\ IDENTITY_TABLES \in 1..ENTRIES
    /\ LARGE \in Nat \ {0} /\ GIB \in Nat \ {0} /\ ENTRIES * GIB \in Nat \ {0}
    /\ LARGE = ENTRIES * PAGE_SIZE /\ GIB = ENTRIES * LARGE
    /\ PAGE_SIZE <= LARGE /\ LARGE <= GIB /\ GIB <= ENTRIES * GIB
  <1>1. PAGE_SIZE \in Nat \ {0} /\ ENTRIES \in Nat \ {0, 1} /\ IDENTITY_TABLES \in 1..ENTRIES
    BY PageAssumption, PagingAssumption
  <1>2. \A x \in Nat \ {0} : ENTRIES * x \in Nat \ {0} /\ x <= ENTRIES * x
    BY <1>1
  <1>3. LARGE \in Nat \ {0} /\ PAGE_SIZE <= LARGE
    BY <1>1, <1>2 DEF LARGE
  <1>4. GIB \in Nat \ {0} /\ LARGE <= GIB
    BY <1>2, <1>3 DEF GIB
  <1>5. ENTRIES * GIB \in Nat \ {0} /\ GIB <= ENTRIES * GIB
    BY <1>2, <1>4
  <1> QED BY <1>1, <1>3, <1>4, <1>5 DEF LARGE, GIB

(* Where the tables of boot lie.                                           *)
LEMMA BootAddresses ==
    /\ page_table_l4 \in Nat \ {0} /\ page_table_l3 = page_table_l4 + PAGE_SIZE
    /\ \A k \in 0..(IDENTITY_TABLES - 1) :
          /\ page_table_l2(k) = page_table_l4 + (2 * PAGE_SIZE) + k * PAGE_SIZE
          /\ k * PAGE_SIZE \in Nat
          /\ page_table_l2(k) # page_table_l4 /\ page_table_l2(k) # page_table_l3
          /\ (page_table_l2(k) - page_table_l2(0)) \div PAGE_SIZE = k
    /\ \A t \in BootTables : t \in Nat /\ t < END
  <1>1. /\ PAGE_SIZE \in Nat \ {0} /\ IDENTITY_TABLES \in Nat \ {0} /\ page_table_l4 \in Nat \ {0}
        /\ page_table_l4 + (2 + IDENTITY_TABLES) * PAGE_SIZE <= END /\ END \in Nat
    BY PageAssumption, PagingAssumption, PoolAssumption
  <1>2. \A k \in Nat : (2 + k) * PAGE_SIZE = 2 * PAGE_SIZE + k * PAGE_SIZE /\ k * PAGE_SIZE \in Nat
    BY <1>1
  <1>3. ASSUME NEW k \in 0..(IDENTITY_TABLES - 1)
        PROVE  k * PAGE_SIZE < IDENTITY_TABLES * PAGE_SIZE
    <2>1. IDENTITY_TABLES = k + (IDENTITY_TABLES - k) /\ IDENTITY_TABLES - k \in Nat \ {0} /\ k \in Nat
      BY <1>1
    <2>2. (k + (IDENTITY_TABLES - k)) * PAGE_SIZE = k * PAGE_SIZE + (IDENTITY_TABLES - k) * PAGE_SIZE
      BY <1>1, <2>1
    <2>3. (IDENTITY_TABLES - k) * PAGE_SIZE \in Nat \ {0}
      BY <1>1, <2>1
    <2> QED BY <1>1, <1>2, <2>1, <2>2, <2>3
  <1>4. ASSUME NEW k \in 0..(IDENTITY_TABLES - 1)
        PROVE  /\ page_table_l2(k) = page_table_l4 + (2 * PAGE_SIZE) + k * PAGE_SIZE
               /\ k * PAGE_SIZE \in Nat
               /\ page_table_l2(k) # page_table_l4 /\ page_table_l2(k) # page_table_l3
               /\ (page_table_l2(k) - page_table_l2(0)) \div PAGE_SIZE = k
               /\ page_table_l2(k) \in Nat /\ page_table_l2(k) < END
    <2>1. k \in Nat /\ 0 \in Nat /\ 0 * PAGE_SIZE = 0
      BY <1>1
    <2>2. page_table_l2(k) = page_table_l4 + (2 * PAGE_SIZE) + k * PAGE_SIZE /\ k * PAGE_SIZE \in Nat
      BY <1>1, <1>2, <2>1 DEF page_table_l2
    <2>3. page_table_l2(0) = page_table_l4 + (2 * PAGE_SIZE)
      BY <1>1, <1>2, <2>1 DEF page_table_l2
    <2>4. page_table_l2(k) - page_table_l2(0) = PAGE_SIZE * k + 0
      BY <1>1, <2>1, <2>2, <2>3
    <2>5. (PAGE_SIZE * k + 0) \div PAGE_SIZE = k
      BY <1>1, <2>1, DivUnique
    <2>6. page_table_l2(k) < END
      BY <1>1, <1>2, <1>3, <2>2
    <2> QED BY <1>1, <2>2, <2>4, <2>5, <2>6 DEF page_table_l3
  <1>5. page_table_l4 < END /\ page_table_l3 < END
    BY <1>1, <1>2 DEF page_table_l3
  <1> QED BY <1>1, <1>4, <1>5 DEF BootTables, page_table_l3

(* What boot/main.asm leaves in the tables.                                *)
LEMMA BootEntries ==
    /\ DOMAIN setup_page_tables = BootTables
    /\ setup_page_tables = [t \in BootTables |-> setup_page_tables[t]]
    /\ page_table_l4 \in BootTables /\ page_table_l3 \in BootTables
    /\ setup_page_tables[page_table_l4] = [i \in {0} |-> Below(page_table_l3)]
    /\ setup_page_tables[page_table_l3] =
          [i \in 0..(IDENTITY_TABLES - 1) |-> Below(page_table_l2(i))]
    /\ \A k \in 0..(IDENTITY_TABLES - 1) :
          /\ page_table_l2(k) \in BootTables
          /\ setup_page_tables[page_table_l2(k)] =
                [i \in 0..(ENTRIES - 1) |-> Page((k * ENTRIES + i) * LARGE)]
  <1>1. DOMAIN setup_page_tables = BootTables /\ setup_page_tables = [t \in BootTables |-> setup_page_tables[t]]
    BY DEF setup_page_tables
  <1>2. /\ page_table_l4 \in BootTables /\ page_table_l3 \in BootTables
        /\ \A k \in 0..(IDENTITY_TABLES - 1) : page_table_l2(k) \in BootTables
    BY DEF BootTables
  <1>3. page_table_l3 # page_table_l4
    <2>1. PAGE_SIZE \in Nat \ {0} /\ page_table_l4 \in Nat /\ page_table_l3 = page_table_l4 + PAGE_SIZE
      BY PageAssumption, PagingAssumption DEF page_table_l3
    <2> QED BY <2>1
  <1>4. setup_page_tables[page_table_l4] = [i \in {0} |-> Below(page_table_l3)]
    BY <1>2, <1>3 DEF setup_page_tables
  <1>5. setup_page_tables[page_table_l3] =
          [i \in 0..(IDENTITY_TABLES - 1) |-> Below(page_table_l2(i))]
    BY <1>2, <1>3 DEF setup_page_tables
  <1>6. ASSUME NEW k \in 0..(IDENTITY_TABLES - 1)
        PROVE  setup_page_tables[page_table_l2(k)] =
                 [i \in 0..(ENTRIES - 1) |-> Page((k * ENTRIES + i) * LARGE)]
    <2> DEFINE t == page_table_l2(k)
               j == (t - page_table_l2(0)) \div PAGE_SIZE
    <2>1. t \in BootTables /\ t # page_table_l4 /\ t # page_table_l3 /\ j = k
      BY <1>2, BootAddresses
    <2>2. setup_page_tables[t] = [i \in 0..(ENTRIES - 1) |-> Page((j * ENTRIES + i) * LARGE)]
      <3> HIDE DEF t
      <3> QED BY <2>1 DEF setup_page_tables
    <2> QED BY <2>1, <2>2
  <1> QED BY <1>1, <1>2, <1>4, <1>5, <1>6

(* The entries that boot made are still there.                             *)
BootKept(T) ==
    \A t \in BootTables :
        t \in DOMAIN T /\
        \A i \in DOMAIN setup_page_tables[t] : i \in DOMAIN T[t] /\ T[t][i] = setup_page_tables[t][i]

(* These are its entries, read table by table.                             *)
LEMMA KeptEntries ==
    ASSUME NEW T, BootKept(T)
    PROVE  /\ page_table_l4 \in DOMAIN T /\ page_table_l3 \in DOMAIN T
           /\ 0 \in DOMAIN T[page_table_l4] /\ T[page_table_l4][0] = Below(page_table_l3)
           /\ \A k \in 0..(IDENTITY_TABLES - 1) :
                 /\ k \in DOMAIN T[page_table_l3] /\ T[page_table_l3][k] = Below(page_table_l2(k))
                 /\ page_table_l2(k) \in DOMAIN T
                 /\ \A i \in 0..(ENTRIES - 1) :
                       /\ i \in DOMAIN T[page_table_l2(k)]
                       /\ T[page_table_l2(k)][i] = Page((k * ENTRIES + i) * LARGE)
  <1>1. /\ DOMAIN setup_page_tables[page_table_l4] = {0}
        /\ setup_page_tables[page_table_l4][0] = Below(page_table_l3)
    BY BootEntries
  <1>2. \A k \in 0..(IDENTITY_TABLES - 1) :
          /\ k \in DOMAIN setup_page_tables[page_table_l3]
          /\ setup_page_tables[page_table_l3][k] = Below(page_table_l2(k))
    BY BootEntries
  <1>3. ASSUME NEW k \in 0..(IDENTITY_TABLES - 1), NEW i \in 0..(ENTRIES - 1)
        PROVE  /\ i \in DOMAIN setup_page_tables[page_table_l2(k)]
               /\ setup_page_tables[page_table_l2(k)][i] = Page((k * ENTRIES + i) * LARGE)
    BY BootEntries
  <1>4. /\ page_table_l4 \in BootTables /\ page_table_l3 \in BootTables
        /\ \A k \in 0..(IDENTITY_TABLES - 1) : page_table_l2(k) \in BootTables
    BY DEF BootTables
  <1> QED BY <1>1, <1>2, <1>3, <1>4 DEF BootKept

(* They fix the levels of the tables they are in.                          *)
LEMMA BootLevels ==
    ASSUME NEW T, NEW level, Leveled(T, level), BootKept(T)
    PROVE  /\ level[page_table_l4] = 4 /\ level[page_table_l3] = 3
           /\ \A k \in 0..(IDENTITY_TABLES - 1) : level[page_table_l2(k)] = 2
  <1>1. level[page_table_l4] = 4
    BY DEF Leveled
  <1>2. \A f : Below(f).frame = f /\ ~Below(f).large
    BY DEF Below
  <1>3. level[page_table_l3] = 3
    BY <1>1, <1>2, KeptEntries DEF Leveled
  <1>4. ASSUME NEW k \in 0..(IDENTITY_TABLES - 1) PROVE level[page_table_l2(k)] = 2
    <2>1. /\ page_table_l3 \in DOMAIN T /\ k \in DOMAIN T[page_table_l3]
          /\ T[page_table_l3][k] = Below(page_table_l2(k))
      BY KeptEntries
    <2> QED BY <1>2, <1>3, <2>1 DEF Leveled
  <1> QED BY <1>1, <1>3, <1>4

(* They stay where the tables only grow.                                   *)
LEMMA KeptWhenGrown ==
    ASSUME NEW m, NEW level, VmOk(m, level), BootKept(m.tables),
           NEW n, NEW higher, Grows(m, level, n, higher)
    PROVE  BootKept(n.tables)
  <1>1. /\ level[page_table_l4] = 4 /\ level[page_table_l3] = 3
        /\ \A k \in 0..(IDENTITY_TABLES - 1) : level[page_table_l2(k)] = 2
    BY BootLevels DEF VmOk
  <1>2. \A t \in BootTables : level[t] > 1
    BY <1>1 DEF BootTables
  <1> QED BY <1>2 DEF BootKept, Grows

(* A directory that boot filled is reached by its own addresses only.      *)
LEMMA BootDirectory ==
    ASSUME NEW m, NEW level, VmOk(m, level), BootKept(m.tables),
           NEW v, LeadsTo(m, level, v),
           NEW k \in 0..(IDENTITY_TABLES - 1), directory(m, v) = page_table_l2(k)
    PROVE  PML4_INDEX(v) = 0 /\ PDPT_INDEX(v) = k
  <1> DEFINE d == directory(m, v)
  <1>1. /\ level[page_table_l4] = 4 /\ level[page_table_l3] = 3
        /\ OneParent(m.tables, level)
    BY BootLevels DEF VmOk
  <1>2. \A f : Below(f).frame = f /\ ~Below(f).large
    BY DEF Below
  <1>3. /\ page_table_l3 \in DOMAIN m.tables /\ k \in DOMAIN m.tables[page_table_l3]
        /\ m.tables[page_table_l3][k].frame = d /\ ~m.tables[page_table_l3][k].large
    BY <1>2, KeptEntries
  <1>4. /\ Third(m, v) \in DOMAIN m.tables /\ level[Third(m, v)] = 3
        /\ PDPT_INDEX(v) \in DOMAIN m.tables[Third(m, v)]
        /\ ~m.tables[Third(m, v)][PDPT_INDEX(v)].large
        /\ d = m.tables[Third(m, v)][PDPT_INDEX(v)].frame
    BY DEF LeadsTo
  <1>5. Third(m, v) = page_table_l3 /\ PDPT_INDEX(v) = k
    <2> HIDE DEF d
    <2> QED BY <1>1, <1>3, <1>4 DEF OneParent
  <1>6. /\ page_table_l4 \in DOMAIN m.tables /\ 0 \in DOMAIN m.tables[page_table_l4]
        /\ m.tables[page_table_l4][0].frame = page_table_l3 /\ ~m.tables[page_table_l4][0].large
    BY <1>2, KeptEntries
  <1>7. /\ PML4_INDEX(v) \in DOMAIN m.tables[page_table_l4]
        /\ ~m.tables[page_table_l4][PML4_INDEX(v)].large
        /\ m.tables[page_table_l4][PML4_INDEX(v)].frame = page_table_l3
    BY <1>5 DEF LeadsTo, Third
  <1>8. PML4_INDEX(v) = 0
    BY <1>1, <1>6, <1>7 DEF OneParent
  <1> QED BY <1>5, <1>8

(* And where an entry is written under another entry of the root.          *)
LEMMA KeptWhenWritten ==
    ASSUME NEW m, NEW level, VmOk(m, level), BootKept(m.tables),
           NEW v, PML4_INDEX(v) # 0, LeadsTo(m, level, v), NEW i, NEW e,
           NEW U, WrittenFacts(m.tables, directory(m, v), i, e, U)
    PROVE  BootKept(U)
  <1> DEFINE d == directory(m, v)
  <1>1. /\ level[page_table_l4] = 4 /\ level[page_table_l3] = 3
        /\ Leveled(m.tables, level) /\ OneParent(m.tables, level)
    BY BootLevels DEF VmOk
  <1>2. level[d] = 2
    BY DEF LeadsTo
  <1>3. ASSUME NEW k \in 0..(IDENTITY_TABLES - 1) PROVE d # page_table_l2(k)
    BY BootDirectory
  <1>4. \A t \in BootTables : t # d
    BY <1>1, <1>2, <1>3 DEF BootTables
  <1> HIDE DEF d
  <1>5. WrittenFacts(m.tables, d, i, e, U)
    BY DEF d
  <1> QED BY <1>4, <1>5 DEF BootKept, WrittenFacts

(* The tables of boot have the levels.                                     *)
LEMMA SetupLevels ==
    \E level : Leveled(setup_page_tables, level) /\ OneParent(setup_page_tables, level)
  <1> DEFINE T == setup_page_tables
             level == [t \in BootTables |-> IF t = page_table_l4 THEN 4
                                            ELSE IF t = page_table_l3 THEN 3 ELSE 2]
  <1>1. DOMAIN T = BootTables /\ T = [t \in DOMAIN T |-> T[t]]
    BY BootEntries
  <1>2. page_table_l3 # page_table_l4
    <2>1. PAGE_SIZE \in Nat \ {0} /\ page_table_l4 \in Nat /\ page_table_l3 = page_table_l4 + PAGE_SIZE
      BY PageAssumption, PagingAssumption DEF page_table_l3
    <2> QED BY <2>1
  <1>3. /\ page_table_l4 \in BootTables /\ page_table_l3 \in BootTables
        /\ level[page_table_l4] = 4 /\ level[page_table_l3] = 3
    BY <1>2, BootEntries
  <1>4. ASSUME NEW k \in 0..(IDENTITY_TABLES - 1)
        PROVE  page_table_l2(k) \in BootTables /\ level[page_table_l2(k)] = 2
    <2>1. page_table_l2(k) \in BootTables /\ page_table_l2(k) # page_table_l4 /\ page_table_l2(k) # page_table_l3
      BY BootEntries, BootAddresses
    <2> QED BY <2>1
  <1>5. level \in [BootTables -> 1..4]
    OBVIOUS
  <1>6. /\ DOMAIN T[page_table_l4] = {0} /\ T[page_table_l4][0].frame = page_table_l3
        /\ ~T[page_table_l4][0].large
    BY BootEntries DEF Below
  <1>7. /\ DOMAIN T[page_table_l3] = 0..(IDENTITY_TABLES - 1)
        /\ \A k \in 0..(IDENTITY_TABLES - 1) :
              T[page_table_l3][k].frame = page_table_l2(k) /\ ~T[page_table_l3][k].large
    BY BootEntries DEF Below
  <1>8. \A k \in 0..(IDENTITY_TABLES - 1) :
          /\ DOMAIN T[page_table_l2(k)] = 0..(ENTRIES - 1)
          /\ \A i \in 0..(ENTRIES - 1) : T[page_table_l2(k)][i].large
    <2> SUFFICES ASSUME NEW k \in 0..(IDENTITY_TABLES - 1)
                 PROVE  /\ DOMAIN T[page_table_l2(k)] = 0..(ENTRIES - 1)
                        /\ \A i \in 0..(ENTRIES - 1) : T[page_table_l2(k)][i].large
      OBVIOUS
    <2>1. \A f : Page(f).large
      BY DEF Page
    <2>2. T[page_table_l2(k)] = [i \in 0..(ENTRIES - 1) |-> Page((k * ENTRIES + i) * LARGE)]
      BY BootEntries
    <2> QED BY <2>1, <2>2
  <1>9. \A t \in BootTables :
          \/ t = page_table_l4 \/ t = page_table_l3
          \/ \E k \in 0..(IDENTITY_TABLES - 1) : t = page_table_l2(k)
    BY DEF BootTables
  <1>10. \A k, j \in 0..(IDENTITY_TABLES - 1) : page_table_l2(k) = page_table_l2(j) => k = j
    <2> TAKE k, j \in 0..(IDENTITY_TABLES - 1)
    <2>1. /\ (page_table_l2(k) - page_table_l2(0)) \div PAGE_SIZE = k
          /\ (page_table_l2(j) - page_table_l2(0)) \div PAGE_SIZE = j
      BY BootAddresses
    <2> QED BY <2>1
  <1> HIDE DEF T, level
  <1>11. Leveled(T, level)
    <2>1. ASSUME NEW t \in DOMAIN T, NEW i \in DOMAIN T[t]
          PROVE  /\ T[t][i].large => level[t] = 2
                 /\ level[t] > 1 /\ ~T[t][i].large =>
                       T[t][i].frame \in DOMAIN T /\ level[T[t][i].frame] = level[t] - 1
      <3>1. CASE t = page_table_l4
        BY <1>1, <1>3, <1>6, <3>1
      <3>2. CASE t = page_table_l3
        BY <1>1, <1>3, <1>4, <1>7, <3>2
      <3>3. CASE \E k \in 0..(IDENTITY_TABLES - 1) : t = page_table_l2(k)
        BY <1>1, <1>4, <1>8, <3>3
      <3> QED BY <1>1, <1>9, <3>1, <3>2, <3>3
    <2> QED BY <1>1, <1>3, <1>5, <2>1 DEF Leveled
  <1>12. OneParent(T, level)
    <2> SUFFICES ASSUME NEW t \in DOMAIN T, NEW u \in DOMAIN T,
                        NEW i \in DOMAIN T[t], NEW j \in DOMAIN T[u],
                        ~T[t][i].large, ~T[u][j].large, T[t][i].frame = T[u][j].frame
                 PROVE  t = u /\ i = j
      BY DEF OneParent
    <2>1. t = page_table_l4 \/ t = page_table_l3
      BY <1>1, <1>8, <1>9
    <2>2. u = page_table_l4 \/ u = page_table_l3
      BY <1>1, <1>8, <1>9
    <2>3. \A k \in 0..(IDENTITY_TABLES - 1) : page_table_l2(k) # page_table_l3
      BY BootAddresses
    <2>4. CASE t = page_table_l4 /\ u = page_table_l4
      BY <1>6, <2>4
    <2>5. CASE t = page_table_l3 /\ u = page_table_l3
      BY <1>7, <1>10, <2>5
    <2>6. CASE t = page_table_l4 /\ u = page_table_l3
      BY <1>6, <1>7, <2>3, <2>6
    <2>7. CASE t = page_table_l3 /\ u = page_table_l4
      BY <1>6, <1>7, <2>3, <2>7
    <2> QED BY <2>1, <2>2, <2>4, <2>5, <2>6, <2>7
  <1> QED BY <1>11, <1>12 DEF T

-----------------------------------------------------------------------------
(* The addresses that boot mapped to themselves still are.                 *)
LEMMA IdentityDigits ==
    ASSUME NEW n \in 0..(IDENTITY_TABLES * ENTRIES - 1)
    PROVE  LET k == n \div ENTRIES
               i == n % ENTRIES
               v == n * LARGE
           IN  /\ k \in 0..(IDENTITY_TABLES - 1) /\ i \in 0..(ENTRIES - 1)
               /\ k * ENTRIES + i = n
               /\ PML4_INDEX(v) = 0 /\ PDPT_INDEX(v) = k /\ PD_INDEX(v) = i
               /\ v \in Nat /\ v % LARGE = 0
  <1> DEFINE k == n \div ENTRIES
             i == n % ENTRIES
             v == n * LARGE
             L == LARGE
             G == GIB
             E == ENTRIES
  <1>1. /\ E \in Nat \ {0, 1} /\ IDENTITY_TABLES \in 1..E /\ L \in Nat \ {0} /\ G \in Nat \ {0}
        /\ G = E * L /\ E * G \in Nat \ {0} /\ IDENTITY_TABLES \in Nat
    BY Spans
  <1> HIDE DEF L, G, E
  <1>2. n \in Nat /\ n < IDENTITY_TABLES * E
    <2>1. IDENTITY_TABLES * E \in Nat
      BY <1>1
    <2> QED BY <2>1 DEF E
  <1>3. k \in Nat /\ i \in 0..(E - 1) /\ n = E * k + i
    BY <1>1, <1>2, DivMod DEF E
  <1> HIDE DEF k, i
  <1>4. k \in 0..(IDENTITY_TABLES - 1)
    <2> SUFFICES ASSUME k >= IDENTITY_TABLES PROVE FALSE
      BY <1>1, <1>3
    <2>1. PICK x \in Nat : k = IDENTITY_TABLES + x
      <3>1. k - IDENTITY_TABLES \in Nat /\ k = IDENTITY_TABLES + (k - IDENTITY_TABLES)
        BY <1>1, <1>3
      <3> QED BY <3>1
    <2>2. E * k = IDENTITY_TABLES * E + E * x /\ E * x \in Nat
      BY <1>1, <2>1
    <2> QED BY <1>1, <1>2, <1>3, <2>2
  <1>5. v = L * n /\ v \in Nat
    BY <1>1, <1>2 DEF L
  <1> HIDE DEF v
  <1>6. v \div L = n /\ v % L = 0
    <2>1. v = L * n + 0
      BY <1>1, <1>2, <1>5
    <2> QED BY <1>1, <1>2, <2>1, DivUnique
  <1>7. v = G * k + L * i /\ L * i \in Nat /\ L * i < G
    <2>1. L * (E * k + i) = (E * L) * k + L * i
      BY <1>1, <1>3
    <2>2. L * i \in Nat /\ L * i <= L * (E - 1)
      <3>1. (E - 1) - i \in Nat /\ i \in Nat /\ E - 1 = i + ((E - 1) - i)
        BY <1>1, <1>3
      <3>2. L * (i + ((E - 1) - i)) = L * i + L * ((E - 1) - i)
        BY <1>1, <3>1
      <3>3. L * ((E - 1) - i) \in Nat /\ L * i \in Nat
        BY <1>1, <3>1
      <3> QED BY <3>1, <3>2, <3>3
    <2>3. L * (E - 1) = E * L - L
      BY <1>1
    <2> QED BY <1>1, <1>3, <1>5, <2>1, <2>2, <2>3
  <1>8. v \div G = k
    BY <1>1, <1>3, <1>7, DivUnique
  <1>9. v \div (E * G) = 0
    <2>1. G * k + G <= E * G
      <3>1. E - (k + 1) \in Nat /\ k + 1 \in Nat /\ E = (k + 1) + (E - (k + 1))
        BY <1>1, <1>4
      <3>2. ((k + 1) + (E - (k + 1))) * G = (k + 1) * G + (E - (k + 1)) * G
        BY <1>1, <3>1
      <3>3. (k + 1) * G = G * k + G /\ (E - (k + 1)) * G \in Nat /\ (k + 1) * G \in Nat
        BY <1>1, <1>3, <3>1
      <3> QED BY <3>1, <3>2, <3>3
    <2>2. v < E * G
      BY <1>1, <1>3, <1>5, <1>7, <2>1
    <2>3. v = (E * G) * 0 + v
      BY <1>1, <1>5
    <2> QED BY <1>1, <1>5, <2>2, <2>3, DivUnique
  <1>10. k % E = k /\ n % E = i /\ 0 % E = 0
    <2>1. k = E * 0 + k /\ k < E /\ 0 = E * 0 + 0
      BY <1>1, <1>4
    <2>2. k % E = k
      BY <1>1, <1>3, <2>1, DivUnique
    <2>3. 0 % E = 0
      BY <1>1, <2>1, DivUnique
    <2> QED BY <2>2, <2>3 DEF i, E
  <1>11. PML4_INDEX(v) = 0
    BY <1>9, <1>10 DEF PML4_INDEX, E, G
  <1>12. PDPT_INDEX(v) = k
    BY <1>8, <1>10 DEF PDPT_INDEX, E, G
  <1>13. PD_INDEX(v) = i
    BY <1>6, <1>10 DEF PD_INDEX, E, L
  <1>14. k * E + i = n
    BY <1>1, <1>3
  <1> QED BY <1>3, <1>4, <1>5, <1>6, <1>11, <1>12, <1>13, <1>14 DEF k, i, v, E, L

(* So the processor still takes them to themselves.                        *)
LEMMA IdentityTranslated ==
    ASSUME NEW T, BootKept(T), NEW n \in 0..(IDENTITY_TABLES * ENTRIES - 1)
    PROVE  translate(T, n * LARGE) = n * LARGE
  <1> DEFINE k == n \div ENTRIES
             i == n % ENTRIES
             v == n * LARGE
  <1>1. /\ k \in 0..(IDENTITY_TABLES - 1) /\ i \in 0..(ENTRIES - 1)
        /\ k * ENTRIES + i = n
        /\ PML4_INDEX(v) = 0 /\ PDPT_INDEX(v) = k /\ PD_INDEX(v) = i
        /\ v \in Nat /\ v % LARGE = 0
    BY IdentityDigits
  <1>2. Page((k * ENTRIES + i) * LARGE) = Page(v)
    BY <1>1
  <1> HIDE DEF k, i, v
  <1>3. /\ page_table_l4 \in DOMAIN T /\ 0 \in DOMAIN T[page_table_l4]
        /\ T[page_table_l4][0].frame = page_table_l3
    BY KeptEntries DEF Below
  <1>4. /\ page_table_l3 \in DOMAIN T /\ k \in DOMAIN T[page_table_l3]
        /\ T[page_table_l3][k].frame = page_table_l2(k)
    <2>1. /\ page_table_l3 \in DOMAIN T /\ k \in DOMAIN T[page_table_l3]
          /\ T[page_table_l3][k] = Below(page_table_l2(k))
      BY <1>1, KeptEntries
    <2> QED BY <2>1 DEF Below
  <1>5. /\ page_table_l2(k) \in DOMAIN T /\ i \in DOMAIN T[page_table_l2(k)]
        /\ T[page_table_l2(k)][i] = Page(v)
    BY <1>1, <1>2, KeptEntries
  <1>6. Page(v).frame = v /\ Page(v).large
    BY DEF Page
  <1>7. /\ (v \div (ENTRIES * GIB)) % ENTRIES = 0
        /\ (v \div GIB) % ENTRIES = k
        /\ (v \div LARGE) % ENTRIES = i
    BY <1>1 DEF PML4_INDEX, PDPT_INDEX, PD_INDEX
  <1>8. translate(T, v) = Page(v).frame + (v % LARGE)
    BY <1>1, <1>3, <1>4, <1>5, <1>6, <1>7 DEF translate
  <1>9. translate(T, v) = v
    BY <1>1, <1>6, <1>8
  <1> QED BY <1>9 DEF v

(* The spans of the root's entries divide the address space.               *)
LEMMA RootSpan ==
    /\ UINTPTR_MOD \in Nat \ {0} /\ GIB <= UINTPTR_MOD
    /\ \E q \in Nat \ {0} : UINTPTR_MOD = (ENTRIES * GIB) * (ENTRIES * q)
  <1> DEFINE E == ENTRIES
             G == GIB
             S == E * G
             D == E * E * G
             M == UINTPTR_MOD
             q == M \div D
  <1>1. E \in Nat \ {0, 1} /\ G \in Nat \ {0} /\ S \in Nat \ {0} /\ G <= S
    BY Spans
  <1>2. M \in Nat \ {0} /\ M % D = 0
    <2>1. END + PAGE_SIZE + POOL_PAGES * PAGE_SIZE \in Nat
      BY PageAssumption, PoolAssumption
    <2> QED BY <2>1, PcieAssumption, SpaceAssumption
  <1> HIDE DEF E, G, M
  <1>3. D = E * S /\ D = S * E
    BY <1>1
  <1> HIDE DEF S
  <1>4. D \in Nat \ {0} /\ S <= D
    BY <1>1, <1>3
  <1> HIDE DEF D
  <1>5. q \in Nat /\ M = D * q
    BY <1>2, <1>4, DivMod
  <1> HIDE DEF q
  <1>6. q # 0 /\ D <= D * q
    BY <1>2, <1>4, <1>5
  <1>7. D * q = S * (E * q)
    BY <1>1, <1>3, <1>5
  <1>8. G <= M
    BY <1>1, <1>2, <1>4, <1>5, <1>6
  <1>9. M = (E * G) * (E * q)
    BY <1>5, <1>7 DEF S
  <1> QED BY <1>2, <1>5, <1>6, <1>8, <1>9 DEF M, G, E

(* The configuration space lies at the top of the address space, under     *)
(* another entry of the root than what boot mapped.                        *)
LEMMA EcamRoot ==
    ASSUME NEW v \in Nat, PCIE_VIRTUAL_BASE <= v, v < UINTPTR_MOD
    PROVE  PML4_INDEX(v) = ENTRIES - 1 /\ PML4_INDEX(v) # 0
  <1> DEFINE E == ENTRIES
             G == GIB
             S == E * G
             M == UINTPTR_MOD
  <1>1. E \in Nat \ {0, 1} /\ G \in Nat \ {0} /\ S \in Nat \ {0} /\ G <= S
    BY Spans
  <1>2. M \in Nat \ {0}
    BY RootSpan
  <1>4. PICK q \in Nat \ {0} : M = S * (E * q)
    BY RootSpan
  <1> HIDE DEF E, G, M
  <1> HIDE DEF S
  <1>5. E * q \in Nat /\ q # 0
    BY <1>1, <1>4
  <1>6. q - 1 \in Nat /\ E * q = E * (q - 1) + E
    BY <1>1, <1>5
  <1>7. E * (q - 1) \in Nat
    BY <1>1, <1>6
  <1> DEFINE p == E * (q - 1) + (E - 1)
             r == (S - G) + (v - (M - G))
  <1>8. p \in Nat /\ E * q = p + 1
    BY <1>1, <1>6, <1>7
  <1>9. r \in Nat /\ r < S
    BY <1>1, <1>2 DEF PCIE_VIRTUAL_BASE, M, G
  <1>10. p % E = E - 1
    <2>1. E - 1 \in Nat /\ E - 1 < E
      BY <1>1
    <2> QED BY <1>1, <1>6, <2>1, DivUnique
  <1> HIDE DEF p
  <1>11. v = S * p + r
    <2>1. S * (p + 1) = S * p + S /\ S * p \in Nat
      BY <1>1, <1>8
    <2> QED BY <1>1, <1>2, <1>4, <1>8, <2>1
  <1> HIDE DEF r
  <1>12. v \div S = p
    BY <1>1, <1>8, <1>9, <1>11, DivUnique
  <1>13. PML4_INDEX(v) = E - 1
    BY <1>10, <1>12 DEF PML4_INDEX, S, E, G
  <1> QED BY <1>1, <1>13 DEF E

-----------------------------------------------------------------------------
(* A large page is one of boot's, or the configuration space is under the  *)
(* entry of the root that leads to it.                                     *)
BootDirectories == {page_table_l2(k) : k \in 0..(IDENTITY_TABLES - 1)}

EcamThird(T) == T[page_table_l4][PML4_INDEX(PCIE_VIRTUAL_BASE)].frame

InEcam(T, t) ==
    /\ PML4_INDEX(PCIE_VIRTUAL_BASE) \in DOMAIN T[page_table_l4]
    /\ \E j \in DOMAIN T[EcamThird(T)] : T[EcamThird(T)][j].frame = t

LargeApart(T) ==
    \A t \in DOMAIN T : \A i \in DOMAIN T[t] :
        T[t][i].large => t \in BootDirectories \/ InEcam(T, t)

(* Until something is mapped through the window there are only large pages.*)
OnlyLarge(T, level) ==
    \A t \in DOMAIN T : \A i \in DOMAIN T[t] : level[t] = 2 => T[t][i].large

(* The way to the configuration space is kept.                             *)
LEMMA EcamStays ==
    ASSUME NEW T, NEW level, Leveled(T, level), NEW U, NEW t,
           \A u \in DOMAIN T : level[u] \in {3, 4} =>
              \A i \in DOMAIN T[u] : i \in DOMAIN U[u] /\ U[u][i] = T[u][i],
           InEcam(T, t)
    PROVE  InEcam(U, t)
  <1> DEFINE R == PML4_INDEX(PCIE_VIRTUAL_BASE)
  <1>1. /\ R \in DOMAIN T[page_table_l4]
        /\ \E j \in DOMAIN T[EcamThird(T)] : T[EcamThird(T)][j].frame = t
    BY DEF InEcam
  <1> HIDE DEF R
  <1>2. page_table_l4 \in DOMAIN T /\ level[page_table_l4] = 4
    BY DEF Leveled
  <1>3. R \in DOMAIN U[page_table_l4] /\ U[page_table_l4][R] = T[page_table_l4][R]
    BY <1>1, <1>2
  <1>4. EcamThird(U) = EcamThird(T)
    BY <1>3 DEF EcamThird, R
  <1>5. EcamThird(T) \in DOMAIN T /\ level[EcamThird(T)] = 3
    BY <1>1, <1>2, BelowRoot DEF EcamThird, R
  <1>6. \A j \in DOMAIN T[EcamThird(T)] :
           j \in DOMAIN U[EcamThird(T)] /\ U[EcamThird(T)][j] = T[EcamThird(T)][j]
    BY <1>5
  <1> QED BY <1>1, <1>3, <1>4, <1>6 DEF InEcam, R

(* Adding tables adds no large page.                                       *)
LEMMA ApartWhenGrown ==
    ASSUME NEW m, NEW level, VmOk(m, level), LargeApart(m.tables),
           NEW n, NEW higher, NEW low, Grows(m, level, n, higher), Adds(m, n, higher, low)
    PROVE  LargeApart(n.tables)
  <1> SUFFICES ASSUME NEW t \in DOMAIN n.tables, NEW i \in DOMAIN n.tables[t],
                      n.tables[t][i].large
               PROVE  t \in BootDirectories \/ InEcam(n.tables, t)
    BY DEF LargeApart
  <1>1. t \in DOMAIN m.tables /\ i \in DOMAIN m.tables[t] /\ m.tables[t][i].large
    BY DEF Adds
  <1>2. t \in BootDirectories \/ InEcam(m.tables, t)
    BY <1>1 DEF LargeApart
  <1>3. \A u \in DOMAIN m.tables : level[u] \in {3, 4} =>
           \A j \in DOMAIN m.tables[u] : j \in DOMAIN n.tables[u] /\ n.tables[u][j] = m.tables[u][j]
    BY DEF Grows
  <1>4. Leveled(m.tables, level)
    BY DEF VmOk
  <1>5. InEcam(m.tables, t) => InEcam(n.tables, t)
    <2> DEFINE T == m.tables
               U == n.tables
    <2> HIDE DEF T, U
    <2>1. InEcam(T, t) => InEcam(U, t)
      BY <1>3, <1>4, EcamStays DEF T, U
    <2> QED BY <2>1 DEF T, U
  <1> QED BY <1>2, <1>5

(* Nor does adding tables above level 2 add a page at all.                 *)
LEMMA OnlyLargeWhenGrown ==
    ASSUME NEW m, NEW level, OnlyLarge(m.tables, level),
           NEW n, NEW higher, Grows(m, level, n, higher), Adds(m, n, higher, 3)
    PROVE  OnlyLarge(n.tables, higher)
  BY DEF OnlyLarge, Grows, Adds

(* A large page is written for the configuration space.                    *)
LEMMA ApartWhenWritten ==
    ASSUME NEW m, NEW level, VmOk(m, level), LargeApart(m.tables),
           NEW v, LeadsTo(m, level, v), PML4_INDEX(v) = PML4_INDEX(PCIE_VIRTUAL_BASE),
           NEW i, NEW e, e.large,
           NEW U, WrittenFacts(m.tables, directory(m, v), i, e, U)
    PROVE  /\ LargeApart(U)
           /\ OnlyLarge(m.tables, level) => OnlyLarge(U, level)
  <1> DEFINE d == directory(m, v)
             T == m.tables
  <1>1. Leveled(T, level) /\ level[d] = 2 /\ d \in DOMAIN T
    BY DEF VmOk, LeadsTo
  <1>2. InEcam(T, d)
    <2>1. /\ PML4_INDEX(PCIE_VIRTUAL_BASE) \in DOMAIN T[page_table_l4]
          /\ Third(m, v) = EcamThird(T)
          /\ PDPT_INDEX(v) \in DOMAIN T[Third(m, v)]
          /\ d = T[Third(m, v)][PDPT_INDEX(v)].frame
      BY DEF LeadsTo, Third, EcamThird
    <2> HIDE DEF d, T
    <2> QED BY <2>1 DEF InEcam
  <1>3. WrittenFacts(T, d, i, e, U)
    OBVIOUS
  <1>4. LargeApart(T)
    OBVIOUS
  <1> HIDE DEF d, T
  <1>5. \A u \in DOMAIN T : level[u] \in {3, 4} =>
           \A j \in DOMAIN T[u] : j \in DOMAIN U[u] /\ U[u][j] = T[u][j]
    BY <1>1, <1>3 DEF WrittenFacts
  <1>6. \A t : InEcam(T, t) => InEcam(U, t)
    BY <1>1, <1>5, EcamStays
  <1>7. \A u \in DOMAIN U : \A j \in DOMAIN U[u] :
           \/ u = d /\ j = i /\ U[u][j] = e
           \/ u \in DOMAIN T /\ j \in DOMAIN T[u] /\ U[u][j] = T[u][j]
    BY <1>3 DEF WrittenFacts
  <1>8. LargeApart(U)
    BY <1>2, <1>4, <1>6, <1>7 DEF LargeApart
  <1>9. OnlyLarge(T, level) => OnlyLarge(U, level)
    BY <1>7 DEF OnlyLarge
  <1> QED BY <1>8, <1>9 DEF T

(* What boot leaves has no other pages than its large ones.                *)
LEMMA BootApart ==
    ASSUME NEW level, Leveled(setup_page_tables, level)
    PROVE  LargeApart(setup_page_tables) /\ OnlyLarge(setup_page_tables, level)
  <1> DEFINE T == setup_page_tables
  <1>1. DOMAIN T = BootTables
    BY BootEntries
  <1>2. /\ DOMAIN T[page_table_l4] = {0} /\ ~T[page_table_l4][0].large
        /\ DOMAIN T[page_table_l3] = 0..(IDENTITY_TABLES - 1)
        /\ \A k \in 0..(IDENTITY_TABLES - 1) : ~T[page_table_l3][k].large
    BY BootEntries DEF Below
  <1>3. \A k \in 0..(IDENTITY_TABLES - 1) : \A i \in DOMAIN T[page_table_l2(k)] : T[page_table_l2(k)][i].large
    <2> SUFFICES ASSUME NEW k \in 0..(IDENTITY_TABLES - 1), NEW i \in DOMAIN T[page_table_l2(k)]
                 PROVE  T[page_table_l2(k)][i].large
      OBVIOUS
    <2>1. T[page_table_l2(k)] = [j \in 0..(ENTRIES - 1) |-> Page((k * ENTRIES + j) * LARGE)]
      BY BootEntries
    <2>2. \A f : Page(f).large
      BY DEF Page
    <2> QED BY <2>1, <2>2
  <1>4. \A t \in BootTables :
           t = page_table_l4 \/ t = page_table_l3 \/ t \in BootDirectories
    BY DEF BootTables, BootDirectories
  <1>5. BootKept(T)
    BY BootEntries DEF BootKept
  <1>6. level[page_table_l4] = 4 /\ level[page_table_l3] = 3
    BY <1>5, BootLevels
  <1> HIDE DEF T
  <1>7. LargeApart(T)
    BY <1>1, <1>2, <1>4 DEF LargeApart
  <1>8. OnlyLarge(T, level)
    BY <1>1, <1>3, <1>4, <1>6 DEF OnlyLarge, BootDirectories
  <1> QED BY <1>7, <1>8 DEF T

-----------------------------------------------------------------------------
(* From memory_init on the page tables have levels, and hold what boot put *)
(* there; while the configuration space is mapped, so do the addresses     *)
(* that it is mapped at lie at the top.                                    *)
BeforeMemory == {"start", "paging", "gdt", "memory"}

PlainVm ==
    /\ vm = [tables |-> vm.tables, pool |-> vm.pool, stray |-> vm.stray, halted |-> vm.halted]
    /\ vm.halted = FALSE

TablesSound ==
    \E level :
        /\ VmOk(vm, level) /\ BootKept(vm.tables) /\ LargeApart(vm.tables)
        /\ g_pml4_virt = NULL => OnlyLarge(vm.tables, level)

EcamBounds ==
    /\ loop.virt \in Nat /\ loop.end \in Nat
    /\ PCIE_VIRTUAL_BASE <= loop.virt /\ loop.end <= UINTPTR_MOD

VmInv ==
    /\ machine \in Machines /\ segment \in Nat
    /\ pc \in BeforeMemory => PlainVm
    /\ pc \in {"gdt", "memory"} => vm.tables = setup_page_tables
    /\ pc \notin BeforeMemory \cup {"error"} => TablesSound
    /\ pc = "ecam" => EcamBounds

(* The pool begins behind the kernel.                                      *)
LEMMA EndOfKernel ==
    END \in Nat /\ kernel_end \in Nat /\ END <= kernel_end
  <1> DEFINE v == END + (PAGE_SIZE - 1)
  <1>1. /\ PAGE_SIZE \in Nat \ {0} /\ END \in Nat /\ POOL_PAGES * PAGE_SIZE \in Nat
        /\ UINTPTR_MOD \in Nat /\ END + PAGE_SIZE + POOL_PAGES * PAGE_SIZE < UINTPTR_MOD
    BY PageAssumption, PoolAssumption, SpaceAssumption
  <1>2. v \in Nat /\ v < UINTPTR_MOD
    BY <1>1
  <1> HIDE DEF v
  <1>4. v % UINTPTR_MOD = v
    BY <1>1, <1>2
  <1>5. kernel_end = v - (v % PAGE_SIZE)
    <2>1. PAGE_SIZE # 0 /\ (END + (PAGE_SIZE - 1)) % UINTPTR_MOD = v
      BY <1>1, <1>4 DEF v
    <2> QED BY <2>1 DEF kernel_end, align_up
  <1>6. v % PAGE_SIZE \in Nat /\ v % PAGE_SIZE < PAGE_SIZE
    BY <1>1, <1>2, DivMod
  <1>7. kernel_end \in Nat
    BY PoolBounds
  <1> QED BY <1>1, <1>5, <1>6, <1>7 DEF v

(* What the two steps of boot that write vm leave of it.                   *)
LEMMA PlainWritten ==
    ASSUME NEW m, NEW T, NEW g,
           m = [tables |-> m.tables, pool |-> m.pool, stray |-> m.stray, halted |-> m.halted]
    PROVE  /\ [m EXCEPT !.tables = T] =
                 [tables |-> T, pool |-> m.pool, stray |-> m.stray, halted |-> m.halted]
           /\ [m EXCEPT !.pool = g] =
                 [tables |-> m.tables, pool |-> g, stray |-> m.stray, halted |-> m.halted]
  OBVIOUS

(* memory_init puts the pool behind the kernel, and with it the tables.    *)
LEMMA TablesSoundAtFirst ==
    ASSUME NEW m, NEW s, NEW h, h = FALSE,
           m = [tables |-> setup_page_tables, pool |-> memory_init, stray |-> s, halted |-> h]
    PROVE  \E level :
              /\ VmOk(m, level) /\ BootKept(m.tables) /\ LargeApart(m.tables)
              /\ OnlyLarge(m.tables, level)
  <1>1. PICK level : Leveled(setup_page_tables, level) /\ OneParent(setup_page_tables, level)
    BY SetupLevels
  <1>2. PoolOk(memory_init)
    <2>1. kernel_end \in Nat /\ pool_end \in Nat /\ kernel_end <= pool_end
      BY PoolBounds
    <2>2. kernel_end = kernel_end + 0 * PAGE_SIZE
      BY <2>1, PageAssumption
    <2> QED BY <2>1, <2>2 DEF PoolOk, memory_init
  <1>3. \A t \in DOMAIN setup_page_tables : t \in Nat /\ t < kernel_end
    <2>1. END \in Nat /\ kernel_end \in Nat /\ END <= kernel_end
      BY EndOfKernel
    <2>2. DOMAIN setup_page_tables = BootTables
      BY BootEntries
    <2>3. \A t \in BootTables : t \in Nat /\ t < END
      BY BootAddresses
    <2> QED BY <2>1, <2>2, <2>3
  <1>4. /\ m = [tables |-> m.tables, pool |-> m.pool, stray |-> m.stray, halted |-> m.halted]
        /\ m.tables = setup_page_tables /\ m.pool = memory_init /\ m.halted = FALSE
        /\ m.pool.next = kernel_end
    BY DEF memory_init
  <1>5. VmOk(m, level)
    BY <1>1, <1>2, <1>3, <1>4 DEF VmOk
  <1>6. BootKept(setup_page_tables)
    BY BootEntries DEF BootKept
  <1>7. LargeApart(setup_page_tables) /\ OnlyLarge(setup_page_tables, level)
    BY <1>1, BootApart
  <1> QED BY <1>4, <1>5, <1>6, <1>7

(* The pages that malloc takes are no tables.                              *)
LEMMA TablesSoundWithPool ==
    ASSUME NEW m, NEW level, VmOk(m, level), NEW g, PoolOk(g), m.pool.next <= g.next,
           NEW n, n = [m EXCEPT !.pool = g]
    PROVE  VmOk(n, level) /\ n.tables = m.tables
  <1>1. n = [tables |-> m.tables, pool |-> g, stray |-> m.stray, halted |-> m.halted]
    BY DEF VmOk
  <1>2. \A t \in DOMAIN m.tables : t \in Nat /\ t < g.next
    BY DEF VmOk, PoolOk
  <1> QED BY <1>1, <1>2 DEF VmOk

(* An element of a sequence is one of its values.                          *)
LEMMA ElementOfSeq ==
    ASSUME NEW S, NEW s \in Seq(S), NEW i \in 1..Len(s)
    PROVE  s[i] \in S
  OBVIOUS

(* The configuration space ends where the address space does.              *)
LEMMA SegmentBounds ==
    ASSUME machine \in Machines, segment \in Nat, LoopInv, NextSegment
    PROVE  EcamBounds' /\ segment' \in Nat
  <1> DEFINE e == machine.mcfg[segment + 1]
             M == UINTPTR_MOD
             G == GIB
  <1>1. WellFormed(machine) /\ segment < Len(machine.mcfg)
    BY MachineAssumption DEF NextSegment
  <1>2. e \in [base : Nat, start : 0..(BYTE - 1), end : 0..(BYTE - 1)] /\ e.start <= e.end
    <2>1. machine.mcfg \in Seq([base : Nat, start : 0..(BYTE - 1), end : 0..(BYTE - 1)])
      BY <1>1 DEF WellFormed
    <2>2. segment + 1 \in 1..Len(machine.mcfg)
      BY <1>1, <2>1
    <2>3. machine.mcfg[segment + 1].start <= machine.mcfg[segment + 1].end
      BY <1>1, <2>2 DEF WellFormed
    <2>4. e \in [base : Nat, start : 0..(BYTE - 1), end : 0..(BYTE - 1)]
      BY <2>1, <2>2, ElementOfSeq
    <2> QED BY <2>3, <2>4
  <1>3. /\ loop'.virt = PCIE_VIRTUAL_BASE + e.start * BUS
        /\ loop'.end = (PCIE_VIRTUAL_BASE + e.start * BUS) + ((e.end - e.start) + 1) * BUS
        /\ segment' = segment + 1
    BY DEF NextSegment, LoopInv
  <1> HIDE DEF e
  <1>4. e.start \in Nat /\ e.end \in Nat /\ e.start <= e.end /\ e.end + 1 <= BYTE /\ BYTE \in Nat
    BY <1>2, PcieAssumption
  <1>5. BUS \in Nat /\ G \in Nat /\ M \in Nat /\ BYTE * BUS <= G /\ G <= M
    <2>1. DEVICES \in Nat /\ FUNCTIONS \in Nat /\ PAGE_SIZE \in Nat
      BY PcieAssumption, PageAssumption
    <2>2. BUS \in Nat
      BY <2>1 DEF BUS
    <2>3. G \in Nat /\ M \in Nat /\ BYTE * BUS <= G
      BY Spans, PcieAssumption, SpaceAssumption
    <2>4. G <= M
      BY RootSpan
    <2> QED BY <2>2, <2>3, <2>4
  <1>6. PCIE_VIRTUAL_BASE = M - G /\ PCIE_VIRTUAL_BASE \in Nat
    BY <1>5 DEF PCIE_VIRTUAL_BASE
  <1> HIDE DEF G, M
  <1>7. /\ e.start * BUS \in Nat /\ ((e.end - e.start) + 1) * BUS \in Nat
        /\ e.start * BUS + ((e.end - e.start) + 1) * BUS = (e.end + 1) * BUS
    <2>1. (e.end - e.start) + 1 \in Nat
      BY <1>4
    <2>2. (e.start + ((e.end - e.start) + 1)) * BUS = e.start * BUS + ((e.end - e.start) + 1) * BUS
      BY <1>4, <1>5, <2>1
    <2>3. e.start + ((e.end - e.start) + 1) = e.end + 1
      BY <1>4
    <2> QED BY <1>4, <1>5, <2>1, <2>2, <2>3
  <1>8. (e.end + 1) * BUS <= BYTE * BUS /\ BYTE * BUS \in Nat
    <2>1. BYTE - (e.end + 1) \in Nat /\ BYTE = (e.end + 1) + (BYTE - (e.end + 1))
      BY <1>4
    <2>2. ((e.end + 1) + (BYTE - (e.end + 1))) * BUS = (e.end + 1) * BUS + (BYTE - (e.end + 1)) * BUS
      BY <1>4, <1>5, <2>1
    <2>3. (BYTE - (e.end + 1)) * BUS \in Nat /\ (e.end + 1) * BUS \in Nat
      BY <1>4, <1>5, <2>1
    <2> QED BY <1>4, <1>5, <2>1, <2>2, <2>3
  <1>9. loop'.end <= M
    BY <1>3, <1>5, <1>6, <1>7, <1>8
  <1>10. PCIE_VIRTUAL_BASE <= loop'.virt /\ loop'.virt \in Nat /\ loop'.end \in Nat
    BY <1>3, <1>6, <1>7
  <1> QED BY <1>3, <1>9, <1>10 DEF EcamBounds, M

(* One large page of the configuration space more.                         *)
LEMMA MapEcamSound ==
    ASSUME LoopInv, TablesSound, EcamBounds, MapEcam
    PROVE  TablesSound' /\ (pc' = "ecam" => EcamBounds')
  <1> DEFINE v == loop.virt
  <1>1. CASE ~(v < loop.end)
    BY <1>1 DEF MapEcam, TablesSound, EcamBounds
  <1>2. CASE v < loop.end
    <2>1. vm' = map_large(vm, v, loop.phys) /\ ~vm.halted /\ UNCHANGED g_pml4_virt
      BY <1>2 DEF MapEcam
    <2>2. PML4_INDEX(v) # 0 /\ PML4_INDEX(v) = PML4_INDEX(PCIE_VIRTUAL_BASE)
      <3>1. v \in Nat /\ PCIE_VIRTUAL_BASE <= v /\ v < UINTPTR_MOD
        BY <1>2, SpaceAssumption DEF EcamBounds
      <3>2. PCIE_VIRTUAL_BASE \in Nat /\ PCIE_VIRTUAL_BASE < UINTPTR_MOD
        BY Spans, RootSpan DEF PCIE_VIRTUAL_BASE
      <3> HIDE DEF v
      <3> QED BY <3>1, <3>2, EcamRoot
    <2>3. EcamBounds'
      <3>1. loop'.virt = loop.virt + LARGE /\ loop'.end = loop.end
        BY <1>2 DEF MapEcam, LoopInv
      <3>2. PCIE_VIRTUAL_BASE \in Int
        BY Spans, SpaceAssumption DEF PCIE_VIRTUAL_BASE
      <3> QED BY <3>1, <3>2, Spans DEF EcamBounds
    <2>4. PICK level : /\ VmOk(vm, level) /\ BootKept(vm.tables) /\ LargeApart(vm.tables)
                       /\ g_pml4_virt = NULL => OnlyLarge(vm.tables, level)
      BY DEF TablesSound
    <2> HIDE DEF v
    <2>5. PICK a, la :
              /\ VmOk(a, la) /\ Grows(vm, level, a, la) /\ VmOk(vm', la)
              /\ Adds(vm, a, la, 3)
              /\ vm'.halted = a.halted
              /\ IF a.halted THEN vm' = a
                 ELSE /\ LeadsTo(a, la, v)
                      /\ WrittenFacts(a.tables, directory(a, v), PD_INDEX(v),
                                      Page(loop.phys), vm'.tables)
      BY <2>1, <2>4, MapLargeOk
    <2>6. /\ BootKept(a.tables) /\ LargeApart(a.tables)
          /\ g_pml4_virt = NULL => OnlyLarge(a.tables, la)
      BY <2>4, <2>5, KeptWhenGrown, ApartWhenGrown, OnlyLargeWhenGrown
    <2>7. /\ BootKept(vm'.tables) /\ LargeApart(vm'.tables)
          /\ g_pml4_virt = NULL => OnlyLarge(vm'.tables, la)
      <3>1. CASE a.halted
        BY <2>5, <2>6, <3>1
      <3>2. CASE ~a.halted
        <4> DEFINE i == PD_INDEX(v)
                   e == Page(loop.phys)
                   U == vm'.tables
        <4>1. LeadsTo(a, la, v) /\ WrittenFacts(a.tables, directory(a, v), i, e, U)
          BY <2>5, <3>2
        <4>2. e.large
          BY DEF Page
        <4> HIDE DEF i, e, U
        <4>3. BootKept(U)
          BY <2>2, <2>5, <2>6, <4>1, KeptWhenWritten
        <4>4. LargeApart(U) /\ (OnlyLarge(a.tables, la) => OnlyLarge(U, la))
          BY <2>2, <2>5, <2>6, <4>1, <4>2, ApartWhenWritten
        <4> QED BY <2>6, <4>3, <4>4 DEF U
      <3> QED BY <3>1, <3>2
    <2> QED BY <2>1, <2>3, <2>5, <2>7 DEF TablesSound
  <1> QED BY <1>1, <1>2

(* One page of the window more.                                            *)
LEMMA MapMmioSound ==
    ASSUME LoopInv, TablesSound, MapMmio
    PROVE  TablesSound'
  <1> g_pml4_virt # NULL /\ UNCHANGED g_pml4_virt
    BY DEF MapMmio, LoopInv
  <1>1. CASE UNCHANGED vm
    BY <1>1 DEF TablesSound
  <1>2. CASE vm' = map_small(vm, loop.virt, loop.phys) /\ ~vm.halted
    <2>1. PICK level : VmOk(vm, level) /\ BootKept(vm.tables) /\ LargeApart(vm.tables)
      BY DEF TablesSound
    <2>2. PICK higher : VmOk(vm', higher) /\ Grows(vm, level, vm', higher) /\ Adds(vm, vm', higher, 1)
      BY <1>2, <2>1, MapSmallOk
    <2>3. BootKept(vm'.tables) /\ LargeApart(vm'.tables)
      BY <2>1, <2>2, KeptWhenGrown, ApartWhenGrown
    <2> QED BY <2>2, <2>3 DEF TablesSound
  <1> QED BY <1>1, <1>2 DEF MapMmio

(* malloc's chunks.                                                        *)
LEMMA TestMallocSound ==
    ASSUME TablesSound, TestMalloc
    PROVE  TablesSound'
  <1> DEFINE a == memory_alloc_pages(vm.pool, l_pageCount).pool
             b == memory_alloc_pages(a, l_pageCount).pool
  <1>1. PICK level : /\ VmOk(vm, level) /\ BootKept(vm.tables) /\ LargeApart(vm.tables)
                     /\ g_pml4_virt = NULL => OnlyLarge(vm.tables, level)
    BY DEF TablesSound
  <1>2. PoolOk(a) /\ vm.pool.next <= a.next /\ PoolOk(vm.pool)
    BY <1>1, PoolGives DEF VmOk
  <1> HIDE DEF a
  <1>3. PoolOk(b) /\ a.next <= b.next
    BY <1>2, PoolGives
  <1>4. vm' = [vm EXCEPT !.pool = b]
    BY DEF TestMalloc, a
  <1> HIDE DEF b
  <1>5. vm.pool.next <= b.next
    BY <1>2, <1>3 DEF PoolOk
  <1>6. VmOk(vm', level) /\ vm'.tables = vm.tables
    BY <1>1, <1>3, <1>4, <1>5, TablesSoundWithPool
  <1>7. UNCHANGED g_pml4_virt
    BY DEF TestMalloc
  <1> QED BY <1>1, <1>6, <1>7 DEF TablesSound

(* Nobody else touches the tables, and the kernel does not go back to boot.*)
LEMMA TablesFrame ==
    ASSUME LoopInv, [Next]_vars
    PROVE  /\ UNCHANGED machine
           /\ segment \in Nat => segment' \in Nat
           /\ g_pml4_virt' = NULL => g_pml4_virt = NULL
           /\ \/ SetupPageTables \/ MemoryInit \/ TestMalloc
              \/ NextSegment \/ MapEcam \/ MapMmio
              \/ UNCHANGED <<vm, pc, loop>>
              \/ UNCHANGED vm /\ pc = "start" /\ pc' \in {"paging", "error"}
              \/ UNCHANGED vm /\ pc = "gdt" /\ pc' = "memory"
              \/ /\ UNCHANGED vm
                 /\ pc \notin BeforeMemory \cup {"error"}
                 /\ pc' \notin BeforeMemory \cup {"error", "ecam"}
  <1>1. CASE PcieStep
    <2>1. /\ UNCHANGED <<machine, g_pml4_virt>>
          /\ segment \in Nat => segment' \in Nat
      BY <1>1 DEF PcieStep, PcieNext, NextSegment, MapEcam, Probe, Visit, Bridge, Return,
          SizeBar, Restore, MapBar, MapMmio, MapMsixTable, ProgramEntry, EnableMsix
    <2>2. CASE SizeBar \/ Restore \/ ProgramEntry \/ EnableMsix \/ Probe \/ Visit \/ Bridge \/ Return
      <3>1. UNCHANGED vm
        BY <2>2 DEF SizeBar, Restore, ProgramEntry, EnableMsix, Probe, Visit, Bridge, Return
      <3>2. pc \in Enumerating
        BY <2>2 DEF SizeBar, Restore, ProgramEntry, EnableMsix, Probe, Visit, Bridge, Return, Enumerating
      <3>3. pc' \in Enumerating \cup {"segment"}
        BY <2>2 DEF SizeBar, Restore, ProgramEntry, EnableMsix, Probe, Visit, Bridge, Return, Enumerating
      <3> QED BY <2>1, <3>1, <3>2, <3>3 DEF Enumerating, BeforeMemory
    <2>3. CASE MapBar \/ MapMsixTable
      <3>1. UNCHANGED vm /\ pc \in {"bar", "map_bar"}
        BY <2>3 DEF MapBar, MapMsixTable
      <3>2. pc' \in {"bar", "mmio", "bridge", "program"}
        BY <2>3 DEF MapBar, MapMsixTable, MapRange
      <3> QED BY <2>1, <3>1, <3>2 DEF BeforeMemory
    <2> QED BY <1>1, <2>1, <2>2, <2>3 DEF PcieStep, PcieNext
  <1>2. CASE KernelStep /\ ~PcieStep
    BY <1>2, PagingAssumption DEF NULL, KernelStep, Checks, SetupPageTables, GdtInitialize, MemoryInit,
        IdtInitialize, VbeInit, Tags, FindMcfg, InitPcieDone, TestMalloc,
        pcie_set_pml4_and_offset, pcie_vars, BeforeMemory
  <1>3. CASE EnableDevice
    BY <1>3 DEF EnableDevice, pcie_enable_device, BeforeMemory
  <1>4. CASE MapResource
    BY <1>4 DEF MapResource, pcie_map_phys_mmio, MapRange, BeforeMemory
  <1>5. CASE Interrupt
    BY <1>5 DEF Interrupt, pcie_vars
  <1>6. CASE UNCHANGED vars
    BY <1>6 DEF vars, pcie_vars
  <1> QED BY <1>1, <1>2, <1>3, <1>4, <1>5, <1>6 DEF Next, KernelStep

(* Every step keeps the tables sound.                                      *)
LEMMA VmStep ==
    ASSUME LoopInv, VmInv, [Next]_vars
    PROVE  VmInv'
  <1> DEFINE Later(p) == p \notin BeforeMemory \cup {"error"}
  <1>1. machine' \in Machines /\ segment' \in Nat /\ (g_pml4_virt' = NULL => g_pml4_virt = NULL)
    BY TablesFrame DEF VmInv
  <1>2. CASE SetupPageTables
    <2>1. pc = "paging" /\ pc' = "gdt" /\ vm' = [vm EXCEPT !.tables = setup_page_tables] /\ PlainVm
      BY <1>2 DEF SetupPageTables, VmInv, BeforeMemory
    <2>2. vm' = [tables |-> setup_page_tables, pool |-> vm.pool, stray |-> vm.stray, halted |-> vm.halted]
      BY <2>1, PlainWritten DEF PlainVm
    <2> QED BY <1>1, <2>1, <2>2 DEF VmInv, BeforeMemory, PlainVm
  <1>3. CASE MemoryInit
    <2>1. /\ pc = "memory" /\ pc' = "idt" /\ vm' = [vm EXCEPT !.pool = memory_init]
          /\ PlainVm /\ vm.tables = setup_page_tables
      BY <1>3 DEF MemoryInit, VmInv, BeforeMemory
    <2>2. vm' = [tables |-> setup_page_tables, pool |-> memory_init, stray |-> vm.stray, halted |-> vm.halted]
      BY <2>1, PlainWritten DEF PlainVm
    <2>3. TablesSound'
      BY <2>1, <2>2, TablesSoundAtFirst DEF TablesSound, PlainVm
    <2> QED BY <1>1, <2>1, <2>3 DEF VmInv, BeforeMemory
  <1>4. CASE TestMalloc
    <2>1. pc = "malloc" /\ pc' = "idle" /\ TablesSound
      BY <1>4 DEF TestMalloc, VmInv, BeforeMemory
    <2>2. TablesSound'
      BY <1>4, <2>1, TestMallocSound
    <2> QED BY <1>1, <2>1, <2>2 DEF VmInv, BeforeMemory
  <1>5. CASE NextSegment
    <2>1. pc = "segment" /\ pc' = "ecam" /\ TablesSound /\ UNCHANGED vm
      BY <1>5 DEF NextSegment, VmInv, BeforeMemory
    <2>2. EcamBounds'
      BY <1>5, SegmentBounds DEF VmInv
    <2> QED BY <1>1, <2>1, <2>2 DEF VmInv, BeforeMemory, TablesSound
  <1>6. CASE MapEcam
    <2>1. pc = "ecam" /\ pc' \in {"ecam", "walk"} /\ TablesSound /\ EcamBounds
      BY <1>6 DEF MapEcam, VmInv, BeforeMemory
    <2>2. TablesSound' /\ (pc' = "ecam" => EcamBounds')
      BY <1>6, <2>1, MapEcamSound
    <2> QED BY <1>1, <2>1, <2>2 DEF VmInv, BeforeMemory
  <1>7. CASE MapMmio
    <2>1. pc = "mmio" /\ TablesSound
      BY <1>7 DEF MapMmio, VmInv, BeforeMemory
    <2>2. pc' \in {"mmio", "bar", "bridge", "program", "idle"}
      BY <1>7 DEF MapMmio, LoopInv
    <2>3. TablesSound'
      BY <1>7, <2>1, MapMmioSound
    <2> QED BY <1>1, <2>2, <2>3 DEF VmInv, BeforeMemory
  <1>8. CASE UNCHANGED <<vm, pc, loop>>
    BY <1>1, <1>8 DEF VmInv, PlainVm, TablesSound, EcamBounds
  <1>9. CASE UNCHANGED vm /\ pc = "start" /\ pc' \in {"paging", "error"}
    BY <1>1, <1>9 DEF VmInv, PlainVm, BeforeMemory
  <1>10. CASE UNCHANGED vm /\ pc = "gdt" /\ pc' = "memory"
    BY <1>1, <1>10 DEF VmInv, PlainVm, BeforeMemory
  <1>11. CASE UNCHANGED vm /\ Later(pc) /\ Later(pc') /\ pc' # "ecam"
    BY <1>1, <1>11 DEF VmInv, TablesSound, BeforeMemory
  <1> QED
    BY <1>2, <1>3, <1>4, <1>5, <1>6, <1>7, <1>8, <1>9, <1>10, <1>11, TablesFrame

(* In every state the page tables are in order.                            *)
LEMMA TablesKept == Spec => [](LoopInv /\ VmInv)
  <1>1. Init => LoopInv /\ VmInv
    BY DEF Init, InitMachine, InitPcieState, LoopInv, VmInv, PlainVm, BeforeMemory
  <1>2. LoopInv /\ VmInv /\ [Next]_vars => (LoopInv /\ VmInv)'
    BY LoopStep, VmStep
  <1> QED BY <1>1, <1>2, PTL DEF Spec

(* The pages that boot mapped to themselves, the kernel's own among them,  *)
(* stay mapped to themselves whatever is mapped later.                     *)
THEOREM KernelKeepsIdentity == Spec => []IdentityKept
  <1>1. VmInv => IdentityKept
    <2> SUFFICES ASSUME VmInv, pc \notin BeforePaging,
                        NEW n \in 0..(IDENTITY_TABLES * ENTRIES - 1)
                 PROVE  translate(vm.tables, n * LARGE) = n * LARGE
      BY DEF IdentityKept
    <2>1. BootKept(setup_page_tables)
      BY BootEntries DEF BootKept
    <2>2. BootKept(vm.tables)
      BY <2>1 DEF VmInv, TablesSound, BeforeMemory, BeforePaging
    <2> QED BY <2>2, IdentityTranslated
  <1> QED BY <1>1, TablesKept, PTL

-----------------------------------------------------------------------------
(*-------------------------- the boot information -------------------------*)

(* The walks over the boot information: a step from a tag that is not the  *)
(* end leads to the next one, and the end is behind all others.            *)
LEMMA TagStep ==
    ASSUME info \in Infos, tag \in DOMAIN info, info[tag].type # 0
    PROVE  LET next == tag + tag_step(info[tag].size) IN
           next \in DOMAIN info /\ \A a \in DOMAIN info : a < next => a <= tag
  <1> DEFINE size == info[tag].size
             v == size + 7
             next == tag + ((size + 7) \div 8) * 8
  <1>1. /\ DOMAIN info \subseteq Nat /\ size \in 8..(UINTPTR_MOD - 8)
        /\ next \in DOMAIN info
        /\ \A a \in DOMAIN info : a <= tag \/ next <= a
    BY InfoAssumption DEF LaidOut
  <1>2. UINTPTR_MOD \in Nat
    BY SpaceAssumption
  <1>3. v \in Nat /\ v < UINTPTR_MOD /\ size + (8 - 1) = v
    BY <1>1, <1>2
  <1>4. (size + (8 - 1)) % UINTPTR_MOD = v
    BY <1>3, NoWrap
  <1>5. tag_step(size) = v - (v % 8)
    BY <1>4 DEF tag_step, align_up
  <1> HIDE DEF size
  <1>6. v - (v % 8) = (v \div 8) * 8
    BY <1>3
  <1>7. next = tag + tag_step(size)
    BY <1>5, <1>6
  <1>8. \A a \in DOMAIN info : a < next => a <= tag
    BY <1>1
  <1> HIDE DEF next
  <1> QED BY <1>1, <1>7, <1>8 DEF size

(* The end tag is behind every other.                                      *)
LEMMA TagEnd ==
    ASSUME info \in Infos, tag \in DOMAIN info
    PROVE  /\ tag < info_end
           /\ info[tag].type = 0 => \A a \in DOMAIN info : a <= tag
           /\ DOMAIN info \subseteq Nat \ {0}
           /\ multiboot_addr + 8 \in DOMAIN info
           /\ \A a \in DOMAIN info : multiboot_addr + 8 <= a
  <1>1. LaidOut(info)
    BY InfoAssumption
  <1>2. /\ DOMAIN info \subseteq Nat /\ multiboot_addr + 8 \in DOMAIN info
        /\ \A a \in DOMAIN info : multiboot_addr + 8 <= a
        /\ info[tag].type = 0 => \A a \in DOMAIN info : a <= tag
    BY <1>1 DEF LaidOut
  <1>3. PICK z \in DOMAIN info : info[z].type = 0
    BY <1>1 DEF LaidOut
  <1>4. /\ info[z].size \in Nat \ {0} /\ z \in Nat
        /\ \A a \in DOMAIN info : a <= z
    BY <1>1, <1>2, <1>3 DEF LaidOut
  <1>5. \A a \in DOMAIN info : a < z + info[z].size
    BY <1>2, <1>4
  <1>6. \E e \in {a + info[a].size : a \in DOMAIN info} : \A a \in DOMAIN info : a < e
    BY <1>5
  <1>7. \A a \in DOMAIN info : a < info_end
    BY <1>6 DEF info_end
  <1>8. \A a \in DOMAIN info : a \in Nat \ {0}
    BY <1>2, KernelAssumption
  <1> QED BY <1>2, <1>7, <1>8

(* The end that kernel_main computes is a number.                          *)
LEMMA InfoEndNat ==
    ASSUME info \in Infos, tag \in DOMAIN info
    PROVE  info_end \in Nat
  <1>1. LaidOut(info)
    BY InfoAssumption
  <1>2. \A a \in DOMAIN info : a + info[a].size \in Nat
    BY <1>1 DEF LaidOut
  <1>3. PICK z \in DOMAIN info : info[z].type = 0
    BY <1>1 DEF LaidOut
  <1>4. /\ info[z].size \in Nat \ {0} /\ z \in Nat /\ DOMAIN info \subseteq Nat
        /\ \A a \in DOMAIN info : a <= z
    BY <1>1, <1>3 DEF LaidOut
  <1>5. \E e \in {a + info[a].size : a \in DOMAIN info} : \A a \in DOMAIN info : a < e
    BY <1>4
  <1>6. info_end \in {a + info[a].size : a \in DOMAIN info}
    BY <1>5 DEF info_end
  <1> QED BY <1>2, <1>6

(* What is found among the tags that were seen: the root pointer that      *)
(* kernel_main takes, and the screen.                                      *)
RootFound(seen) ==
    /\ (\E a \in seen : info[a].type = ACPI_NEW)
          => acpi_rsdp # NULL /\ info[acpi_rsdp].type = ACPI_NEW
    /\ (\E a \in seen : info[a].type = ACPI_OLD) => acpi_rsdp # NULL

ScreenFound ==
    (\E a \in DOMAIN info : info[a].type = FRAMEBUFFER)
        => screen # NULL /\ info[screen].type = FRAMEBUFFER

TagsBehind == {a \in DOMAIN info : a < tag}

WalkInv ==
    /\ info \in Infos
    /\ tag \in DOMAIN info \cup {0}
    /\ {screen, acpi_rsdp} \subseteq DOMAIN info \cup {NULL}
    /\ pc \in BeforeAcpi \ {"vbe", "tags"} => screen = NULL /\ acpi_rsdp = NULL
    /\ pc = "vbe" =>
          /\ tag \in DOMAIN info /\ screen = NULL /\ acpi_rsdp = NULL
          /\ \A a \in TagsBehind : info[a].type \notin {0, FRAMEBUFFER}
    /\ pc = "tags" => tag \in DOMAIN info /\ RootFound(TagsBehind)
    /\ pc \notin BeforeAcpi => RootFound(DOMAIN info)
    /\ pc \notin BeforeAcpi \ {"tags"} => ScreenFound

(* Only the walks and what starts them move; nobody goes back to them.     *)
LEMMA WalkFrame ==
    ASSUME LoopInv, [Next]_vars
    PROVE  \/ IdtInitialize \/ VbeInit \/ Tags
           \/ /\ UNCHANGED <<info, tag, screen, acpi_rsdp>>
              /\ \/ pc' = pc
                 \/ pc \in BeforeAcpi \ {"vbe", "tags"} /\ pc' \in BeforeAcpi \ {"vbe", "tags"}
                 \/ pc \notin BeforeAcpi /\ pc' \notin BeforeAcpi
  <1> USE DEF BeforeAcpi, BeforePaging
  <1>1. CASE PcieStep
    <2>1. pc \in PciePlaces /\ pc' \in PciePlaces \cup {"idle"} /\ UNCHANGED kernel_vars
      BY <1>1, PcieMoves DEF PcieStep
    <2> QED BY <2>1 DEF PciePlaces, Enumerating, kernel_vars
  <1>2. CASE KernelStep /\ ~PcieStep
    BY <1>2 DEF KernelStep, Checks, SetupPageTables, GdtInitialize, MemoryInit,
        FindMcfg, InitPcieDone, TestMalloc, kernel_vars
  <1>3. CASE EnableDevice
    BY <1>3 DEF EnableDevice, pcie_enable_device, kernel_vars
  <1>4. CASE MapResource
    BY <1>4 DEF MapResource, pcie_map_phys_mmio, MapRange, kernel_vars
  <1>5. CASE Interrupt
    BY <1>5 DEF Interrupt, kernel_vars
  <1>6. CASE UNCHANGED vars
    BY <1>6 DEF vars, kernel_vars
  <1> QED BY <1>1, <1>2, <1>3, <1>4, <1>5, <1>6 DEF Next, KernelStep

(* vbe_init stops at the screen, or at the end when there is none.         *)
LEMMA VbeStep ==
    ASSUME WalkInv, VbeInit
    PROVE  WalkInv'
  <1>1. /\ pc = "vbe" /\ tag \in DOMAIN info /\ info \in Infos
        /\ screen = NULL /\ acpi_rsdp = NULL
        /\ \A a \in DOMAIN info : a < tag => info[a].type \notin {0, FRAMEBUFFER}
        /\ UNCHANGED <<info, acpi_rsdp>>
    BY DEF VbeInit, WalkInv, TagsBehind
  <1>2. CASE info[tag].type \in {0, FRAMEBUFFER}
    <2>1. /\ pc' = "tags" /\ tag' = multiboot_addr + 8
          /\ screen' = IF info[tag].type = FRAMEBUFFER THEN tag ELSE screen
      BY <1>2 DEF VbeInit
    <2>2. /\ DOMAIN info \subseteq Nat \ {0} /\ tag' \in DOMAIN info
          /\ \A a \in DOMAIN info : tag' <= a
          /\ info[tag].type = 0 => \A a \in DOMAIN info : a <= tag
      BY <1>1, <2>1, TagEnd
    <2>3. screen' \in DOMAIN info \cup {NULL}
      BY <1>1, <2>1
    <2>4. ScreenFound'
      <3>1. CASE info[tag].type = FRAMEBUFFER
        BY <1>1, <2>1, <2>2, <3>1 DEF ScreenFound, NULL
      <3>2. CASE info[tag].type # FRAMEBUFFER
        <4>1. \A a \in DOMAIN info : a <= tag /\ a \in Nat
          BY <1>2, <2>2, <3>2
        <4>2. \A a \in DOMAIN info : info[a].type # FRAMEBUFFER
          BY <1>1, <3>2, <4>1
        <4> QED BY <1>1, <4>2 DEF ScreenFound
      <3> QED BY <3>1, <3>2
    <2>5. TagsBehind' = {}
      BY <1>1, <2>2 DEF TagsBehind
    <2>6. RootFound(TagsBehind)'
      BY <2>5 DEF RootFound
    <2> QED BY <1>1, <2>1, <2>2, <2>3, <2>4, <2>6 DEF WalkInv, BeforeAcpi, BeforePaging
  <1>3. CASE info[tag].type \notin {0, FRAMEBUFFER}
    <2>1. UNCHANGED <<pc, screen>> /\ tag' = tag + tag_step(info[tag].size)
      BY <1>3 DEF VbeInit
    <2>2. tag' \in DOMAIN info /\ \A a \in DOMAIN info : a < tag' => a <= tag
      BY <1>1, <1>3, <2>1, TagStep
    <2>3. \A a \in DOMAIN info : a \in Nat
      BY <1>1, TagEnd
    <2>4. \A a \in TagsBehind' : info'[a].type \notin {0, FRAMEBUFFER}
      BY <1>1, <1>3, <2>2, <2>3 DEF TagsBehind
    <2> QED BY <1>1, <2>1, <2>2, <2>4 DEF WalkInv, BeforeAcpi, BeforePaging
  <1> QED BY <1>2, <1>3

(* The walk of kernel_main stops at the end only.                          *)
LEMMA TagsStep ==
    ASSUME WalkInv, Tags
    PROVE  WalkInv'
  <1>1. /\ pc = "tags" /\ tag \in DOMAIN info /\ info \in Infos
        /\ acpi_rsdp \in DOMAIN info \cup {NULL} /\ screen \in DOMAIN info \cup {NULL}
        /\ RootFound(TagsBehind) /\ ScreenFound
        /\ UNCHANGED <<info, screen>>
    BY DEF Tags, WalkInv, BeforeAcpi, BeforePaging
  <1>2. /\ DOMAIN info \subseteq Nat \ {0} /\ tag < info_end
        /\ info[tag].type = 0 => \A a \in DOMAIN info : a <= tag
    BY <1>1, TagEnd
  <1>3. ScreenFound'
    BY <1>1 DEF ScreenFound
  <1>4. CASE info[tag].type = 0
    <2>1. pc' = "acpi" /\ UNCHANGED <<tag, acpi_rsdp>>
      BY <1>4 DEF Tags
    <2>2. \A a \in DOMAIN info : a \in TagsBehind \/ info[a].type = 0
      <3>1. \A a \in DOMAIN info : a <= tag /\ a \in Nat /\ tag \in Nat
        BY <1>1, <1>2, <1>4
      <3>2. \A a \in DOMAIN info : a < tag \/ a = tag
        BY <3>1
      <3> QED BY <1>4, <3>2 DEF TagsBehind
    <2>3. RootFound(DOMAIN info)'
      BY <1>1, <2>1, <2>2 DEF RootFound, ACPI_NEW, ACPI_OLD
    <2> QED BY <1>1, <1>3, <2>1, <2>3 DEF WalkInv, BeforeAcpi, BeforePaging
  <1>5. CASE info[tag].type # 0
    <2>1. ~(tag >= info_end)
      <3>1. tag < info_end /\ tag \in Nat
        BY <1>1, <1>2
      <3>2. info_end \in Nat
        BY <1>1, InfoEndNat
      <3> QED BY <3>1, <3>2
    <2>2. /\ UNCHANGED pc /\ tag' = tag + tag_step(info[tag].size)
          /\ acpi_rsdp' = IF \/ info[tag].type = ACPI_NEW
                             \/ info[tag].type = ACPI_OLD /\ acpi_rsdp = NULL
                          THEN tag ELSE acpi_rsdp
      BY <1>5, <2>1 DEF Tags
    <2>3. tag' \in DOMAIN info /\ \A a \in DOMAIN info : a < tag' => a <= tag
      BY <1>1, <1>5, <2>2, TagStep
    <2>4. \A a \in TagsBehind' : a \in TagsBehind \/ a = tag
      <3>1. \A a \in DOMAIN info : a \in Nat /\ tag \in Nat
        BY <1>1, <1>2
      <3>2. \A a \in DOMAIN info : a <= tag => a < tag \/ a = tag
        BY <3>1
      <3> QED BY <1>1, <2>3, <3>2 DEF TagsBehind
    <2>5. tag # NULL
      BY <1>1, <1>2 DEF NULL
    <2>6. RootFound(TagsBehind)'
      BY <1>1, <2>2, <2>4, <2>5 DEF RootFound, ACPI_NEW, ACPI_OLD
    <2>7. acpi_rsdp' \in DOMAIN info \cup {NULL}
      BY <1>1, <2>2
    <2> QED BY <1>1, <1>3, <2>2, <2>3, <2>6, <2>7 DEF WalkInv, BeforeAcpi, BeforePaging
  <1> QED BY <1>4, <1>5

(* Every step keeps what the walks have found.                             *)
LEMMA WalkStep ==
    ASSUME LoopInv, WalkInv, [Next]_vars
    PROVE  WalkInv'
  <1>1. CASE IdtInitialize
    <2>1. /\ pc = "idt" /\ pc' = "vbe" /\ tag' = multiboot_addr + 8
          /\ UNCHANGED <<info, screen, acpi_rsdp>>
      BY <1>1 DEF IdtInitialize
    <2>2. info \in Infos /\ screen = NULL /\ acpi_rsdp = NULL
      BY <2>1 DEF WalkInv, BeforeAcpi, BeforePaging
    <2>3. /\ tag' \in DOMAIN info /\ DOMAIN info \subseteq Nat
          /\ \A a \in DOMAIN info : tag' <= a
      BY <2>1, <2>2, InfoAssumption DEF LaidOut
    <2>4. TagsBehind' = {}
      BY <2>1, <2>3 DEF TagsBehind
    <2> QED BY <2>1, <2>2, <2>3, <2>4 DEF WalkInv, BeforeAcpi, BeforePaging
  <1>2. CASE /\ UNCHANGED <<info, tag, screen, acpi_rsdp>>
             /\ \/ pc' = pc
                \/ pc \in BeforeAcpi \ {"vbe", "tags"} /\ pc' \in BeforeAcpi \ {"vbe", "tags"}
                \/ pc \notin BeforeAcpi /\ pc' \notin BeforeAcpi
    <2>1. /\ TagsBehind' = TagsBehind /\ ScreenFound' = ScreenFound
          /\ \A seen : RootFound(seen)' = RootFound(seen)
      BY <1>2 DEF TagsBehind, ScreenFound, RootFound
    <2>2. RootFound(TagsBehind)' = RootFound(TagsBehind) /\ RootFound(DOMAIN info)' = RootFound(DOMAIN info)
      BY <1>2 DEF TagsBehind, RootFound
    <2> QED BY <1>2, <2>1, <2>2 DEF WalkInv, BeforeAcpi, BeforePaging
  <1> QED BY <1>1, <1>2, WalkFrame, VbeStep, TagsStep

-----------------------------------------------------------------------------
(*----------------------------- the enumeration ---------------------------*)

(* The kernel learns the root table when initPcie has returned: before     *)
(* that nothing is mapped through the window, and afterwards only what     *)
(* drivers ask for.                                                        *)
RootInv ==
    /\ g_pml4_virt \in {NULL, page_table_l4}
    /\ pc \notin Finished \cup {"mmio"} => g_pml4_virt = NULL
    /\ pc = "mmio" => loop.next = "idle"

(* That stays so.                                                          *)
LEMMA RootStep ==
    ASSUME LoopInv, RootInv, [Next]_vars
    PROVE  RootInv'
  <1> USE DEF Finished
  <1>1. CASE PcieStep
    <2>1. PcieNext /\ (pc \in PciePlaces /\ pc' \in PciePlaces \cup {"idle"})
      BY <1>1, PcieMoves DEF PcieStep
    <2>2. CASE MapBar
      <3>1. pc = "map_bar" /\ UNCHANGED g_pml4_virt /\ g_pml4_virt = NULL
        BY <2>2 DEF MapBar, MapRange, RootInv
      <3>2. pc' = "bar"
        BY <2>2, <3>1 DEF MapBar, MapRange
      <3> QED BY <3>1, <3>2 DEF RootInv
    <2>3. CASE MapMsixTable
      <3>1. pc = "bar" /\ UNCHANGED g_pml4_virt /\ g_pml4_virt = NULL
        BY <2>3 DEF MapMsixTable, MapRange, RootInv
      <3>2. pc' \in {"bridge", "program"}
        BY <2>3, <3>1 DEF MapMsixTable, MapRange
      <3> QED BY <3>1, <3>2 DEF RootInv
    <2>4. CASE MapMmio
      <3>1. pc = "mmio" /\ loop.next = "idle" /\ UNCHANGED g_pml4_virt
        BY <2>4 DEF MapMmio, RootInv
      <3>2. pc' \in {"mmio", "idle"} /\ loop'.next = "idle"
        BY <2>4, <3>1 DEF MapMmio, LoopInv
      <3> QED BY <3>1, <3>2 DEF RootInv
    <2>5. CASE NextSegment \/ MapEcam \/ Probe \/ Visit \/ Bridge \/ Return \/ SizeBar \/ Restore
               \/ ProgramEntry \/ EnableMsix
      <3>1. UNCHANGED g_pml4_virt /\ pc \notin Finished \cup {"mmio"}
        BY <2>5 DEF NextSegment, MapEcam, Probe, Visit, Bridge, Return, SizeBar, Restore,
            ProgramEntry, EnableMsix
      <3>2. pc' # "mmio"
        BY <2>5 DEF NextSegment, MapEcam, Probe, Visit, Bridge, Return, SizeBar, Restore,
            ProgramEntry, EnableMsix
      <3> QED BY <3>1, <3>2 DEF RootInv
    <2> QED BY <2>1, <2>2, <2>3, <2>4, <2>5 DEF PcieNext
  <1>2. CASE KernelStep /\ ~PcieStep
    BY <1>2 DEF KernelStep, Checks, SetupPageTables, GdtInitialize, MemoryInit,
        IdtInitialize, VbeInit, Tags, FindMcfg, InitPcieDone, TestMalloc,
        pcie_set_pml4_and_offset, pcie_vars, RootInv
  <1>3. CASE EnableDevice
    BY <1>3 DEF EnableDevice, pcie_enable_device, RootInv
  <1>4. CASE MapResource
    <2>1. pc = "idle" /\ UNCHANGED g_pml4_virt /\ pc' \in {"idle", "mmio"}
      BY <1>4 DEF MapResource, pcie_map_phys_mmio, MapRange
    <2>2. loop'.next = "idle"
      BY <1>4 DEF MapResource, pcie_map_phys_mmio, MapRange, LoopInv
    <2> QED BY <2>1, <2>2 DEF RootInv
  <1>5. CASE Interrupt
    BY <1>5 DEF Interrupt, pcie_vars, RootInv
  <1>6. CASE UNCHANGED vars
    BY <1>6 DEF vars, pcie_vars, RootInv
  <1> QED BY <1>1, <1>2, <1>3, <1>4, <1>5, <1>6 DEF Next, KernelStep

(* The calls of pcie_enumerate_devices, and the function in hand: it       *)
(* answers as long as its call is at it.                                   *)
Calls == [bus : Nat, end : Nat, dev : 0..(DEVICES - 1), func : 0..(FUNCTIONS - 1), max : 0..FUNCTIONS]

CallOk(c) == c \in Calls /\ c.bus <= c.end + 1 /\ c.end < BYTE

BarPlaces == {"bar", "restore", "map_bar", "program", "bridge"}

StackInv ==
    /\ segment \in 0..Len(machine.mcfg)
    /\ pc = "ecam" => segment \in 1..Len(machine.mcfg)
    /\ stack \in Seq(Calls)
    /\ \A k \in 1..Len(stack) : CallOk(stack[k])
    /\ pc \in BarPlaces \cup {"walk"} => stack # <<>>
    /\ pc \in BarPlaces =>
          /\ top.bus <= top.end /\ Answers(top.bus, top.dev, top.func) # {}
          /\ Mapped(top.bus, top.dev, top.func)

(* What the loops over devices and functions make of a call.               *)
LEMMA NextCalls ==
    ASSUME NEW c, CallOk(c), c.bus <= c.end
    PROVE  CallOk(NextDevice(c)) /\ CallOk(NextFunction(c))
  <1>1. /\ DEVICES \in Nat \ {0} /\ FUNCTIONS \in Nat \ {0}
        /\ c \in Calls /\ c.bus \in Nat /\ c.end \in Nat /\ c.dev \in 0..(DEVICES - 1)
        /\ c.func \in 0..(FUNCTIONS - 1) /\ c.max \in 0..FUNCTIONS /\ c.end < BYTE
        /\ c = [bus |-> c.bus, end |-> c.end, dev |-> c.dev, func |-> c.func, max |-> c.max]
    BY PcieAssumption DEF CallOk, Calls
  <1>2. CallOk(NextDevice(c))
    <2>1. CASE c.dev + 1 < DEVICES
      <3>1. NextDevice(c) = [bus |-> c.bus, end |-> c.end, dev |-> c.dev + 1, func |-> 0, max |-> 0]
        BY <1>1, <2>1 DEF NextDevice
      <3> QED BY <1>1, <2>1, <3>1 DEF CallOk, Calls
    <2>2. CASE ~(c.dev + 1 < DEVICES)
      <3>1. NextDevice(c) = [bus |-> c.bus + 1, end |-> c.end, dev |-> 0, func |-> 0, max |-> 0]
        BY <2>2 DEF NextDevice, Call
      <3> QED BY <1>1, <3>1 DEF CallOk, Calls
    <2> QED BY <2>1, <2>2
  <1>3. CASE c.func + 1 < c.max
    <2>1. NextFunction(c) = [bus |-> c.bus, end |-> c.end, dev |-> c.dev, func |-> c.func + 1, max |-> c.max]
      BY <1>1, <1>3 DEF NextFunction
    <2>2. CallOk(NextFunction(c))
      BY <1>1, <1>3, <2>1 DEF CallOk, Calls
    <2> QED BY <1>2, <2>2
  <1>4. CASE ~(c.func + 1 < c.max)
    BY <1>2, <1>4 DEF NextFunction
  <1> QED BY <1>3, <1>4

(* The call in progress is the last; when it is replaced the others stay.  *)
LEMMA TopOk ==
    ASSUME StackInv, stack # <<>>
    PROVE  /\ Len(stack) \in 1..Len(stack) /\ top = stack[Len(stack)] /\ CallOk(top)
           /\ top.bus \in Nat /\ top.dev \in 0..(DEVICES - 1) /\ top.func \in 0..(FUNCTIONS - 1)
  <1>1. stack \in Seq(Calls) /\ Len(stack) \in Nat /\ Len(stack) # 0
    BY DEF StackInv
  <1>2. Len(stack) \in 1..Len(stack) /\ top = stack[Len(stack)]
    BY <1>1 DEF top, Last
  <1>3. CallOk(top)
    BY <1>2 DEF StackInv
  <1> QED BY <1>2, <1>3 DEF CallOk, Calls

StackOk(s) == s \in Seq(Calls) /\ \A k \in 1..Len(s) : CallOk(s[k])

(* Replacing the call on top keeps the calls in order.                     *)
LEMMA WithTopOk ==
    ASSUME StackInv, stack # <<>>, NEW c, CallOk(c)
    PROVE  /\ StackOk(WithTop(c)) /\ WithTop(c) # <<>>
           /\ Len(WithTop(c)) = Len(stack) /\ Last(WithTop(c)) = c
  <1>1. stack \in Seq(Calls) /\ Len(stack) \in 1..Len(stack) /\ c \in Calls
    BY TopOk DEF StackInv, CallOk
  <1>2. WithTop(c) \in Seq(Calls) /\ Len(WithTop(c)) = Len(stack)
    BY <1>1 DEF WithTop
  <1>3. \A k \in 1..Len(stack) : WithTop(c)[k] = IF k = Len(stack) THEN c ELSE stack[k]
    BY <1>1 DEF WithTop
  <1>4. \A k \in 1..Len(WithTop(c)) : CallOk(WithTop(c)[k])
    BY <1>2, <1>3 DEF StackInv
  <1>5. WithTop(c) # <<>>
    BY <1>1, <1>2
  <1> QED BY <1>1, <1>2, <1>3, <1>4, <1>5 DEF StackOk, Last

(* Only these steps touch the calls; while a function is in hand nothing   *)
(* is mapped, and it stays in hand.                                        *)
LEMMA StackFrame ==
    ASSUME LoopInv, RootInv, [Next]_vars
    PROVE  \/ NextSegment \/ MapEcam \/ Probe \/ Visit \/ Bridge \/ Return
           \/ /\ UNCHANGED <<machine, stack, segment>>
              /\ \/ pc' = pc /\ pc \in {"ecam", "walk"}
                 \/ pc \in BarPlaces /\ pc' \in BarPlaces /\ UNCHANGED vm
                 \/ /\ pc \notin BarPlaces \cup {"walk", "ecam"}
                    /\ pc' \notin BarPlaces \cup {"walk", "ecam"}
  <1> USE DEF BarPlaces
  <1>1. CASE SizeBar \/ Restore \/ ProgramEntry \/ EnableMsix
    BY <1>1 DEF SizeBar, Restore, ProgramEntry, EnableMsix
  <1>2. CASE MapBar
    <2>1. pc = "map_bar" /\ UNCHANGED <<machine, stack, segment, vm>> /\ g_pml4_virt = NULL
      BY <1>2 DEF MapBar, RootInv, Finished
    <2>2. pc' = "bar"
      BY <1>2, <2>1 DEF MapBar, MapRange
    <2> QED BY <2>1, <2>2
  <1>3. CASE MapMsixTable
    <2>1. pc = "bar" /\ UNCHANGED <<machine, stack, segment, vm>> /\ g_pml4_virt = NULL
      BY <1>3 DEF MapMsixTable, RootInv, Finished
    <2>2. pc' \in {"bridge", "program"}
      BY <1>3, <2>1 DEF MapMsixTable, MapRange
    <2> QED BY <2>1, <2>2
  <1>4. CASE MapMmio
    BY <1>4 DEF MapMmio, RootInv
  <1>5. CASE KernelStep /\ ~PcieStep
    BY <1>5 DEF KernelStep, Checks, SetupPageTables, GdtInitialize, MemoryInit,
        IdtInitialize, VbeInit, Tags, FindMcfg, InitPcieDone, TestMalloc,
        pcie_set_pml4_and_offset, pcie_vars
  <1>6. CASE EnableDevice
    BY <1>6 DEF EnableDevice, pcie_enable_device
  <1>7. CASE MapResource
    BY <1>7 DEF MapResource, pcie_map_phys_mmio, MapRange
  <1>8. CASE Interrupt
    BY <1>8 DEF Interrupt, pcie_vars
  <1>9. CASE UNCHANGED vars
    BY <1>9 DEF vars, pcie_vars
  <1> QED BY <1>1, <1>2, <1>3, <1>4, <1>5, <1>6, <1>7, <1>8, <1>9
          DEF Next, KernelStep, PcieStep, PcieNext

(* The function in hand answers.                                           *)
LEMMA HereAnswers ==
    ASSUME StackInv, pc \in BarPlaces
    PROVE  here \in Answers(top.bus, top.dev, top.func) /\ here \in DOMAIN machine.functions
  BY DEF StackInv, here, Answers

(* A call for buses a byte numbers.                                        *)
LEMMA NewCall ==
    ASSUME NEW bus \in Nat, NEW end \in Nat, bus <= end + 1, end < BYTE
    PROVE  CallOk(Call(bus, end))
  <1>1. 0 \in 0..(DEVICES - 1) /\ 0 \in 0..(FUNCTIONS - 1) /\ 0 \in 0..FUNCTIONS
    BY PcieAssumption
  <1> QED BY <1>1 DEF CallOk, Calls, Call

(* Each step of the enumeration leaves calls that are sound.               *)
LEMMA NextSegmentStack ==
    ASSUME StackInv, NextSegment
    PROVE  StackInv'
  <1>1. segment \in Nat /\ segment + 1 \in 1..Len(machine.mcfg) /\ pc' = "ecam"
        /\ segment' = segment + 1 /\ UNCHANGED <<machine, stack>>
    <2>1. segment \in 0..Len(machine.mcfg)
      BY DEF StackInv
    <2>2. segment < Len(machine.mcfg) /\ pc' = "ecam" /\ segment' = segment + 1 /\ UNCHANGED <<machine, stack>>
      BY DEF NextSegment
    <2> QED BY <2>1, <2>2
  <1> QED BY <1>1 DEF StackInv, BarPlaces

(* The first call begins with the first bus of the entry.                  *)
LEMMA MapEcamStack ==
    ASSUME StackInv, machine \in Machines, MapEcam
    PROVE  StackInv'
  <1>1. pc = "ecam" /\ UNCHANGED <<machine, segment>> /\ segment \in 1..Len(machine.mcfg)
    BY DEF MapEcam, StackInv
  <1>2. CASE UNCHANGED <<pc, stack>>
    BY <1>1, <1>2 DEF StackInv, BarPlaces
  <1>3. CASE /\ stack' = <<Call(machine.mcfg[segment].start, machine.mcfg[segment].end)>>
             /\ pc' = "walk"
    <2> DEFINE e == machine.mcfg[segment]
    <2>1. e.start \in Nat /\ e.end \in Nat /\ e.start <= e.end /\ e.end < BYTE
      <3>1. WellFormed(machine)
        BY MachineAssumption
      <3>2. e \in [base : Nat, start : 0..(BYTE - 1), end : 0..(BYTE - 1)]
        BY <1>1, <3>1, ElementOfSeq DEF WellFormed
      <3>3. e.start <= e.end
        BY <1>1, <3>1 DEF WellFormed
      <3>4. e.start \in 0..(BYTE - 1) /\ e.end \in 0..(BYTE - 1) /\ BYTE \in Nat
        BY <3>2, PcieAssumption
      <3> QED BY <3>3, <3>4
    <2> HIDE DEF e
    <2> DEFINE c == Call(e.start, e.end)
    <2>2. CallOk(c)
      BY <2>1, NewCall
    <2>3. stack' = <<c>>
      BY <1>3 DEF e
    <2> HIDE DEF c
    <2>4. c \in Calls
      BY <2>2 DEF CallOk
    <2>5. stack' \in Seq(Calls) /\ Len(stack') = 1 /\ stack'[1] = c
      BY <2>3, <2>4
    <2>6. \A k \in 1..Len(stack') : CallOk(stack'[k])
      BY <2>2, <2>5
    <2> QED BY <1>1, <1>3, <2>3, <2>5, <2>6 DEF StackInv, BarPlaces
  <1> QED BY <1>2, <1>3 DEF MapEcam

(* Looking for a device goes on, or stays with the one found.              *)
LEMMA ProbeStack ==
    ASSUME StackInv, Probe
    PROVE  StackInv'
  <1>1. /\ pc = "walk" /\ top.bus <= top.end
        /\ UNCHANGED <<machine, segment, pc>> /\ stack # <<>>
    BY DEF Probe, StackInv
  <1>2. PICK c : stack' = WithTop(c) /\ CallOk(c)
    <2>1. CallOk(top) /\ CallOk(NextDevice(top))
      BY <1>1, TopOk, NextCalls
    <2>2. \A n \in 0..FUNCTIONS : CallOk([top EXCEPT !.max = n])
      BY <2>1 DEF CallOk, Calls
    <2>3. FUNCTIONS \in 0..FUNCTIONS /\ 1 \in 0..FUNCTIONS
      BY PcieAssumption
    <2>4. PICK n \in 0..FUNCTIONS : stack' = WithTop(NextDevice(top)) \/ stack' = WithTop([top EXCEPT !.max = n])
      BY <2>3 DEF Probe
    <2> QED BY <2>1, <2>2, <2>4
  <1>3. StackOk(stack') /\ stack' # <<>>
    BY <1>1, <1>2, WithTopOk
  <1> QED BY <1>1, <1>3 DEF StackInv, StackOk, BarPlaces

(* Visiting a function goes on, or has it in hand.                         *)
LEMMA VisitStack ==
    ASSUME StackInv, Visit
    PROVE  StackInv'
  <1>1. /\ pc = "walk" /\ top.bus <= top.end /\ UNCHANGED <<machine, segment, vm>> /\ stack # <<>>
    BY DEF Visit, StackInv
  <1>2. CASE Answers(top.bus, top.dev, top.func) = {}
    <2>1. stack' = WithTop(NextFunction(top)) /\ UNCHANGED pc
      BY <1>2 DEF Visit
    <2>2. CallOk(NextFunction(top))
      BY <1>1, TopOk, NextCalls
    <2>3. StackOk(stack') /\ stack' # <<>>
      BY <1>1, <2>1, <2>2, WithTopOk
    <2> QED BY <1>1, <2>1, <2>3 DEF StackInv, StackOk, BarPlaces
  <1>3. CASE Answers(top.bus, top.dev, top.func) # {}
    <2>1. UNCHANGED stack /\ pc' \in {"bar", "bridge"} /\ Mapped(top.bus, top.dev, top.func)
      BY <1>3 DEF Visit
    <2>2. UNCHANGED <<top, Answers(top.bus, top.dev, top.func), Mapped(top.bus, top.dev, top.func)>>
      BY <1>1, <2>1 DEF top, Answers, Mapped, Address, ecam_virt_base, ConfigPage
    <2> QED BY <1>1, <1>3, <2>1, <2>2 DEF StackInv, BarPlaces
  <1> QED BY <1>2, <1>3

(* The bus numbers of a bridge are bytes.                                  *)
LEMMA ByteDigits ==
    ASSUME NEW n \in Nat
    PROVE  /\ (n \div BYTE) % BYTE \in Nat /\ (n \div BYTE) % BYTE < BYTE
           /\ (n \div (BYTE * BYTE)) % BYTE \in Nat /\ (n \div (BYTE * BYTE)) % BYTE < BYTE
  <1>1. BYTE \in Nat \ {0}
    BY PcieAssumption
  <1> DEFINE square == BYTE * BYTE
  <1>2. square \in Nat \ {0}
    BY <1>1
  <1> HIDE DEF square
  <1>3. n \div BYTE \in Nat /\ n \div square \in Nat
    BY <1>1, <1>2
  <1>4. \A q \in Nat : q % BYTE \in Nat /\ q % BYTE < BYTE
    BY <1>1
  <1> QED BY <1>3, <1>4 DEF square

(* Nor does a call on top of those there are disturb them.                 *)
LEMMA AppendOk ==
    ASSUME NEW s, StackOk(s), NEW c, CallOk(c)
    PROVE  StackOk(Append(s, c)) /\ Append(s, c) # <<>>
  <1>1. s \in Seq(Calls) /\ c \in Calls
    BY DEF StackOk, CallOk
  <1>2. Append(s, c) \in Seq(Calls) /\ Len(Append(s, c)) = Len(s) + 1
    BY <1>1
  <1>3. \A k \in 1..(Len(s) + 1) : Append(s, c)[k] = IF k = Len(s) + 1 THEN c ELSE s[k]
    BY <1>1
  <1>4. \A k \in 1..(Len(s) + 1) : CallOk(Append(s, c)[k])
    <2> TAKE k \in 1..(Len(s) + 1)
    <2>1. CASE k = Len(s) + 1
      BY <1>3, <2>1
    <2>2. CASE k # Len(s) + 1
      <3>1. k \in 1..Len(s)
        BY <1>1, <2>2
      <3> QED BY <1>3, <2>2, <3>1 DEF StackOk
    <2> QED BY <2>1, <2>2
  <1>5. Len(Append(s, c)) # 0
    BY <1>1, <1>2
  <1>6. Append(s, c) # <<>>
    BY <1>5
  <1> QED BY <1>2, <1>4, <1>6 DEF StackOk

(* A bridge has its buses walked by a call on top.                         *)
LEMMA BridgeStack ==
    ASSUME StackInv, BarInv, Bridge
    PROVE  StackInv'
  <1>1. /\ pc = "bridge" /\ pc' = "walk" /\ UNCHANGED <<machine, segment>>
        /\ stack # <<>> /\ top.bus <= top.end
    BY DEF Bridge, StackInv, BarPlaces
  <1>2. here \in DOMAIN machine.functions /\ machine \in Machines /\ DOMAIN config = DOMAIN machine.functions
    BY <1>1, HereAnswers DEF BarInv, ConfigShape, BarPlaces
  <1> DEFINE numbers     == config[here].bar[2]
             secondary   == (numbers \div BYTE) % BYTE
             subordinate == (numbers \div (BYTE * BYTE)) % BYTE
             onward      == WithTop(NextFunction(top))
  <1>3. numbers \in Nat
    <2>1. numbers = register(here, 2).value
      BY <1>1, <1>2 DEF BarInv, Assigned
    <2>2. Settled(register(here, 2))
      BY <1>2, RegistersSettled
    <2> QED BY <2>1, <2>2 DEF Settled
  <1>4. secondary \in Nat /\ subordinate \in Nat /\ subordinate < BYTE
    BY <1>3, ByteDigits
  <1>5. \/ stack' = onward
        \/ subordinate >= secondary /\ stack' = Append(onward, Call(secondary, subordinate))
    BY DEF Bridge
  <1> HIDE DEF numbers, secondary, subordinate, onward
  <1>6. StackOk(onward) /\ onward # <<>>
    BY <1>1, TopOk, NextCalls, WithTopOk DEF onward
  <1>7. subordinate >= secondary => CallOk(Call(secondary, subordinate))
    BY <1>4, NewCall
  <1>8. StackOk(stack') /\ stack' # <<>>
    BY <1>5, <1>6, <1>7, AppendOk
  <1> QED BY <1>1, <1>8 DEF StackInv, StackOk, BarPlaces

(* What is left when a call returns was in order before it.                *)
LEMMA ReturnStack ==
    ASSUME StackInv, Return
    PROVE  StackInv'
  <1>1. /\ pc = "walk" /\ UNCHANGED <<machine, segment>>
        /\ stack' = Front(stack) /\ stack \in Seq(Calls) /\ stack # <<>>
        /\ pc' = IF Len(stack) = 1 THEN "segment" ELSE "walk"
    BY DEF Return, StackInv
  <1>2. /\ stack' = [k \in 1..(Len(stack) - 1) |-> stack[k]] /\ Len(stack) \in Nat \ {0}
    BY <1>1 DEF Front
  <1>3. stack' \in Seq(Calls) /\ Len(stack') = Len(stack) - 1
    BY <1>1, <1>2
  <1>4. \A k \in 1..Len(stack') : stack'[k] = stack[k] /\ k \in 1..Len(stack)
    BY <1>2, <1>3
  <1>5. \A k \in 1..Len(stack') : CallOk(stack'[k])
    BY <1>4 DEF StackInv
  <1>6. pc' = "walk" => Len(stack') # 0
    BY <1>1, <1>2, <1>3
  <1>7. pc' = "walk" => stack' # <<>>
    BY <1>6
  <1> QED BY <1>1, <1>3, <1>5, <1>7 DEF StackInv, BarPlaces

(* So every step keeps the calls in order.                                 *)
LEMMA StackStep ==
    ASSUME LoopInv, RootInv, BarInv, StackInv, [Next]_vars
    PROVE  StackInv'
  <1>1. machine \in Machines
    BY DEF BarInv, ConfigShape
  <1>2. CASE /\ UNCHANGED <<machine, stack, segment>>
             /\ \/ pc' = pc /\ pc \in {"ecam", "walk"}
                \/ /\ pc \notin BarPlaces \cup {"walk", "ecam"}
                   /\ pc' \notin BarPlaces \cup {"walk", "ecam"}
    BY <1>2 DEF StackInv, BarPlaces
  <1>3. CASE UNCHANGED <<machine, stack, segment, vm>> /\ pc \in BarPlaces /\ pc' \in BarPlaces
    <2>1. UNCHANGED <<top, Answers(top.bus, top.dev, top.func), Mapped(top.bus, top.dev, top.func)>>
      BY <1>3 DEF top, Answers, Mapped, Address, ecam_virt_base, ConfigPage
    <2> QED BY <1>3, <2>1 DEF StackInv, BarPlaces
  <1> QED BY <1>1, <1>2, <1>3, StackFrame, NextSegmentStack, MapEcamStack, ProbeStack,
          VisitStack, BridgeStack, ReturnStack

-----------------------------------------------------------------------------
(*-------------------------- the table of devices -------------------------*)

(* The table of devices, and the BARs in hand.                             *)
DeviceRecords ==
    [fn : Nat \X Nat \X Nat, bars : [0..5 -> Int], bar_size : [0..5 -> Int], bars_virt : [0..5 -> Int]]

(* A record's bars, sizes and virtual bases are written one at a time.     *)
Updated(T, U, bars, sizes) ==
    /\ U \in Seq(DeviceRecords) /\ Len(U) = Len(T)
    /\ \A k \in 1..Len(T) : k # Len(T) => U[k] = T[k]
    /\ U[Len(T)].fn = T[Len(T)].fn
    /\ U[Len(T)].bars = bars /\ U[Len(T)].bar_size = sizes

(* The table with another last record.                                     *)
LEMMA LastReplaced ==
    ASSUME NEW T \in Seq(DeviceRecords), T # <<>>, NEW d \in DeviceRecords, d.fn = T[Len(T)].fn,
           NEW U, U = [T EXCEPT ![Len(T)] = d]
    PROVE  Updated(T, U, d.bars, d.bar_size)
  <1>1. Len(T) \in 1..Len(T)
    <2>1. Len(T) \in Nat /\ Len(T) # 0
      OBVIOUS
    <2> QED BY <2>1
  <1>2. U \in Seq(DeviceRecords) /\ Len(U) = Len(T)
    BY <1>1
  <1>3. \A k \in 1..Len(T) : U[k] = IF k = Len(T) THEN d ELSE T[k]
    BY <1>1
  <1> QED BY <1>1, <1>2, <1>3 DEF Updated

(* The last record is one.                                                 *)
LEMMA LastRecord ==
    ASSUME NEW T \in Seq(DeviceRecords), T # <<>>
    PROVE  /\ Len(T) \in 1..Len(T) /\ Last(T) = T[Len(T)] /\ Last(T) \in DeviceRecords
           /\ T[Len(T)] \in DeviceRecords
  <1>1. Len(T) \in Nat /\ Len(T) # 0
    OBVIOUS
  <1>2. Len(T) \in 1..Len(T)
    BY <1>1
  <1>3. T[Len(T)] \in DeviceRecords
    BY <1>2, ElementOfSeq
  <1> QED BY <1>2, <1>3 DEF Last

WithRow(row, i, v)  == [row EXCEPT ![i] = v]
WithBar(T, i, v)    == [T EXCEPT ![Len(T)].bars[i] = v]
WithSize(T, i, v)   == [T EXCEPT ![Len(T)].bar_size[i] = v]
WithVirt(T, i, v)   == [T EXCEPT ![Len(T)].bars_virt[i] = v]

(* A base, a size or an address more leaves the records what they are.     *)
LEMMA BarUpdated ==
    ASSUME NEW T \in Seq(DeviceRecords), T # <<>>, NEW i \in 0..5, NEW v \in Int
    PROVE  Updated(T, WithBar(T, i, v), WithRow(T[Len(T)].bars, i, v), T[Len(T)].bar_size)
  <1> DEFINE d == [T[Len(T)] EXCEPT !.bars[i] = v]
             row == WithRow(T[Len(T)].bars, i, v)
             U == WithBar(T, i, v)
  <1>1. T[Len(T)] \in DeviceRecords
    BY LastRecord
  <1>2. /\ d \in DeviceRecords /\ d.fn = T[Len(T)].fn
        /\ d.bars = row /\ d.bar_size = T[Len(T)].bar_size
    BY <1>1 DEF DeviceRecords, WithRow
  <1>3. U = [T EXCEPT ![Len(T)] = d]
    BY DEF WithBar
  <1> HIDE DEF d, row, U
  <1>4. Updated(T, U, d.bars, d.bar_size)
    BY <1>2, <1>3, LastReplaced
  <1>5. Updated(T, U, row, T[Len(T)].bar_size)
    BY <1>2, <1>4
  <1> QED BY <1>5 DEF row, U

(* The same for a size.                                                    *)
LEMMA SizeUpdated ==
    ASSUME NEW T \in Seq(DeviceRecords), T # <<>>, NEW i \in 0..5, NEW v \in Int
    PROVE  Updated(T, WithSize(T, i, v), T[Len(T)].bars, WithRow(T[Len(T)].bar_size, i, v))
  <1> DEFINE d == [T[Len(T)] EXCEPT !.bar_size[i] = v]
             row == WithRow(T[Len(T)].bar_size, i, v)
             U == WithSize(T, i, v)
  <1>1. T[Len(T)] \in DeviceRecords
    BY LastRecord
  <1>2. /\ d \in DeviceRecords /\ d.fn = T[Len(T)].fn
        /\ d.bars = T[Len(T)].bars /\ d.bar_size = row
    BY <1>1 DEF DeviceRecords, WithRow
  <1>3. U = [T EXCEPT ![Len(T)] = d]
    BY DEF WithSize
  <1> HIDE DEF d, row, U
  <1>4. Updated(T, U, d.bars, d.bar_size)
    BY <1>2, <1>3, LastReplaced
  <1>5. Updated(T, U, T[Len(T)].bars, row)
    BY <1>2, <1>4
  <1> QED BY <1>5 DEF row, U

(* And for an address in the window.                                       *)
LEMMA VirtUpdated ==
    ASSUME NEW T \in Seq(DeviceRecords), T # <<>>, NEW i \in 0..5, NEW v \in Int
    PROVE  Updated(T, WithVirt(T, i, v), T[Len(T)].bars, T[Len(T)].bar_size)
  <1> DEFINE d == [T[Len(T)] EXCEPT !.bars_virt[i] = v]
             row == WithRow(T[Len(T)].bars_virt, i, v)
             U == WithVirt(T, i, v)
  <1>1. T[Len(T)] \in DeviceRecords
    BY LastRecord
  <1>2. /\ d \in DeviceRecords /\ d.fn = T[Len(T)].fn
        /\ d.bars = T[Len(T)].bars /\ d.bar_size = T[Len(T)].bar_size
    BY <1>1 DEF DeviceRecords, WithRow
  <1>3. U = [T EXCEPT ![Len(T)] = d]
    BY DEF WithVirt
  <1> HIDE DEF d, row, U
  <1>4. Updated(T, U, d.bars, d.bar_size)
    BY <1>2, <1>3, LastReplaced
  <1>5. Updated(T, U, T[Len(T)].bars, T[Len(T)].bar_size)
    BY <1>2, <1>4
  <1> QED BY <1>5 DEF row, U

(* What is read back from a register after all ones were written to it.    *)
Ones(fn, i) == written(register(fn, i), REG_MOD - 1)

(* The registers that a BAR has.                                           *)
LEMMA RegisterOfBar ==
    ASSUME machine \in Machines, NEW fn \in DOMAIN machine.functions,
           NEW i \in DOMAIN machine.functions[fn].bars
    PROVE  LET b == machine.functions[fn].bars[i] IN
           /\ BlockOf(b) /\ i \in 0..5 /\ b.size \in Nat \ {0}
           /\ b.kind = "io"    => register(fn, i) = Register(b.base + 1, REG_MOD - b.size + 1)
           /\ b.kind = "io16"  => register(fn, i) = Register(b.base + 1, HALF_MOD - b.size + 1)
           /\ b.kind = "mem32" => register(fn, i) = Register(b.base, REG_MOD - b.size)
           /\ b.kind = "mem64" =>
                 /\ register(fn, i) = Register((b.base % REG_MOD) + 4, REG_MOD - Grain(b) + 4)
                 /\ register(fn, i + 1) = Register(b.base \div REG_MOD, REG_MOD - UpperGrain(b))
                 /\ i + 1 \in 0..5
  <1> DEFINE f == machine.functions[fn]
             b == f.bars[i]
  <1>1. /\ DOMAIN f.bars \subseteq IF f.bridge THEN 0..1 ELSE 0..5
        /\ \A j \in DOMAIN f.bars :
              /\ BlockOf(f.bars[j])
              /\ f.bars[j].kind = "mem64" =>
                    j + 1 \notin DOMAIN f.bars /\ j # (IF f.bridge THEN 1 ELSE 5)
    BY MachineAssumption DEF WellFormed
  <1>2. /\ BlockOf(b) /\ i \in 0..5 /\ ~(f.bridge /\ i \in 2..5)
        /\ ~(i - 1 \in DOMAIN f.bars /\ f.bars[i - 1].kind = "mem64")
    BY <1>1
  <1>3. b.kind = "io" => register(fn, i) = Register(b.base + 1, REG_MOD - b.size + 1)
    BY <1>2 DEF register
  <1>4. b.kind = "io16" => register(fn, i) = Register(b.base + 1, HALF_MOD - b.size + 1)
    BY <1>2 DEF register
  <1>5. b.kind = "mem32" => register(fn, i) = Register(b.base, REG_MOD - b.size)
    BY <1>2 DEF register
  <1>6. b.kind = "mem64" => register(fn, i) = Register((b.base % REG_MOD) + 4, REG_MOD - Grain(b) + 4)
    BY <1>2 DEF register
  <1>7. ASSUME b.kind = "mem64"
        PROVE  /\ register(fn, i + 1) = Register(b.base \div REG_MOD, REG_MOD - UpperGrain(b))
               /\ i + 1 \in 0..5
    <2>1. i + 1 \notin DOMAIN f.bars /\ i # (IF f.bridge THEN 1 ELSE 5) /\ i \in 0..5
      BY <1>1, <1>2, <1>7
    <2>2. i + 1 \in 0..5 /\ ~(f.bridge /\ i + 1 \in 2..5)
      BY <1>1, <2>1
    <2>3. (i + 1) - 1 = i
      BY <1>2
    <2> QED BY <1>7, <2>1, <2>2, <2>3 DEF register
  <1> QED BY <1>2, <1>3, <1>4, <1>5, <1>6, <1>7 DEF BlockOf

(* What a register reads after all ones is in the register.                *)
LEMMA OnesOf ==
    ASSUME NEW fn, NEW i, NEW value, NEW ones, register(fn, i) = Register(value, ones)
    PROVE  Ones(fn, i) = ones /\ register(fn, i).value = value
  BY DEF Ones, written, Register

(* And it is a number.                                                     *)
LEMMA OnesRead ==
    ASSUME machine \in Machines, NEW fn \in DOMAIN machine.functions, NEW i \in 0..6
    PROVE  Ones(fn, i) \in Int
  <1> DEFINE f == machine.functions[fn]
             wide == i - 1 \in DOMAIN f.bars /\ f.bars[i - 1].kind = "mem64"
  <1>1. REG_MOD \in Nat /\ HALF_MOD \in Nat
    BY RegisterModulus, HalfModulus
  <1>2. CASE f.bridge /\ i \in 2..5
    <2>1. i \in 2..5 /\ f.bridge
      BY <1>2
    <2>2. register(fn, i) = Register(f.registers[i].value, f.registers[i].ones)
      <3>1. i \notin DOMAIN f.bars /\ ~wide
        <4>1. /\ DOMAIN f.bars \subseteq 0..1
              /\ \A j \in DOMAIN f.bars : f.bars[j].kind = "mem64" => j # 1
          BY <2>1, MachineAssumption DEF WellFormed
        <4> QED BY <2>1, <4>1
      <3>2. register(fn, i) = LET r == f.registers[i] IN Register(r.value, r.ones)
        BY <2>1, <3>1 DEF register
      <3> QED BY <3>2
    <2>3. f.registers \in [2..5 -> [value : 0..(REG_MOD - 2), ones : 0..(REG_MOD - 1)]]
      BY <2>1, MachineAssumption DEF WellFormed
    <2>4. f.registers[i].ones \in Int
      BY <1>1, <2>1, <2>3
    <2> QED BY <2>2, <2>4, OnesOf
  <1>3. CASE i \in DOMAIN f.bars
    <2> DEFINE b == f.bars[i]
               r == register(fn, i)
    <2>1. /\ BlockOf(b) /\ b.size \in Nat \ {0}
          /\ b.kind = "io"    => r = Register(b.base + 1, REG_MOD - b.size + 1)
          /\ b.kind = "io16"  => r = Register(b.base + 1, HALF_MOD - b.size + 1)
          /\ b.kind = "mem32" => r = Register(b.base, REG_MOD - b.size)
          /\ b.kind = "mem64" => r = Register((b.base % REG_MOD) + 4, REG_MOD - Grain(b) + 4)
      BY <1>3, RegisterOfBar
    <2>2. Grain(b) \in Nat \ {0} /\ b.kind \in {"io", "io16", "mem32", "mem64"}
      BY <2>1, GrainsPositive DEF BlockOf
    <2> HIDE DEF b, f
    <2>3. b.kind = "io" => Ones(fn, i) = REG_MOD - b.size + 1
      BY <2>1, OnesOf
    <2>4. b.kind = "io16" => Ones(fn, i) = HALF_MOD - b.size + 1
      BY <2>1, OnesOf
    <2>5. b.kind = "mem32" => Ones(fn, i) = REG_MOD - b.size
      BY <2>1, OnesOf
    <2>6. b.kind = "mem64" => Ones(fn, i) = REG_MOD - Grain(b) + 4
      BY <2>1, OnesOf
    <2> QED BY <1>1, <2>1, <2>2, <2>3, <2>4, <2>5, <2>6
  <1>4. CASE wide
    <2> DEFINE b == f.bars[i - 1]
    <2>1. (i - 1) + 1 = i
      OBVIOUS
    <2>2. register(fn, i) = Register(b.base \div REG_MOD, REG_MOD - UpperGrain(b)) /\ b.size \in Nat \ {0}
      BY <1>4, <2>1, RegisterOfBar
    <2>3. UpperGrain(b) \in Nat
      BY <2>2, GrainsPositive
    <2>4. Ones(fn, i) = REG_MOD - UpperGrain(b)
      BY <2>2, OnesOf
    <2> QED BY <1>1, <2>3, <2>4
  <1>5. CASE ~(f.bridge /\ i \in 2..5) /\ i \notin DOMAIN f.bars /\ ~wide
    <2>1. register(fn, i) = Register(0, 0)
      BY <1>5 DEF register
    <2> QED BY <2>1, OnesOf
  <1> QED BY <1>2, <1>3, <1>4, <1>5

(* What the driver makes of the registers are numbers.                     *)
LEMMA BarNumbers ==
    ASSUME NEW low \in Int, NEW high \in Int, NEW a \in Int, NEW b \in Int
    PROVE  pcie_get_bar(low, high) \in Int /\ pcie_get_bar_size(low, a, b) \in Int
  <1>1. REG_MOD \in Nat /\ UINTPTR_MOD \in Nat
    BY RegisterModulus, SpaceAssumption
  <1>2. \A v \in Int : unflagged(v, low) \in Int
    BY DEF unflagged, flag_bits
  <1>3. high * REG_MOD \in Int /\ b * REG_MOD \in Int
    BY <1>1
  <1>4. pcie_get_bar(low, high) \in Int
    BY <1>2, <1>3 DEF pcie_get_bar
  <1>5. (IF is_64_bit(low) THEN b * REG_MOD ELSE 0) + unflagged(a, low) \in Int
    BY <1>2, <1>3
  <1>6. (IF is_64_bit(low) THEN UINTPTR_MOD ELSE REG_MOD) \in Int
    BY <1>1
  <1>7. pcie_get_bar_size(low, a, b) \in Int
    BY <1>5, <1>6 DEF pcie_get_bar_size
  <1> QED BY <1>4, <1>7

SizingInv ==
    /\ pc = "bar" => loop.i \in 0..6
    /\ pc \in {"restore", "map_bar"} => loop.i \in 0..5
    /\ pc = "restore" =>
          /\ config[here].bar[loop.i] = Ones(here, loop.i)
          /\ is_64_bit(loop.low) => config[here].bar[loop.i + 1] = Ones(here, loop.i + 1)

TableInv ==
    /\ pcie_devices \in Seq(DeviceRecords)
    /\ Len(pcie_devices) <= PCIE_MAX_DEVICES
    /\ pc \in {"bar", "restore", "map_bar"} => pcie_devices # <<>>
    /\ g_mmio_next \in 0..(UINTPTR_MOD - 1)

(* What is rounded up to pages is a number, and the window wraps around.   *)
LEMMA WindowMoves ==
    ASSUME g_mmio_next \in 0..(UINTPTR_MOD - 1), NEW phys, NEW size \in Int, NEW i, NEW next,
           MapRange(phys, size, i, next)
    PROVE  g_mmio_next' \in 0..(UINTPTR_MOD - 1)
  <1>1. UINTPTR_MOD \in Nat \ {0} /\ PAGE_SIZE \in Nat \ {0}
    BY RootSpan, PageAssumption
  <1>2. \A x \in Int : x % UINTPTR_MOD \in 0..(UINTPTR_MOD - 1)
    BY <1>1
  <1>3. size_pages(size) \in Int
    <2> DEFINE v == (size + (PAGE_SIZE - 1)) % UINTPTR_MOD
    <2>1. v \in Int
      BY <1>1, <1>2
    <2>2. size_pages(size) = v - (v % PAGE_SIZE)
      BY <1>1 DEF size_pages, align_up
    <2> HIDE DEF v
    <2> QED BY <1>1, <2>1, <2>2
  <1>4. g_mmio_next' = (g_mmio_next + size_pages(size)) % UINTPTR_MOD
    BY DEF MapRange
  <1>5. g_mmio_next + size_pages(size) \in Int
    BY <1>3
  <1> QED BY <1>2, <1>4, <1>5

(* The registers of the function in hand, where they are as assigned.      *)
LEMMA HereAssigned ==
    ASSUME StackInv, BarInv, pc \in BarPlaces, pc # "restore", NEW i \in 0..6
    PROVE  /\ machine \in Machines /\ here \in DOMAIN machine.functions
           /\ config[here].bar[i] = register(here, i).value
           /\ config[here].bar[i] \in Nat
  <1>1. machine \in Machines /\ here \in DOMAIN machine.functions /\ DOMAIN config = DOMAIN machine.functions
    BY HereAnswers DEF BarInv, ConfigShape
  <1>2. config[here].bar[i] = register(here, i).value
    BY <1>1 DEF BarInv, Assigned
  <1>3. Settled(register(here, i))
    BY <1>1, RegistersSettled
  <1> QED BY <1>1, <1>2, <1>3 DEF Settled

(* Sizing writes all ones to the registers of one BAR.                     *)
LEMMA SizeBarWrites ==
    ASSUME LoopInv, BarInv, StackInv, SizeBar
    PROVE  SizingInv'
  <1> DEFINE low == config[here].bar[loop.i]
  <1>1. /\ pc = "bar" /\ loop.i \in 0..5 /\ pc' = "restore"
        /\ UNCHANGED <<machine, vm, segment, stack>>
        /\ config' = BarsWritten(loop.i, is_64_bit(low), REG_MOD - 1, REG_MOD - 1)
        /\ loop'.i = loop.i /\ loop'.low = low
    BY DEF SizeBar, LoopInv
  <1>2. UNCHANGED here /\ \A fn, i : register(fn, i)' = register(fn, i)
    BY <1>1, SameHere, SameMachine
  <1>3. here \in DOMAIN config
    BY <1>1, HereAnswers DEF BarInv, ConfigShape, BarPlaces
  <1> DEFINE ones == REG_MOD - 1
             wide == is_64_bit(low)
  <1>4. config' = BarsWritten(loop.i, wide, ones, ones) /\ UNCHANGED machine /\ wide \in BOOLEAN
        /\ loop.i \in Nat /\ ConfigShape
    BY <1>1 DEF is_64_bit, BarInv
  <1> HIDE DEF ones, wide
  <1>5. \A fn \in DOMAIN config, j \in 0..6 :
           config'[fn].bar[j] =
              IF fn = here /\ j = loop.i THEN written(register(here, loop.i), ones)
              ELSE IF fn = here /\ wide /\ j = loop.i + 1
              THEN written(register(here, loop.i + 1), ones)
              ELSE config[fn].bar[j]
    BY <1>4, WrittenBars
  <1>6. loop.i \in 0..6 /\ loop.i + 1 \in 0..6 /\ loop.i + 1 # loop.i
    BY <1>1
  <1>7. config'[here].bar[loop.i] = written(register(here, loop.i), ones)
    BY <1>3, <1>5, <1>6
  <1>8. wide => config'[here].bar[loop.i + 1] = written(register(here, loop.i + 1), ones)
    BY <1>3, <1>5, <1>6
  <1>9. Ones(here, loop.i)' = Ones(here, loop.i) /\ Ones(here, loop.i + 1)' = Ones(here, loop.i + 1)
    BY <1>1, <1>2 DEF Ones, written
  <1>10. /\ config'[here].bar[loop.i] = Ones(here, loop.i)
         /\ is_64_bit(low) => config'[here].bar[loop.i + 1] = Ones(here, loop.i + 1)
    BY <1>7, <1>8 DEF Ones, ones, wide
  <1>11. is_64_bit(loop.low)' = is_64_bit(low)
    BY <1>1
  <1> HIDE DEF low
  <1> QED BY <1>1, <1>2, <1>9, <1>10, <1>11 DEF SizingInv

(* Who touches the table, the window and the loop over BARs, and nobody    *)
(* else comes to that loop.                                                *)
LEMMA TableFrame ==
    ASSUME LoopInv, RootInv, [Next]_vars
    PROVE  \/ Visit \/ SizeBar \/ Restore \/ MapBar \/ MapMsixTable
           \/ MapResource
           \/ /\ UNCHANGED <<pcie_devices, g_mmio_next, ranges>>
              /\ \/ UNCHANGED <<pc, pcie_vars>>
                 \/ /\ pc \notin {"bar", "restore", "map_bar"}
                    /\ pc' \notin {"bar", "restore", "map_bar"}
  <1>1. CASE NextSegment \/ MapEcam \/ Probe \/ Bridge \/ Return
    BY <1>1 DEF NextSegment, MapEcam, Probe, Bridge, Return
  <1>2. CASE ProgramEntry \/ EnableMsix
    BY <1>2 DEF ProgramEntry, EnableMsix
  <1>3. CASE MapMmio
    BY <1>3 DEF MapMmio, RootInv
  <1>4. CASE KernelStep /\ ~PcieStep
    BY <1>4 DEF KernelStep, Checks, SetupPageTables, GdtInitialize, MemoryInit,
        IdtInitialize, VbeInit, Tags, FindMcfg, InitPcieDone, TestMalloc,
        pcie_set_pml4_and_offset, pcie_vars
  <1>5. CASE EnableDevice
    BY <1>5 DEF EnableDevice, pcie_enable_device
  <1>6. CASE Interrupt
    BY <1>6 DEF Interrupt, pcie_vars
  <1>7. CASE UNCHANGED vars
    BY <1>7 DEF vars, pcie_vars
  <1>8. CASE PcieStep
    BY <1>1, <1>2, <1>3, <1>8 DEF PcieStep, PcieNext
  <1> QED BY <1>4, <1>5, <1>6, <1>7, <1>8 DEF Next

(* A function is recorded, if there is room, and its first BAR is next.    *)
LEMMA VisitTable ==
    ASSUME LoopInv, StackInv, SizingInv, TableInv, Visit
    PROVE  SizingInv' /\ TableInv'
  <1>1. /\ pc = "walk" /\ UNCHANGED g_mmio_next /\ stack # <<>>
        /\ top.bus \in Nat /\ top.dev \in Nat /\ top.func \in Nat
    <2>1. pc = "walk" /\ UNCHANGED g_mmio_next /\ stack # <<>>
      BY DEF Visit, StackInv
    <2>2. DEVICES \in Nat /\ FUNCTIONS \in Nat
      BY PcieAssumption
    <2> QED BY <2>1, <2>2, TopOk
  <1>2. CASE Answers(top.bus, top.dev, top.func) = {}
    BY <1>1, <1>2 DEF Visit, SizingInv, TableInv
  <1>3. CASE Answers(top.bus, top.dev, top.func) # {} /\ ~(Len(pcie_devices) < PCIE_MAX_DEVICES)
    BY <1>1, <1>3 DEF Visit, SizingInv, TableInv
  <1>4. CASE Answers(top.bus, top.dev, top.func) # {} /\ Len(pcie_devices) < PCIE_MAX_DEVICES
    <2> DEFINE d == Record(fn_at)
    <2>1. pcie_devices' = Append(pcie_devices, d) /\ pc' = "bar" /\ loop'.i = 0
      BY <1>4 DEF Visit, LoopInv
    <2>2. d \in DeviceRecords
      <3>1. fn_at \in Nat \X Nat \X Nat
        BY <1>1 DEF fn_at
      <3>2. [i \in 0..5 |-> 0] \in [0..5 -> Int]
        OBVIOUS
      <3> QED BY <3>1, <3>2 DEF Record, DeviceRecords
    <2> HIDE DEF d
    <2>3. pcie_devices \in Seq(DeviceRecords) /\ PCIE_MAX_DEVICES \in Nat
      BY PcieAssumption DEF TableInv
    <2>4. pcie_devices' \in Seq(DeviceRecords) /\ Len(pcie_devices') = Len(pcie_devices) + 1
      BY <2>1, <2>2, <2>3
    <2>5. Len(pcie_devices') # 0 /\ Len(pcie_devices') <= PCIE_MAX_DEVICES
      BY <1>4, <2>3, <2>4
    <2>6. pcie_devices' # <<>>
      BY <2>5
    <2> QED BY <1>1, <2>1, <2>4, <2>5, <2>6 DEF SizingInv, TableInv
  <1> QED BY <1>2, <1>3, <1>4

(* The table stays one when a BAR is read, sized and mapped.               *)
LEMMA SizeBarTable ==
    ASSUME LoopInv, BarInv, StackInv, TableInv, SizeBar
    PROVE  TableInv'
  <1> DEFINE low  == config[here].bar[loop.i]
             high == IF is_64_bit(low) THEN config[here].bar[loop.i + 1] ELSE 0
             v    == pcie_get_bar(low, high)
  <1>1. pc = "bar" /\ loop.i \in 0..5 /\ pc' = "restore" /\ UNCHANGED g_mmio_next
    BY DEF SizeBar, LoopInv
  <1>2. loop.i \in 0..6 /\ loop.i + 1 \in 0..6
    BY <1>1
  <1>3. low \in Nat /\ config[here].bar[loop.i + 1] \in Nat
    BY <1>1, <1>2, HereAssigned DEF BarPlaces
  <1>4. high \in Int /\ low \in Int
    BY <1>3
  <1>5. pcie_devices' = [pcie_devices EXCEPT ![Len(pcie_devices)].bars[loop.i] = v]
    BY DEF SizeBar
  <1> HIDE DEF low, high
  <1>6. v \in Int
    BY <1>4, BarNumbers
  <1> HIDE DEF v
  <1>7. pcie_devices \in Seq(DeviceRecords) /\ pcie_devices # <<>> /\ Len(pcie_devices) <= PCIE_MAX_DEVICES
    BY <1>1 DEF TableInv
  <1>8. pcie_devices' \in Seq(DeviceRecords) /\ Len(pcie_devices') = Len(pcie_devices)
    <2> DEFINE T == pcie_devices
               U == pcie_devices'
               n == loop.i
    <2>1. /\ T \in Seq(DeviceRecords) /\ T # <<>> /\ n \in 0..5
          /\ U = WithBar(T, n, v)
      BY <1>1, <1>5, <1>7 DEF WithBar, WithSize
    <2> HIDE DEF T, U, n
    <2>2. U \in Seq(DeviceRecords) /\ Len(U) = Len(T)
      BY <1>6, <2>1, BarUpdated DEF Updated
    <2> QED BY <2>2 DEF T, U
  <1>9. pcie_devices' # <<>>
    BY <1>7, <1>8
  <1> QED BY <1>1, <1>7, <1>8, <1>9 DEF TableInv

(* It is a number that goes into the table as the size.                    *)
LEMMA RestoreTable ==
    ASSUME LoopInv, BarInv, StackInv, SizingInv, TableInv, Restore
    PROVE  SizingInv' /\ TableInv'
  <1> DEFINE low   == loop.low
             upper == IF is_64_bit(low) THEN config[here].bar[loop.i + 1] ELSE 0
             v     == pcie_get_bar_size(low, config[here].bar[loop.i], upper)
  <1>1. pc = "restore" /\ pc' = "map_bar" /\ UNCHANGED <<g_mmio_next, loop>> /\ loop.i \in 0..5
    BY DEF Restore, SizingInv
  <1>2. here \in DOMAIN machine.functions /\ machine \in Machines /\ DOMAIN config = DOMAIN machine.functions
    BY <1>1, HereAnswers DEF BarPlaces, BarInv, ConfigShape
  <1>3. low \in Int
    <2>1. loop.i \in 0..6
      BY <1>1
    <2>2. Settled(register(here, loop.i))
      BY <1>2, <2>1, RegistersSettled
    <2>3. low = register(here, loop.i).value
      BY <1>1, <1>2 DEF BarInv
    <2> QED BY <2>2, <2>3 DEF Settled
  <1>4. config[here].bar[loop.i] \in Int /\ upper \in Int
    <2>1. loop.i \in 0..6 /\ loop.i + 1 \in 0..6
      BY <1>1
    <2>2. Ones(here, loop.i) \in Int /\ Ones(here, loop.i + 1) \in Int
      BY <1>2, <2>1, OnesRead
    <2> QED BY <1>1, <2>2 DEF SizingInv
  <1>5. pcie_devices' = [pcie_devices EXCEPT ![Len(pcie_devices)].bar_size[loop.i] = v]
    BY DEF Restore
  <1> HIDE DEF low, upper
  <1>6. v \in Int
    BY <1>3, <1>4, BarNumbers
  <1> HIDE DEF v
  <1>7. pcie_devices \in Seq(DeviceRecords) /\ pcie_devices # <<>> /\ Len(pcie_devices) <= PCIE_MAX_DEVICES
    BY <1>1 DEF TableInv
  <1>8. pcie_devices' \in Seq(DeviceRecords) /\ Len(pcie_devices') = Len(pcie_devices)
    <2> DEFINE T == pcie_devices
               U == pcie_devices'
               n == loop.i
    <2>1. /\ T \in Seq(DeviceRecords) /\ T # <<>> /\ n \in 0..5
          /\ U = WithSize(T, n, v)
      BY <1>1, <1>5, <1>7 DEF WithBar, WithSize
    <2> HIDE DEF T, U, n
    <2>2. U \in Seq(DeviceRecords) /\ Len(U) = Len(T)
      BY <1>6, <2>1, SizeUpdated DEF Updated
    <2> QED BY <2>2 DEF T, U
  <1>9. pcie_devices' # <<>>
    BY <1>7, <1>8
  <1> QED BY <1>1, <1>7, <1>8, <1>9 DEF TableInv, SizingInv

(* And so is the address.                                                  *)
LEMMA MapBarTable ==
    ASSUME LoopInv, RootInv, SizingInv, TableInv, MapBar
    PROVE  SizingInv' /\ TableInv'
  <1> DEFINE d == Last(pcie_devices)
             phys == d.bars[loop.i]
             size == d.bar_size[loop.i]
  <1>1. pc = "map_bar" /\ loop.i \in 0..5 /\ g_pml4_virt = NULL
    BY DEF MapBar, SizingInv, RootInv, Finished
  <1>2. pcie_devices \in Seq(DeviceRecords) /\ pcie_devices # <<>> /\ Len(pcie_devices) <= PCIE_MAX_DEVICES
        /\ g_mmio_next \in 0..(UINTPTR_MOD - 1)
    BY <1>1 DEF TableInv
  <1>3. size \in Int
    BY <1>1, <1>2, LastRecord DEF DeviceRecords
  <1>4. CASE UNCHANGED <<g_mmio_next, pcie_devices>> /\ pc' = "bar" /\ loop' = [loop EXCEPT !.i = @ + 1]
    <2>1. loop'.i \in 0..6
      BY <1>1, <1>4 DEF LoopInv
    <2> QED BY <1>2, <1>4, <2>1 DEF SizingInv, TableInv
  <1>5. CASE /\ MapRange(phys, size, loop.i + 1, "bar")
             /\ pcie_devices' = [pcie_devices EXCEPT ![Len(pcie_devices)].bars_virt[loop.i] = g_mmio_next]
    <2>1. pc' = "bar" /\ loop'.i = loop.i + 1
      BY <1>1, <1>5 DEF MapRange, LoopInv
    <2>2. g_mmio_next' \in 0..(UINTPTR_MOD - 1)
      BY <1>2, <1>3, <1>5, WindowMoves
    <2>3. pcie_devices' \in Seq(DeviceRecords) /\ Len(pcie_devices') = Len(pcie_devices)
      <3> DEFINE T == pcie_devices
                 U == pcie_devices'
                 n == loop.i
                 v == g_mmio_next
      <3>1. /\ T \in Seq(DeviceRecords) /\ T # <<>> /\ n \in 0..5 /\ v \in Int
            /\ U = WithVirt(T, n, v)
        BY <1>1, <1>2, <1>5 DEF WithVirt
      <3> HIDE DEF T, U, n, v
      <3>2. U \in Seq(DeviceRecords) /\ Len(U) = Len(T)
        BY <3>1, VirtUpdated DEF Updated
      <3> QED BY <3>2 DEF T, U
    <2>4. pcie_devices' # <<>>
      BY <1>2, <2>3
    <2>5. loop'.i \in 0..6
      BY <1>1, <2>1
    <2> QED BY <1>2, <2>1, <2>2, <2>3, <2>4, <2>5 DEF SizingInv, TableInv
  <1> QED BY <1>4, <1>5 DEF MapBar

(* The MSI-X table changes no record.                                      *)
LEMMA MsixTableTable ==
    ASSUME LoopInv, RootInv, StackInv, BarInv, TableInv, MapMsixTable
    PROVE  SizingInv' /\ TableInv'
  <1>1. pc = "bar" /\ UNCHANGED pcie_devices /\ g_pml4_virt = NULL
    BY DEF MapMsixTable, RootInv, Finished
  <1>2. pc' \in {"bridge", "program"}
    BY <1>1 DEF MapMsixTable, MapRange
  <1>3. g_mmio_next' \in 0..(UINTPTR_MOD - 1)
    <2> DEFINE entries == machine.functions[here].msix.entries
    <2>1. entries * MSIX_ENTRY \in Int
      <3>1. here \in DOMAIN machine.functions /\ machine \in Machines
        BY <1>1, HereAnswers DEF BarPlaces, BarInv, ConfigShape
      <3>2. entries \in Nat
        BY <3>1, MachineAssumption DEF WellFormed
      <3>3. MSIX_ENTRY \in Nat
        BY PcieAssumption
      <3> HIDE DEF entries
      <3> QED BY <3>2, <3>3
    <2>2. \/ UNCHANGED g_mmio_next
          \/ \E phys, i, next : MapRange(phys, entries * MSIX_ENTRY, i, next)
      BY DEF MapMsixTable
    <2> DEFINE size == entries * MSIX_ENTRY
    <2> HIDE DEF size
    <2>3. UNCHANGED g_mmio_next \/ \E phys, i, next : MapRange(phys, size, i, next)
      BY <2>2 DEF size
    <2>4. size \in Int
      BY <2>1 DEF size
    <2> QED BY <2>3, <2>4, WindowMoves DEF TableInv
  <1> QED BY <1>1, <1>2, <1>3 DEF SizingInv, TableInv

(* The table and the loop over BARs stay sound.                            *)
LEMMA TableStep ==
    ASSUME LoopInv, RootInv, BarInv, StackInv, SizingInv, TableInv, [Next]_vars
    PROVE  SizingInv' /\ TableInv'
  <1>1. CASE MapResource
    <2>1. pc = "idle" /\ pc' \in {"idle", "mmio"} /\ UNCHANGED pcie_devices
      BY <1>1 DEF MapResource, pcie_map_phys_mmio, MapRange
    <2>2. g_mmio_next' \in 0..(UINTPTR_MOD - 1)
      <3>1. PICK r \in Resources : MapRange(r.phys, r.size, 0, "idle")
        BY <1>1 DEF MapResource, pcie_map_phys_mmio
      <3>2. r.size \in Int
        BY KernelAssumption
      <3> QED BY <3>1, <3>2, WindowMoves DEF TableInv
    <2> QED BY <2>1, <2>2 DEF SizingInv, TableInv
  <1>2. CASE UNCHANGED <<pcie_devices, g_mmio_next>> /\ UNCHANGED <<pc, pcie_vars>>
    <2>1. UNCHANGED <<machine, vm, segment, stack, loop, config, pc, pcie_devices, g_mmio_next>>
      BY <1>2 DEF pcie_vars
    <2>2. UNCHANGED here /\ \A fn, i : register(fn, i)' = register(fn, i)
      BY <2>1, SameHere, SameMachine
    <2>3. UNCHANGED <<Ones(here, loop.i), Ones(here, loop.i + 1)>>
      BY <2>1, <2>2 DEF Ones, written
    <2> QED BY <2>1, <2>2, <2>3 DEF SizingInv, TableInv
  <1>3. CASE UNCHANGED <<pcie_devices, g_mmio_next>> /\ pc' \notin {"bar", "restore", "map_bar"}
    BY <1>3 DEF SizingInv, TableInv
  <1> QED BY <1>1, <1>2, <1>3, TableFrame, VisitTable, SizeBarTable, SizeBarWrites,
          RestoreTable, MapBarTable, MsixTableTable

(* The kernel is always somewhere.                                         *)
Places == BeforeAcpi \cup Enumerating \cup Finished \cup {"acpi", "segment", "ecam", "mmio"}

(* The kernel is always at a place that is named.                          *)
LEMMA PlaceStep ==
    ASSUME LoopInv, pc \in Places, [Next]_vars
    PROVE  pc' \in Places
  <1> USE DEF Places, BeforeAcpi, BeforePaging, Finished
  <1>1. CASE PcieStep
    <2>1. pc' \in PciePlaces \cup {"idle"}
      BY <1>1, PcieMoves DEF PcieStep
    <2> QED BY <2>1 DEF PciePlaces
  <1>2. CASE KernelStep /\ ~PcieStep
    BY <1>2 DEF KernelStep, Checks, SetupPageTables, GdtInitialize, MemoryInit,
        IdtInitialize, VbeInit, Tags, FindMcfg, InitPcieDone, TestMalloc
  <1>3. CASE EnableDevice
    BY <1>3 DEF EnableDevice, pcie_enable_device
  <1>4. CASE MapResource
    BY <1>4 DEF MapResource, pcie_map_phys_mmio, MapRange
  <1>5. CASE Interrupt
    BY <1>5 DEF Interrupt
  <1>6. CASE UNCHANGED vars
    BY <1>6 DEF vars
  <1> QED BY <1>1, <1>2, <1>3, <1>4, <1>5, <1>6 DEF Next, KernelStep

(* In every state the enumeration is in order.                             *)
EnumInv == RootInv /\ StackInv /\ SizingInv /\ TableInv

(* At the start nothing has been found.                                    *)
LEMMA EnumInit == Init => EnumInv
  <1> SUFFICES ASSUME Init PROVE EnumInv
    OBVIOUS
  <1>1. /\ pc = "start" /\ g_pml4_virt = NULL /\ stack = <<>> /\ segment = 0 /\ pcie_devices = <<>>
        /\ g_mmio_next = (PCIE_VIRTUAL_BASE + 4 * GIB) % UINTPTR_MOD /\ machine \in Machines
    BY DEF Init, InitMachine, InitPcieState
  <1>2. g_mmio_next \in 0..(UINTPTR_MOD - 1)
    <2>1. PCIE_VIRTUAL_BASE + 4 * GIB \in Int /\ UINTPTR_MOD \in Nat \ {0}
      BY RootSpan, Spans DEF PCIE_VIRTUAL_BASE
    <2> QED BY <1>1, <2>1
  <1>3. Len(machine.mcfg) \in Nat
    BY <1>1, MachineAssumption DEF WellFormed
  <1>4. /\ stack \in Seq(Calls) /\ Len(stack) = 0
        /\ pcie_devices \in Seq(DeviceRecords) /\ Len(pcie_devices) = 0
    BY <1>1
  <1>5. PCIE_MAX_DEVICES \in Nat
    BY PcieAssumption
  <1> QED BY <1>1, <1>2, <1>3, <1>4, <1>5
          DEF EnumInv, RootInv, StackInv, SizingInv, TableInv, BarPlaces, Finished

(* So the enumeration is in order in every state.                          *)
LEMMA EnumerationKept == Spec => []EnumInv
  <1>1. LoopInv /\ BarInv /\ EnumInv /\ [Next]_vars => EnumInv'
    BY RootStep, StackStep, TableStep DEF EnumInv
  <1> QED BY <1>1, EnumInit, BarsKept, PTL DEF Spec

(* In every state the walks are in order.                                  *)
LEMMA WalksKept == Spec => [](pc \in Places /\ WalkInv)
  <1>1. Init => pc \in Places /\ WalkInv
    <2> SUFFICES ASSUME Init PROVE pc \in Places /\ WalkInv
      OBVIOUS
    <2>1. pc = "start" /\ info \in Infos /\ tag = 0 /\ screen = NULL /\ acpi_rsdp = NULL
      BY DEF Init
    <2> QED BY <2>1 DEF Places, WalkInv, BeforeAcpi, BeforePaging
  <1>2. LoopInv /\ pc \in Places /\ WalkInv /\ [Next]_vars => (pc \in Places /\ WalkInv)'
    BY PlaceStep, WalkStep
  <1> QED BY <1>1, <1>2, BarsKept, PTL DEF Spec

(* The type of every variable follows.                                     *)
LEMMA TypesFollow ==
    ASSUME pc \in Places, WalkInv, EnumInv, VectorInv, InterruptInv
    PROVE  TypeOK
  <1>1. /\ tag \in DOMAIN info \cup {0} /\ {screen, acpi_rsdp} \subseteq DOMAIN info \cup {NULL}
    BY DEF WalkInv
  <1>2. \A c \in ToSet(stack) : c.dev < DEVICES /\ c.func < FUNCTIONS /\ c.bus <= c.end + 1
    <2>1. ASSUME NEW k \in 1..Len(stack)
          PROVE  stack[k].dev < DEVICES /\ stack[k].func < FUNCTIONS /\ stack[k].bus <= stack[k].end + 1
      <3>1. CallOk(stack[k])
        BY <2>1 DEF EnumInv, StackInv
      <3>2. DEVICES \in Nat /\ FUNCTIONS \in Nat
        BY PcieAssumption
      <3> QED BY <3>1, <3>2 DEF CallOk, Calls
    <2>2. \A c \in ToSet(stack) : \E k \in 1..Len(stack) : c = stack[k]
      BY DEF EnumInv, StackInv, ToSet
    <2> QED BY <2>1, <2>2
  <1>3. cpu.at \in {"none", "stub", "iretq"}
    BY DEF InterruptInv, CpuInv, Running
  <1>4. pc \in BeforeAcpi \cup Enumerating \cup Finished \cup {"acpi", "segment", "ecam", "mmio"}
    BY DEF Places
  <1>5. /\ g_pml4_virt \in {NULL, page_table_l4} /\ g_mmio_next \in 0..(UINTPTR_MOD - 1)
        /\ g_next_vector \in FIRST_VECTOR..END_VECTOR
        /\ Len(pcie_devices) <= PCIE_MAX_DEVICES
    BY DEF EnumInv, RootInv, TableInv, VectorInv
  <1> QED BY <1>1, <1>2, <1>3, <1>4, <1>5 DEF TypeOK

(***************************************************************************)
(* The walks over the boot information never leave its tags (TypeOK), and  *)
(* whatever order these come in, the ACPI 2.0 root pointer is taken if     *)
(* there is one, else the old one; and the frame buffer is found if there  *)
(* is a tag for it.                                                        *)
(***************************************************************************)
THEOREM KernelFindsTags == Spec => []TagsFound
  <1>1. WalkInv /\ TypeOK => TagsFound
    <2> SUFFICES ASSUME WalkInv, TypeOK PROVE TagsFound
      OBVIOUS
    <2> DEFINE Types == {info[a].type : a \in DOMAIN info}
    <2>1. ASSUME pc \notin BeforeAcpi
          PROVE  /\ ACPI_NEW \in Types => acpi_rsdp # NULL /\ info[acpi_rsdp].type = ACPI_NEW
                 /\ ACPI_OLD \in Types => acpi_rsdp # NULL
                 /\ FRAMEBUFFER \in Types => screen # NULL /\ info[screen].type = FRAMEBUFFER
      <3>1. RootFound(DOMAIN info) /\ ScreenFound
        BY <2>1 DEF WalkInv
      <3>2. \A x : x \in Types => \E a \in DOMAIN info : info[a].type = x
        OBVIOUS
      <3> HIDE DEF Types
      <3> QED BY <3>1, <3>2 DEF RootFound, ScreenFound
    <2> QED BY <2>1 DEF TagsFound
  <1>2. pc \in Places /\ WalkInv /\ EnumInv /\ VectorInv /\ InterruptInv => TypeOK
    BY TypesFollow
  <1> QED BY <1>1, <1>2, WalksKept, EnumerationKept, VectorsCounted, StubsReturn, PTL

-----------------------------------------------------------------------------
(*------------------------- the configuration space -----------------------*)

(* The configuration space is as long as one entry of the level 3 table    *)
(* spans, and lies under one: its addresses differ in the lower digits.    *)
LEMMA EcamDigits ==
    ASSUME NEW off \in Nat, off < GIB
    PROVE  LET v == PCIE_VIRTUAL_BASE + off IN
           /\ v \in Nat /\ v < UINTPTR_MOD
           /\ PML4_INDEX(v) = PML4_INDEX(PCIE_VIRTUAL_BASE)
           /\ PDPT_INDEX(v) = PDPT_INDEX(PCIE_VIRTUAL_BASE)
           /\ PD_INDEX(v) = off \div LARGE /\ v % LARGE = off % LARGE
           /\ off \div LARGE \in 0..(ENTRIES - 1)
  <1> DEFINE E == ENTRIES
             L == LARGE
             G == GIB
             S == E * G
             M == UINTPTR_MOD
             B == PCIE_VIRTUAL_BASE
             v == B + off
  <1>1. /\ E \in Nat \ {0, 1} /\ L \in Nat \ {0} /\ G \in Nat \ {0} /\ S \in Nat \ {0}
        /\ G = E * L /\ G <= S /\ S = E * G
    BY Spans
  <1>2. M \in Nat \ {0} /\ B = M - G /\ G <= M
    BY RootSpan DEF PCIE_VIRTUAL_BASE
  <1>3. PICK q \in Nat \ {0} : M = S * (E * q)
    BY RootSpan
  <1>4. off < G
    OBVIOUS
  <1> HIDE DEF E, L, G, M, B
  <1> HIDE DEF S
  <1> DEFINE p == E * q
  <1>5. p \in Nat \ {0} /\ M = S * p
    BY <1>1, <1>3
  <1> HIDE DEF p
  <1>6. p - 1 \in Nat /\ S * p = S * (p - 1) + S /\ S * (p - 1) \in Nat
    BY <1>1, <1>5
  (* By the span of a root entry. *)
  <1> DEFINE a == S - G
  <1>7. a \in Nat /\ a < S /\ a + off \in Nat /\ a + off < S
    BY <1>1, <1>4
  <1>8. B = S * (p - 1) + a /\ v = S * (p - 1) + (a + off)
    BY <1>1, <1>2, <1>5, <1>6
  <1> HIDE DEF a
  <1>9. B \div S = p - 1 /\ v \div S = p - 1
    <2>1. B \div S = p - 1
      BY <1>1, <1>6, <1>7, <1>8, DivUnique
    <2> DEFINE r == a + off
    <2>2. r \in Nat /\ r < S /\ v = S * (p - 1) + r
      BY <1>7, <1>8
    <2> HIDE DEF r, v
    <2>3. v \div S = p - 1
      BY <1>1, <1>6, <2>2, DivUnique
    <2> QED BY <2>1, <2>3 DEF v
  (* By that of a level 3 entry. *)
  <1> DEFINE k == E * p - 1
  <1>10. k \in Nat /\ M = G * (k + 1) /\ G * (k + 1) = G * k + G /\ G * k \in Nat
    <2>1. E * p \in Nat \ {0} /\ k + 1 = E * p
      BY <1>1, <1>5
    <2>2. M = G * (E * p)
      BY <1>1, <1>5
    <2>3. k \in Nat /\ M = G * (k + 1)
      BY <2>1, <2>2
    <2> HIDE DEF k
    <2> QED BY <1>1, <2>3
  <1> HIDE DEF k
  <1>11. B = G * k + 0 /\ v = G * k + off
    BY <1>1, <1>2, <1>10
  <1>12. B \div G = k /\ v \div G = k
    <2>1. 0 \in Nat /\ 0 < G
      BY <1>1
    <2>2. B \div G = k
      BY <1>1, <1>10, <1>11, <2>1, DivUnique
    <2> HIDE DEF v
    <2>3. v \div G = k
      BY <1>1, <1>4, <1>10, <1>11, DivUnique
    <2> QED BY <2>2, <2>3 DEF v
  (* By that of a large page. *)
  <1> DEFINE j == off \div L
             r == off % L
  <1>13. j \in Nat /\ r \in Nat /\ r < L /\ off = L * j + r
    BY <1>1, DivMod
  <1> HIDE DEF j, r
  <1>14. j < E
    <2>1. L * j < L * E
      BY <1>1, <1>4, <1>13
    <2>2. ASSUME j >= E PROVE FALSE
      <3>1. PICK d \in Nat : j = E + d
        BY <1>1, <1>13, <2>2
      <3>2. L * j = L * E + L * d /\ L * d \in Nat /\ L * E \in Nat
        BY <1>1, <3>1
      <3> QED BY <2>1, <3>2
    <2> QED BY <1>1, <1>13, <2>2
  <1> DEFINE m == E * k + j
  <1>15. m \in Nat /\ v = L * m + r
    <2>1. m \in Nat /\ E * k \in Nat
      BY <1>1, <1>10, <1>13
    <2>2. G * k = L * (E * k)
      BY <1>1, <1>10
    <2>3. L * m = L * (E * k) + L * j
      BY <1>1, <1>13, <2>1
    <2>4. L * (E * k) \in Nat /\ L * j \in Nat
      BY <1>1, <1>13, <2>1
    <2> HIDE DEF m
    <2> QED BY <1>11, <1>13, <2>1, <2>2, <2>3, <2>4
  <1>16. m % E = j
    BY <1>1, <1>10, <1>13, <1>14, DivUnique
  <1> HIDE DEF m
  <1>17. v \div L = m /\ v % L = r
    <2> HIDE DEF v
    <2> QED BY <1>1, <1>13, <1>15, DivUnique
  <1>18. v \in Nat /\ v < M
    BY <1>1, <1>2, <1>4
  <1> HIDE DEF v
  <1>19. /\ (v \div S) % E = (B \div S) % E /\ (v \div G) % E = (B \div G) % E
         /\ (v \div L) % E = j /\ v % L = r /\ j \in 0..(E - 1)
    BY <1>9, <1>12, <1>13, <1>14, <1>16, <1>17, <1>1
  <1> QED BY <1>18, <1>19 DEF PML4_INDEX, PDPT_INDEX, PD_INDEX, v, B, E, S, G, L, M, j, r

(* A function's page, within its bus and within the space.                 *)
FunctionPage(dev, func) == (dev * FUNCTIONS + func) * PAGE_SIZE
Offset(bus, dev, func) == bus * BUS + FunctionPage(dev, func)

(* The page of a function lies within its bus.                             *)
LEMMA FunctionPages ==
    /\ BUS \in Nat \ {0}
    /\ \A dev \in 0..(DEVICES - 1), func \in 0..(FUNCTIONS - 1) :
          FunctionPage(dev, func) \in Nat /\ FunctionPage(dev, func) < BUS
  <1> DEFINE D == DEVICES
             F == FUNCTIONS
             P == PAGE_SIZE
  <1>1. D \in Nat \ {0} /\ F \in Nat \ {0} /\ P \in Nat \ {0}
    BY PcieAssumption, PageAssumption
  <1>2. BUS = D * F * P
    BY DEF BUS
  <1> HIDE DEF D, F, P
  <1>3. D * F \in Nat \ {0}
    BY <1>1
  <1> DEFINE N == D * F
  <1> HIDE DEF N
  <1>4. N \in Nat \ {0} /\ BUS = N * P
    BY <1>2, <1>3 DEF N
  <1>5. BUS \in Nat \ {0}
    BY <1>1, <1>4
  <1>6. ASSUME NEW dev \in 0..(D - 1), NEW func \in 0..(F - 1)
        PROVE  (dev * F + func) * P \in Nat /\ (dev * F + func) * P < BUS
    <2> DEFINE k == dev * F + func
    <2>1. dev \in Nat /\ func \in Nat /\ func < F /\ dev <= D - 1
      BY <1>1
    <2>2. PICK d \in Nat : D = (dev + 1) + d
      BY <1>1, <2>1
    <2>3. N = (dev * F + F) + d * F /\ dev * F \in Nat /\ d * F \in Nat
      BY <1>1, <2>1, <2>2 DEF N
    <2>4. k \in Nat /\ k < N
      BY <1>1, <2>1, <2>3
    <2> HIDE DEF k
    <2>5. PICK e \in Nat : N = (k + 1) + e
      BY <1>4, <2>4
    <2>6. N * P = (k * P + P) + e * P /\ k * P \in Nat /\ e * P \in Nat
      BY <1>1, <2>4, <2>5
    <2> QED BY <1>1, <1>4, <2>4, <2>6 DEF k
  <1> QED BY <1>5, <1>6 DEF FunctionPage, D, F, P

(* Offsets within the buses a byte numbers.                                *)
LEMMA Offsets ==
    ASSUME NEW bus \in Nat, NEW dev \in 0..(DEVICES - 1), NEW func \in 0..(FUNCTIONS - 1)
    PROVE  /\ Offset(bus, dev, func) \in Nat
           /\ \A end \in Nat : bus <= end => Offset(bus, dev, func) < (end + 1) * BUS
           /\ bus < BYTE => Offset(bus, dev, func) < GIB
  <1> DEFINE f == FunctionPage(dev, func)
             U == BUS
             off == bus * U + f
  <1>1. U \in Nat \ {0} /\ f \in Nat /\ f < U
    BY FunctionPages
  <1>2. BYTE \in Nat /\ BYTE * U <= GIB /\ GIB \in Nat
    BY PcieAssumption, Spans
  <1> HIDE DEF f, U
  <1>3. off \in Nat /\ bus * U \in Nat
    BY <1>1
  <1>4. ASSUME NEW end \in Nat, bus <= end PROVE off < (end + 1) * U
    <2>1. PICK d \in Nat : end = bus + d
      BY <1>4
    <2>2. (end + 1) * U = (bus * U + U) + d * U /\ d * U \in Nat
      BY <1>1, <2>1
    <2> QED BY <1>1, <1>3, <2>2
  <1>5. ASSUME bus < BYTE PROVE off < GIB
    <2>1. BYTE - 1 \in Nat /\ bus <= BYTE - 1 /\ (BYTE - 1) + 1 = BYTE
      BY <1>2, <1>5
    <2>2. off < ((BYTE - 1) + 1) * U
      BY <1>4, <2>1
    <2>3. off < BYTE * U
      BY <2>1, <2>2
    <2>4. BYTE * U \in Nat
      BY <1>1, <1>2
    <2> QED BY <1>2, <1>3, <2>3, <2>4
  <1> QED BY <1>3, <1>4, <1>5 DEF Offset, f, U

(* No two functions have the same page.                                    *)
LEMMA OffsetsDiffer ==
    ASSUME NEW b1 \in Nat, NEW d1 \in 0..(DEVICES - 1), NEW f1 \in 0..(FUNCTIONS - 1),
           NEW b2 \in Nat, NEW d2 \in 0..(DEVICES - 1), NEW f2 \in 0..(FUNCTIONS - 1),
           Offset(b1, d1, f1) = Offset(b2, d2, f2)
    PROVE  b1 = b2 /\ d1 = d2 /\ f1 = f2
  <1> DEFINE F == FUNCTIONS
             P == PAGE_SIZE
             x1 == FunctionPage(d1, f1)
             x2 == FunctionPage(d2, f2)
             k1 == d1 * F + f1
             k2 == d2 * F + f2
  <1>1. BUS \in Nat \ {0} /\ x1 \in Nat /\ x1 < BUS /\ x2 \in Nat /\ x2 < BUS
    BY FunctionPages
  <1>2. /\ F \in Nat \ {0} /\ P \in Nat \ {0} /\ f1 \in Nat /\ f1 < F /\ f2 \in Nat /\ f2 < F
        /\ d1 \in Nat /\ d2 \in Nat
    BY PcieAssumption, PageAssumption
  <1>3. x1 = P * k1 /\ x2 = P * k2 /\ k1 \in Nat /\ k2 \in Nat
    BY <1>2 DEF FunctionPage
  <1>4. BUS * b1 + x1 = BUS * b2 + x2
    BY <1>1 DEF Offset
  <1> HIDE DEF F, P, x1, x2, k1, k2
  <1> DEFINE U == BUS
             y1 == U * b1 + x1
             y2 == U * b2 + x2
  <1> HIDE DEF U
  <1>5. b1 = b2 /\ x1 = x2
    <2>1. y1 \div U = b1 /\ y1 % U = x1
      BY <1>1, DivUnique DEF U
    <2>2. y2 \div U = b2 /\ y2 % U = x2
      BY <1>1, DivUnique DEF U
    <2>3. y1 = y2
      BY <1>4 DEF U
    <2> HIDE DEF y1, y2
    <2> QED BY <2>1, <2>2, <2>3
  <1> DEFINE z1 == P * k1
             z2 == P * k2
  <1>6. k1 = k2
    <2>1. z1 \div P = k1
      BY <1>2, <1>3, MultipleMod
    <2>2. z2 \div P = k2
      BY <1>2, <1>3, MultipleMod
    <2>3. z1 = z2
      BY <1>3, <1>5
    <2> HIDE DEF z1, z2
    <2> QED BY <2>1, <2>2, <2>3
  <1> DEFINE w1 == F * d1 + f1
             w2 == F * d2 + f2
  <1>7. w1 = w2
    BY <1>2, <1>6 DEF k1, k2
  <1>8. d1 = d2 /\ f1 = f2
    <2>1. w1 \div F = d1 /\ w1 % F = f1
      BY <1>2, DivUnique
    <2>2. w2 \div F = d2 /\ w2 % F = f2
      BY <1>2, DivUnique
    <2> HIDE DEF w1, w2
    <2> QED BY <1>7, <2>1, <2>2
  <1> QED BY <1>5, <1>8

(*--------------------------- the space is mapped --------------------------*)

(* A new table is behind all others, and has no entries yet.               *)
LEMMA NewTableEmpty ==
    ASSUME NEW m, NEW level, VmOk(m, level), ~m.halted,
           NEW t \in DOMAIN m.tables, NEW i, i \notin DOMAIN m.tables[t],
           NEW n, n = NewTable(m, t, i), ~n.halted
    PROVE  \E new : new \notin DOMAIN m.tables /\ GrownFacts(m.tables, t, i, new, n.tables)
  <1> DEFINE r == memory_alloc_pages(m.pool, 1)
             U == Grown(m.tables, t, i, r.ptr)
  <1>1. /\ m = [tables |-> m.tables, pool |-> m.pool, stray |-> m.stray, halted |-> m.halted]
        /\ \A u \in DOMAIN m.tables : u \in Nat /\ u < m.pool.next
        /\ r.ptr # NULL => r.ptr = m.pool.next
    BY PoolGives DEF VmOk
  <1>2. n = IF r.ptr = NULL
            THEN [m EXCEPT !.pool = r.pool, !.halted = TRUE]
            ELSE [m EXCEPT !.pool = r.pool, !.tables = U]
    BY DEF NewTable, Grown
  <1> HIDE DEF r, U
  <1>3. ASSUME r.ptr = NULL PROVE FALSE
    <2>1. n = [tables |-> m.tables, pool |-> r.pool, stray |-> m.stray, halted |-> TRUE]
      BY <1>1, <1>2, <1>3
    <2> QED BY <2>1
  <1>4. n.tables = U
    BY <1>1, <1>2, <1>3
  <1> DEFINE new == r.ptr
  <1>5. new \notin DOMAIN m.tables
    <2>1. new = m.pool.next
      BY <1>1, <1>3
    <2>2. \A u \in DOMAIN m.tables : u # m.pool.next
      BY <1>1
    <2> QED BY <2>1, <2>2
  <1>6. U = Grown(m.tables, t, i, new)
    BY DEF U
  <1> HIDE DEF new
  <1>7. GrownFacts(m.tables, t, i, new, n.tables)
    BY <1>4, <1>5, <1>6, GrownTables
  <1> QED BY <1>5, <1>7

(* The directory of the configuration space has its first n pages.         *)
EcamDirectory(T) == T[EcamThird(T)][PDPT_INDEX(PCIE_VIRTUAL_BASE)].frame

EcamTable(T, n, base) ==
    /\ page_table_l4 \in DOMAIN T /\ PML4_INDEX(PCIE_VIRTUAL_BASE) \in DOMAIN T[page_table_l4]
    /\ EcamThird(T) \in DOMAIN T /\ PDPT_INDEX(PCIE_VIRTUAL_BASE) \in DOMAIN T[EcamThird(T)]
    /\ EcamDirectory(T) \in DOMAIN T
    /\ DOMAIN T[EcamDirectory(T)] = 0..(n - 1)
    /\ \A j \in 0..(n - 1) : T[EcamDirectory(T)][j] = Page(base + j * LARGE)

(* None of them before the first.                                          *)
EcamPages(T, n, base) == IF n = 0 THEN T = setup_page_tables ELSE EcamTable(T, n, base)

(* So the processor takes an address of the space to its place behind base.*)
LEMMA EcamLeads ==
    ASSUME NEW T, NEW n \in Nat \ {0}, NEW base \in Nat, base % LARGE = 0,
           EcamTable(T, n, base), NEW off \in Nat, off < GIB
    PROVE  translate(T, PCIE_VIRTUAL_BASE + off) =
               IF off \div LARGE < n THEN base + off ELSE UNMAPPED
  <1> DEFINE v == PCIE_VIRTUAL_BASE + off
             j == off \div LARGE
             r == off % LARGE
             t3 == EcamThird(T)
             t2 == EcamDirectory(T)
             i4 == PML4_INDEX(PCIE_VIRTUAL_BASE)
             i3 == PDPT_INDEX(PCIE_VIRTUAL_BASE)
             e == Page(base + j * LARGE)
  <1>1. /\ (v \div (ENTRIES * GIB)) % ENTRIES = i4
        /\ (v \div GIB) % ENTRIES = i3
        /\ (v \div LARGE) % ENTRIES = j /\ v % LARGE = r
    BY EcamDigits DEF PML4_INDEX, PDPT_INDEX, PD_INDEX
  <1>2. LARGE \in Nat \ {0} /\ j \in Nat /\ r \in Nat /\ r < LARGE /\ off = LARGE * j + r
    BY Spans, DivMod
  <1>3. e.frame = base + j * LARGE /\ e.large
    BY DEF Page
  <1> HIDE DEF v, j, r, e
  <1>4. e.frame % LARGE = 0 /\ e.frame + r = base + off
    <2>1. base \div LARGE \in Nat /\ base = LARGE * (base \div LARGE) + 0
      BY <1>2, DivMod
    <2> DEFINE q == base \div LARGE
    <2> HIDE DEF q
    <2>2. q \in Nat /\ base = LARGE * q
      <3>1. q \in Nat /\ base = LARGE * q + 0
        BY <2>1 DEF q
      <3>2. LARGE * q \in Nat
        BY <1>2, <3>1
      <3> QED BY <3>1, <3>2
    <2>3. e.frame = LARGE * (q + j)
      BY <1>2, <1>3, <2>2
    <2>4. (LARGE * (q + j)) % LARGE = 0
      <3> DEFINE s == q + j
      <3>1. s \in Nat
        BY <1>2, <2>2
      <3>2. LARGE \in Nat \ {0} /\ 0 \in Nat /\ 0 < LARGE
        BY <1>2
      <3> HIDE DEF s
      <3>3. (LARGE * s) % LARGE = 0
        BY <3>1, <3>2, MultipleMod
      <3> QED BY <3>3 DEF s
    <2>5. j * LARGE = LARGE * j /\ LARGE * j \in Nat
      BY <1>2
    <2> QED BY <1>2, <1>3, <2>3, <2>4, <2>5
  <1>5. /\ page_table_l4 \in DOMAIN T /\ i4 \in DOMAIN T[page_table_l4]
        /\ T[page_table_l4][i4].frame = t3
        /\ t3 \in DOMAIN T /\ i3 \in DOMAIN T[t3] /\ T[t3][i3].frame = t2
        /\ t2 \in DOMAIN T /\ DOMAIN T[t2] = 0..(n - 1)
    BY DEF EcamTable, EcamThird, EcamDirectory
  <1>6. j < n => T[t2][j] = e
    <2> SUFFICES ASSUME j < n PROVE T[t2][j] = e
      OBVIOUS
    <2>1. j \in 0..(n - 1)
      BY <1>2
    <2> QED BY <2>1 DEF EcamTable, e
  <1>7. j \in 0..(n - 1) <=> j < n
    BY <1>2
  <1> HIDE DEF t3, t2, i4, i3
  <1>8. CASE j < n
    <2>1. j \in DOMAIN T[t2] /\ T[t2][j] = e
      BY <1>5, <1>6, <1>7, <1>8
    <2>2. translate(T, v) = e.frame + (v % LARGE)
      BY <1>1, <1>3, <1>4, <1>5, <2>1 DEF translate
    <2> QED BY <1>1, <1>4, <1>8, <2>2 DEF v, j
  <1>9. CASE ~(j < n)
    <2>1. j \notin DOMAIN T[t2]
      BY <1>5, <1>7, <1>9
    <2>2. translate(T, v) = UNMAPPED
      BY <1>1, <1>5, <2>1 DEF translate
    <2> QED BY <1>9, <2>2 DEF v, j
  <1> QED BY <1>8, <1>9

(* The first large page: both tables above it are new.                     *)
LEMMA FirstLarge ==
    ASSUME NEW m, NEW level, VmOk(m, level), ~m.halted, m.tables = setup_page_tables,
           NEW base, NEW v, PML4_INDEX(v) = PML4_INDEX(PCIE_VIRTUAL_BASE), PML4_INDEX(v) # 0,
           PDPT_INDEX(v) = PDPT_INDEX(PCIE_VIRTUAL_BASE), PD_INDEX(v) = 0,
           NEW phys, Page(phys) = Page(base + 0 * LARGE),
           NEW n, n = map_large(m, v, phys), ~n.halted
    PROVE  EcamTable(n.tables, 1, base)
  <1> DEFINE i4 == PML4_INDEX(v)
             i3 == PDPT_INDEX(v)
             root == page_table_l4
             a == table_below(m, root, i4)
             t3 == a.tables[root][i4].frame
             b == table_below(a, t3, i3)
  <1>1. root \in DOMAIN m.tables /\ level[root] = 4 /\ i4 \notin DOMAIN m.tables[root]
    <2>1. DOMAIN m.tables[root] = {0}
      BY BootEntries
    <2> QED BY <2>1 DEF VmOk, Leveled
  <1>2. tables_for(m, v) = IF a.halted THEN a ELSE b
    BY DEF tables_for
  <1>3. n = IF tables_for(m, v).halted THEN tables_for(m, v)
            ELSE [tables_for(m, v) EXCEPT !.tables =
                     Written(@, directory(tables_for(m, v), v), PD_INDEX(v), Page(phys))]
    BY DEF map_large, Written
  <1>4. a = NewTable(m, root, i4)
    BY <1>1 DEF table_below
  <1> HIDE DEF a
  <1>5. PICK la : /\ VmOk(a, la) /\ Grows(m, level, a, la)
                  /\ ~a.halted => i4 \in DOMAIN a.tables[root] /\ ~a.tables[root][i4].large
    <2>1. level[root] > 1
      BY <1>1
    <2> HIDE DEF i4, root
    <2> QED BY <1>1, <1>4, <2>1, NewTableOk
  <1>6. ~a.halted /\ tables_for(m, v) = b
    <2>1. ASSUME a.halted PROVE FALSE
      BY <1>2, <1>3, <2>1
    <2> QED BY <1>2, <2>1
  <1>7. PICK new3 : new3 \notin DOMAIN m.tables /\ GrownFacts(m.tables, root, i4, new3, a.tables)
    <2> HIDE DEF i4, root
    <2> QED BY <1>1, <1>4, <1>6, NewTableEmpty
  <1>8. /\ t3 = new3 /\ t3 \in DOMAIN a.tables /\ DOMAIN a.tables[t3] = {} /\ t3 # root
        /\ root \in DOMAIN a.tables /\ i4 \in DOMAIN a.tables[root]
    BY <1>1, <1>7 DEF GrownFacts
  <1>9. b = NewTable(a, t3, i3)
    BY <1>6, <1>8 DEF table_below
  <1>10. la[t3] = 3
    <2>1. Leveled(a.tables, la) /\ la[root] = 4
      BY <1>5 DEF VmOk, Leveled
    <2> QED BY <1>5, <1>8, <2>1, BelowRoot
  <1> HIDE DEF b
  <1>11. PICK lb : VmOk(b, lb)
    <2>1. la[t3] > 1 /\ i3 \notin DOMAIN a.tables[t3] /\ t3 \in DOMAIN a.tables
      BY <1>8, <1>10
    <2> HIDE DEF t3, i3
    <2> QED BY <1>5, <1>6, <1>9, <2>1, NewTableOk
  <1>12. ~b.halted
    BY <1>3, <1>6
  <1>13. PICK new2 : new2 \notin DOMAIN a.tables /\ GrownFacts(a.tables, t3, i3, new2, b.tables)
    <2>1. i3 \notin DOMAIN a.tables[t3] /\ t3 \in DOMAIN a.tables
      BY <1>8
    <2> HIDE DEF t3, i3
    <2> QED BY <1>5, <1>6, <1>9, <1>12, <2>1, NewTableEmpty
  <1>14. /\ new2 \in DOMAIN b.tables /\ DOMAIN b.tables[new2] = {}
         /\ t3 \in DOMAIN b.tables /\ i3 \in DOMAIN b.tables[t3] /\ b.tables[t3][i3].frame = new2
         /\ root \in DOMAIN b.tables /\ b.tables[root] = a.tables[root]
         /\ new2 # t3 /\ new2 # root
    BY <1>8, <1>13 DEF GrownFacts
  <1>15. directory(b, v) = new2
    BY <1>14 DEF directory
  <1>16. n = [b EXCEPT !.tables = Written(@, new2, 0, Page(phys))]
    BY <1>3, <1>6, <1>12, <1>15
  <1>17. n.tables = Written(b.tables, new2, 0, Page(phys))
    BY <1>11, <1>16 DEF VmOk
  <1> DEFINE e == Page(phys)
             U == n.tables
             T == b.tables
  <1>18. WrittenFacts(T, new2, 0, e, U)
    <2> HIDE DEF e, U, T
    <2>1. U = Written(T, new2, 0, e) /\ new2 \in DOMAIN T
      BY <1>14, <1>17 DEF e, U, T
    <2> QED BY <2>1, WrittenTables
  <1> HIDE DEF U
  <1>19. /\ root \in DOMAIN U /\ i4 \in DOMAIN U[root] /\ U[root][i4].frame = t3
         /\ t3 \in DOMAIN U /\ i3 \in DOMAIN U[t3] /\ U[t3][i3].frame = new2
         /\ new2 \in DOMAIN U /\ DOMAIN U[new2] = {0} /\ U[new2][0] = e
    BY <1>8, <1>14, <1>18 DEF WrittenFacts
  <1>20. EcamThird(U) = t3 /\ EcamDirectory(U) = new2
    BY <1>19 DEF EcamThird, EcamDirectory
  <1>21. 0..(1 - 1) = {0} /\ e = Page(base + 0 * LARGE)
    OBVIOUS
  <1>22. EcamTable(U, 1, base)
    BY <1>19, <1>20, <1>21 DEF EcamTable
  <1> QED BY <1>22 DEF U

(* Each further one: they are there.                                       *)
LEMMA NextLarge ==
    ASSUME NEW m, NEW level, VmOk(m, level), ~m.halted,
           NEW base, NEW k \in Nat \ {0}, EcamTable(m.tables, k, base),
           NEW v, PML4_INDEX(v) = PML4_INDEX(PCIE_VIRTUAL_BASE),
           PDPT_INDEX(v) = PDPT_INDEX(PCIE_VIRTUAL_BASE), PD_INDEX(v) = k,
           NEW phys, Page(phys) = Page(base + k * LARGE),
           NEW n, n = map_large(m, v, phys)
    PROVE  EcamTable(n.tables, k + 1, base)
  <1> DEFINE i4 == PML4_INDEX(v)
             i3 == PDPT_INDEX(v)
             root == page_table_l4
             T == m.tables
             t3 == EcamThird(T)
             t2 == EcamDirectory(T)
             e == Page(phys)
             U == n.tables
  <1>1. /\ root \in DOMAIN T /\ i4 \in DOMAIN T[root] /\ T[root][i4].frame = t3
        /\ t3 \in DOMAIN T /\ i3 \in DOMAIN T[t3] /\ T[t3][i3].frame = t2
        /\ t2 \in DOMAIN T /\ DOMAIN T[t2] = 0..(k - 1)
        /\ \A j \in 0..(k - 1) : T[t2][j] = Page(base + j * LARGE)
    BY DEF EcamTable, EcamThird, EcamDirectory
  <1>2. t2 # t3 /\ t2 # root
    <2>1. Leveled(T, level) /\ level[root] = 4
      BY DEF VmOk, Leveled
    <2>2. level[t3] = 3
      BY <1>1, <2>1, BelowRoot
    <2>3. level[t2] = 2
      BY <1>1, <2>1, <2>2, BelowRoot
    <2> QED BY <2>1, <2>2, <2>3
  <1>3. tables_for(m, v) = m /\ directory(m, v) = t2
    BY <1>1 DEF tables_for, table_below, directory
  <1>4. n = [m EXCEPT !.tables = Written(@, t2, k, e)]
    BY <1>3 DEF map_large, Written
  <1>5. U = Written(T, t2, k, e)
    BY <1>4 DEF VmOk
  <1> HIDE DEF U, T, e
  <1>6. WrittenFacts(T, t2, k, e, U)
    <2> HIDE DEF t2
    <2> QED BY <1>1, <1>5, WrittenTables
  <1> HIDE DEF t3, t2
  <1>7. /\ root \in DOMAIN U /\ i4 \in DOMAIN U[root] /\ U[root][i4].frame = t3
        /\ t3 \in DOMAIN U /\ i3 \in DOMAIN U[t3] /\ U[t3][i3].frame = t2
        /\ t2 \in DOMAIN U /\ DOMAIN U[t2] = (0..(k - 1)) \cup {k} /\ U[t2][k] = e
        /\ \A j \in 0..(k - 1) : U[t2][j] = T[t2][j]
    BY <1>1, <1>2, <1>6 DEF WrittenFacts
  <1>8. EcamThird(U) = t3 /\ EcamDirectory(U) = t2
    BY <1>7 DEF EcamThird, EcamDirectory
  <1>9. (0..(k - 1)) \cup {k} = 0..((k + 1) - 1)
    OBVIOUS
  <1>10. \A j \in 0..((k + 1) - 1) : U[t2][j] = Page(base + j * LARGE)
    <2> TAKE j \in 0..((k + 1) - 1)
    <2>1. CASE j = k
      BY <1>7, <2>1 DEF e
    <2>2. CASE j # k
      <3>1. j \in 0..(k - 1)
        BY <2>2
      <3> QED BY <1>1, <1>7, <3>1
    <2> QED BY <2>1, <2>2
  <1>11. EcamTable(U, k + 1, base)
    BY <1>7, <1>8, <1>9, <1>10 DEF EcamTable
  <1> QED BY <1>11 DEF U

(* The space as the loop leaves it, and once it is done.                   *)
EcamEnd(e) == (e.end + 1) * BUS

EcamLoop(n, e) ==
    /\ loop.virt = PCIE_VIRTUAL_BASE + n * LARGE
    /\ loop.phys = e.base + n * LARGE
    /\ loop.end = PCIE_VIRTUAL_BASE + EcamEnd(e)
    /\ ~vm.halted => EcamPages(vm.tables, n, e.base)

EcamWhole(n, e) == EcamEnd(e) <= n * LARGE /\ EcamPages(vm.tables, n, e.base)

Booted == {"gdt", "memory", "idt", "vbe", "tags", "acpi"}

EcamInv ==
    /\ pc \in BeforePaging \cup Booted => segment = 0
    /\ pc \in Booted \cup {"segment"} /\ segment = 0 => vm.tables = setup_page_tables
    /\ pc = "ecam" => segment = 1 /\ \E n \in Nat : EcamLoop(n, machine.mcfg[1])
    /\ pc \in Enumerating => segment = 1 /\ \E n \in Nat : EcamWhole(n, machine.mcfg[1])

(* An entry of the MCFG, by the numbers its fields have.                   *)
LEMMA EcamEntry ==
    ASSUME OneSegment, machine \in Machines, 1 \in 1..Len(machine.mcfg)
    PROVE  LET e == machine.mcfg[1] IN
           /\ Len(machine.mcfg) = 1
           /\ e.start = 0 /\ e.base \in Nat /\ e.base % LARGE = 0
           /\ e.end \in Nat /\ e.end < BYTE
           /\ EcamEnd(e) \in Nat \ {0} /\ EcamEnd(e) <= GIB
  <1> DEFINE e == machine.mcfg[1]
  <1>1. e \in [base : Nat, start : 0..(BYTE - 1), end : 0..(BYTE - 1)]
    <2>1. machine.mcfg \in Seq([base : Nat, start : 0..(BYTE - 1), end : 0..(BYTE - 1)])
      BY MachineAssumption DEF WellFormed
    <2> QED BY <2>1, ElementOfSeq
  <1>2. Len(machine.mcfg) = 1
    <2>1. machine.mcfg \in Seq([base : Nat, start : 0..(BYTE - 1), end : 0..(BYTE - 1)])
      BY MachineAssumption DEF WellFormed
    <2>2. Len(machine.mcfg) <= 1
      BY DEF OneSegment
    <2> DEFINE L == Len(machine.mcfg)
    <2>3. L \in Nat
      BY <2>1
    <2>4. L <= 1 /\ 1 \in 1..L
      BY <2>2
    <2> HIDE DEF L
    <2>5. L = 1
      BY <2>3, <2>4
    <2> QED BY <2>5 DEF L
  <1>3. e.start = 0 /\ e.base % LARGE = 0
    BY DEF OneSegment
  <1> HIDE DEF e
  <1>4. BYTE \in Nat /\ BYTE * BUS <= GIB /\ GIB \in Nat /\ BUS \in Nat \ {0}
    BY PcieAssumption, Spans, FunctionPages
  <1>5. e.end \in Nat /\ e.end < BYTE
    BY <1>1, <1>4
  <1> DEFINE U == BUS
             k == e.end + 1
             d == BYTE - k
  <1>6. k \in Nat \ {0} /\ d \in Nat /\ BYTE = k + d /\ U \in Nat \ {0}
    BY <1>4, <1>5
  <1> HIDE DEF k, d, U
  <1>7. BYTE * U = k * U + d * U /\ k * U \in Nat \ {0} /\ d * U \in Nat
    BY <1>6
  <1>8. k * U \in Nat \ {0} /\ k * U <= GIB
    BY <1>4, <1>7 DEF U
  <1>9. EcamEnd(e) = k * U
    BY DEF EcamEnd, k, U
  <1>10. e.base \in Nat
    BY <1>1
  <1> QED BY <1>2, <1>3, <1>5, <1>8, <1>9, <1>10 DEF e

(* Only these steps write to the tables before drivers do.                 *)
LEMMA EcamFrame ==
    ASSUME LoopInv, RootInv, VmInv, [Next]_vars
    PROVE  /\ UNCHANGED machine
           /\ \/ SetupPageTables \/ NextSegment \/ MapEcam
              \/ UNCHANGED <<pc, segment, vm, loop>>
              \/ /\ UNCHANGED segment
                 /\ \/ pc \in BeforePaging /\ pc' \in BeforePaging
                    \/ pc \in Booted /\ pc' \in Booted \cup Finished \cup {"segment"}
                       /\ vm'.tables = vm.tables
                    \/ pc \in Enumerating /\ pc' \in Enumerating \cup {"segment"} /\ UNCHANGED vm
                    \/ pc \in Finished \cup {"segment", "mmio"} /\ pc' \in Finished \cup {"mmio"}
  <1>1. UNCHANGED machine
    BY TablesFrame
  <1>2. CASE Probe \/ Visit \/ Bridge \/ Return \/ SizeBar \/ Restore \/ ProgramEntry \/ EnableMsix
    <2>1. UNCHANGED <<segment, vm>>
      BY <1>2 DEF SizeBar, Restore, ProgramEntry, EnableMsix, Probe, Visit, Bridge, Return
    <2>2. pc \in Enumerating
      BY <1>2 DEF SizeBar, Restore, ProgramEntry, EnableMsix, Probe, Visit, Bridge, Return, Enumerating
    <2>3. pc' \in Enumerating \cup {"segment"}
      BY <1>2 DEF SizeBar, Restore, ProgramEntry, EnableMsix, Probe, Visit, Bridge, Return, Enumerating
    <2> QED BY <1>1, <2>1, <2>2, <2>3
  <1>3. CASE MapBar
    <2>1. pc = "map_bar" /\ UNCHANGED <<segment, vm>> /\ g_pml4_virt = NULL
      BY <1>3 DEF MapBar, RootInv, Finished
    <2>2. pc' = "bar"
      BY <1>3, <2>1 DEF MapBar, MapRange
    <2> QED BY <1>1, <2>1, <2>2 DEF Enumerating
  <1>4. CASE MapMsixTable
    <2>1. pc = "bar" /\ UNCHANGED <<segment, vm>> /\ g_pml4_virt = NULL
      BY <1>4 DEF MapMsixTable, RootInv, Finished
    <2>2. pc' \in {"bridge", "program"}
      BY <1>4, <2>1 DEF MapMsixTable, MapRange
    <2> QED BY <1>1, <2>1, <2>2 DEF Enumerating
  <1>5. CASE MapMmio
    <2>1. pc = "mmio" /\ UNCHANGED segment /\ loop.next = "idle"
      BY <1>5 DEF MapMmio, RootInv
    <2>2. pc' \in {"mmio", "idle"}
      BY <1>5, <2>1 DEF MapMmio
    <2> QED BY <1>1, <2>1, <2>2 DEF Finished
  <1>6. CASE MemoryInit
    <2>1. /\ pc = "memory" /\ pc' = "idt" /\ vm' = [vm EXCEPT !.pool = memory_init]
          /\ PlainVm /\ UNCHANGED segment
      BY <1>6 DEF MemoryInit, VmInv, BeforeMemory
    <2>2. vm'.tables = vm.tables
      BY <2>1 DEF PlainVm
    <2> QED BY <1>1, <2>1, <2>2 DEF Booted
  <1>7. CASE TestMalloc
    BY <1>1, <1>7 DEF TestMalloc, Finished
  <1>8. CASE KernelStep /\ ~PcieStep /\ ~SetupPageTables /\ ~MemoryInit /\ ~TestMalloc
    BY <1>1, <1>8 DEF KernelStep, Checks, GdtInitialize,
        IdtInitialize, VbeInit, Tags, FindMcfg, InitPcieDone,
        pcie_set_pml4_and_offset, pcie_vars, BeforePaging, Booted, Finished
  <1>9. CASE EnableDevice
    BY <1>1, <1>9 DEF EnableDevice, pcie_enable_device
  <1>10. CASE MapResource
    BY <1>1, <1>10 DEF MapResource, pcie_map_phys_mmio, MapRange, Finished
  <1>11. CASE Interrupt
    BY <1>1, <1>11 DEF Interrupt, pcie_vars
  <1>12. CASE UNCHANGED vars
    BY <1>1, <1>12 DEF vars, pcie_vars
  <1> QED BY <1>1, <1>2, <1>3, <1>4, <1>5, <1>6, <1>7, <1>8, <1>9, <1>10, <1>11, <1>12
          DEF Next, KernelStep, PcieStep, PcieNext

(* The loop begins with the tables of boot.                                *)
LEMMA NextSegmentEcam ==
    ASSUME OneSegment, LoopInv, VmInv, EcamInv, NextSegment
    PROVE  EcamInv'
  <1> DEFINE e == machine.mcfg[1]
  <1>1. /\ pc = "segment" /\ pc' = "ecam" /\ segment < Len(machine.mcfg)
        /\ segment' = segment + 1 /\ UNCHANGED <<machine, vm>>
        /\ loop'.virt = PCIE_VIRTUAL_BASE + machine.mcfg[segment + 1].start * BUS
        /\ loop'.phys = machine.mcfg[segment + 1].base
        /\ loop'.end = (PCIE_VIRTUAL_BASE + machine.mcfg[segment + 1].start * BUS)
              + ((machine.mcfg[segment + 1].end - machine.mcfg[segment + 1].start) + 1) * BUS
    BY DEF NextSegment, LoopInv
  <1>2. machine \in Machines /\ segment \in Nat
    BY DEF VmInv
  <1>3. Len(machine.mcfg) <= 1 /\ Len(machine.mcfg) \in Nat
    <2>1. machine.mcfg \in Seq([base : Nat, start : 0..(BYTE - 1), end : 0..(BYTE - 1)])
      BY <1>2, MachineAssumption DEF WellFormed
    <2> QED BY <1>2, <2>1 DEF OneSegment
  <1>4. segment = 0 /\ 1 \in 1..Len(machine.mcfg)
    BY <1>1, <1>2, <1>3
  <1>5. e.start = 0 /\ e.base \in Nat /\ e.end \in Nat /\ EcamEnd(e) \in Nat
    BY <1>2, <1>4, EcamEntry
  <1>6. BUS \in Nat /\ LARGE \in Nat /\ PCIE_VIRTUAL_BASE \in Int
    BY FunctionPages, Spans, RootSpan DEF PCIE_VIRTUAL_BASE
  <1>7. 0 + 1 = 1 /\ machine.mcfg[segment + 1] = e
    BY <1>4
  <1>8. /\ loop'.virt = PCIE_VIRTUAL_BASE + 0 * BUS /\ loop'.phys = e.base
        /\ loop'.end = (PCIE_VIRTUAL_BASE + 0 * BUS) + ((e.end - 0) + 1) * BUS
    BY <1>1, <1>5, <1>7
  <1> HIDE DEF e
  <1>9. 0 * BUS = 0 /\ 0 * LARGE = 0 /\ (e.end - 0) + 1 = e.end + 1
    BY <1>5, <1>6
  <1>10. /\ loop'.virt = PCIE_VIRTUAL_BASE + 0 * LARGE /\ loop'.phys = e.base + 0 * LARGE
         /\ loop'.end = PCIE_VIRTUAL_BASE + EcamEnd(e)
    BY <1>5, <1>6, <1>8, <1>9 DEF EcamEnd
  <1>11. EcamPages(vm.tables, 0, e.base)
    BY <1>1, <1>4 DEF EcamInv, EcamPages
  <1>12. EcamLoop(0, e)'
    BY <1>1, <1>10, <1>11 DEF EcamLoop, e
  <1>13. segment' = 1
    BY <1>1, <1>4
  <1> QED BY <1>1, <1>12, <1>13 DEF EcamInv, BeforePaging, Booted, Enumerating, e

(* Page n of the space lies where the loop has come to.                    *)
LEMMA PageOfSpace ==
    ASSUME NEW n \in Nat, NEW end \in Nat, end <= GIB,
           PCIE_VIRTUAL_BASE + n * LARGE < PCIE_VIRTUAL_BASE + end
    PROVE  LET v == PCIE_VIRTUAL_BASE + n * LARGE IN
           /\ PML4_INDEX(v) = PML4_INDEX(PCIE_VIRTUAL_BASE) /\ PML4_INDEX(v) # 0
           /\ PDPT_INDEX(v) = PDPT_INDEX(PCIE_VIRTUAL_BASE) /\ PD_INDEX(v) = n
  <1> DEFINE B == PCIE_VIRTUAL_BASE
             off == n * LARGE
             v == B + off
  <1>1. LARGE \in Nat \ {0} /\ GIB \in Nat /\ UINTPTR_MOD \in Nat /\ GIB <= UINTPTR_MOD
        /\ B = UINTPTR_MOD - GIB
    BY Spans, RootSpan DEF PCIE_VIRTUAL_BASE
  <1>2. off \in Nat
    BY <1>1
  <1>3. off \div LARGE = n
    <2>1. off = LARGE * n
      BY <1>1
    <2>2. 0 \in Nat /\ 0 < LARGE
      BY <1>1
    <2> QED BY <1>1, <2>1, <2>2, MultipleMod
  <1> HIDE DEF off
  <1>4. off < GIB
    BY <1>1, <1>2 DEF off
  <1>5. /\ v \in Nat /\ v < UINTPTR_MOD
        /\ PML4_INDEX(v) = PML4_INDEX(B) /\ PDPT_INDEX(v) = PDPT_INDEX(B) /\ PD_INDEX(v) = n
    BY <1>2, <1>3, <1>4, EcamDigits
  <1>6. PCIE_VIRTUAL_BASE <= v
    BY <1>1, <1>2
  <1> HIDE DEF v
  <1>7. PML4_INDEX(v) # 0
    BY <1>5, <1>6, EcamRoot
  <1> QED BY <1>5, <1>7 DEF v, off

(* One large page more.                                                    *)
LEMMA MapEcamPage ==
    ASSUME LoopInv, TablesSound, NEW e, e.base \in Nat, EcamEnd(e) \in Nat, EcamEnd(e) <= GIB,
           NEW n \in Nat, EcamLoop(n, e), ~vm.halted,
           vm' = map_large(vm, loop.virt, loop.phys), loop.virt < loop.end, ~vm'.halted
    PROVE  EcamPages(vm'.tables, n + 1, e.base)
  <1> DEFINE v == loop.virt
             base == e.base
             phys == loop.phys
  <1>1. v = PCIE_VIRTUAL_BASE + n * LARGE /\ phys = base + n * LARGE
        /\ loop.end = PCIE_VIRTUAL_BASE + EcamEnd(e)
        /\ EcamPages(vm.tables, n, base)
    BY DEF EcamLoop
  <1>2. PCIE_VIRTUAL_BASE + n * LARGE < PCIE_VIRTUAL_BASE + EcamEnd(e)
    BY <1>1
  <1>3. /\ PML4_INDEX(v) = PML4_INDEX(PCIE_VIRTUAL_BASE) /\ PML4_INDEX(v) # 0
        /\ PDPT_INDEX(v) = PDPT_INDEX(PCIE_VIRTUAL_BASE) /\ PD_INDEX(v) = n
    BY <1>1, <1>2, PageOfSpace
  <1>4. PICK level : VmOk(vm, level)
    BY DEF TablesSound
  <1>5. Page(phys) = Page(base + n * LARGE)
    BY <1>1
  <1> DEFINE w == vm'
  <1>6. w = map_large(vm, v, phys) /\ ~w.halted
    OBVIOUS
  <1> HIDE DEF v, base, phys, w
  <1>7. CASE n = 0
    <2>1. vm.tables = setup_page_tables
      BY <1>1, <1>7 DEF EcamPages
    <2>2. EcamTable(w.tables, 1, base)
      BY <1>3, <1>4, <1>5, <1>6, <1>7, <2>1, FirstLarge
    <2>3. n + 1 = 1
      BY <1>7
    <2> QED BY <2>2, <2>3 DEF EcamPages, w, base
  <1>8. CASE n # 0
    <2>1. n \in Nat \ {0} /\ EcamTable(vm.tables, n, base)
      BY <1>1, <1>8 DEF EcamPages
    <2>2. EcamTable(w.tables, n + 1, base)
      BY <1>3, <1>4, <1>5, <1>6, <2>1, NextLarge
    <2>3. n + 1 # 0
      OBVIOUS
    <2> QED BY <2>2, <2>3 DEF EcamPages, w, base
  <1> QED BY <1>7, <1>8

(* The loop of map_pcie_ecam_2mb.                                          *)
LEMMA MapEcamKeeps ==
    ASSUME OneSegment, LoopInv, VmInv, StackInv, EcamInv, MapEcam
    PROVE  EcamInv'
  <1> DEFINE e == machine.mcfg[1]
  <1>1. pc = "ecam" /\ ~vm.halted /\ UNCHANGED <<machine, segment>> /\ segment = 1
    BY DEF MapEcam, EcamInv
  <1>2. PICK n \in Nat : EcamLoop(n, e)
    BY <1>1 DEF EcamInv
  <1>3. machine \in Machines /\ TablesSound
    BY <1>1 DEF VmInv, BeforeMemory
  <1>4. 1 \in 1..Len(machine.mcfg)
    BY <1>1 DEF StackInv
  <1>5. e.base \in Nat /\ EcamEnd(e) \in Nat /\ EcamEnd(e) <= GIB
    BY <1>3, <1>4, EcamEntry
  <1>6. LARGE \in Nat /\ PCIE_VIRTUAL_BASE \in Int
    BY Spans, RootSpan DEF PCIE_VIRTUAL_BASE
  <1>7. CASE loop.virt < loop.end
    <2>1. /\ vm' = map_large(vm, loop.virt, loop.phys) /\ pc' = "ecam"
          /\ loop'.virt = loop.virt + LARGE /\ loop'.phys = loop.phys + LARGE
          /\ loop'.end = loop.end
      BY <1>1, <1>7 DEF MapEcam, LoopInv
    <2>2. ~vm'.halted => EcamPages(vm'.tables, n + 1, e.base)
      <3> HIDE DEF e
      <3> QED BY <1>1, <1>2, <1>3, <1>5, <1>7, <2>1, MapEcamPage
    <2>3. (n + 1) * LARGE = n * LARGE + LARGE /\ n * LARGE \in Nat
      BY <1>6
    <2>4. loop.virt = PCIE_VIRTUAL_BASE + n * LARGE /\ loop.phys = e.base + n * LARGE
          /\ loop.end = PCIE_VIRTUAL_BASE + EcamEnd(e)
      BY <1>2 DEF EcamLoop
    <2>5. /\ loop'.virt = PCIE_VIRTUAL_BASE + (n + 1) * LARGE
          /\ loop'.phys = e.base + (n + 1) * LARGE
      <3> HIDE DEF e
      <3> QED BY <1>5, <1>6, <2>1, <2>3, <2>4
    <2>6. EcamLoop(n + 1, e)'
      BY <1>1, <2>1, <2>2, <2>4, <2>5 DEF EcamLoop, EcamEnd
    <2>7. n + 1 \in Nat
      OBVIOUS
    <2> QED BY <1>1, <2>1, <2>6, <2>7 DEF EcamInv, BeforePaging, Booted, Enumerating
  <1>8. CASE ~(loop.virt < loop.end)
    <2>1. pc' = "walk" /\ UNCHANGED vm
      BY <1>8 DEF MapEcam
    <2>2. EcamEnd(e) <= n * LARGE
      <3>1. n * LARGE \in Nat
        BY <1>6
      <3>2. loop.virt = PCIE_VIRTUAL_BASE + n * LARGE /\ loop.end = PCIE_VIRTUAL_BASE + EcamEnd(e)
        BY <1>2 DEF EcamLoop
      <3> HIDE DEF e
      <3> QED BY <1>5, <1>6, <1>8, <3>1, <3>2
    <2>3. EcamPages(vm.tables, n, e.base)
      BY <1>1, <1>2 DEF EcamLoop
    <2>4. EcamWhole(n, e)'
      BY <1>1, <2>1, <2>2, <2>3 DEF EcamWhole, EcamEnd
    <2> QED BY <1>1, <2>1, <2>4 DEF EcamInv, BeforePaging, Booted, Enumerating
  <1> QED BY <1>7, <1>8

(* Every step keeps the mapping of the configuration space.                *)
LEMMA EcamStepKeeps ==
    ASSUME OneSegment, LoopInv, RootInv, VmInv, StackInv, EcamInv, [Next]_vars
    PROVE  EcamInv'
  <1>1. UNCHANGED machine
    BY EcamFrame
  <1>2. CASE SetupPageTables
    <2>1. pc = "paging" /\ pc' = "gdt" /\ UNCHANGED segment
          /\ vm' = [vm EXCEPT !.tables = setup_page_tables] /\ PlainVm
      BY <1>2 DEF SetupPageTables, VmInv, BeforeMemory
    <2>2. vm'.tables = setup_page_tables
      BY <2>1 DEF PlainVm
    <2>3. segment' = 0
      BY <2>1 DEF EcamInv, BeforePaging
    <2> QED BY <2>1, <2>2, <2>3 DEF EcamInv, BeforePaging, Booted, Enumerating
  <1>3. CASE UNCHANGED <<pc, segment, vm, loop>>
    <2>1. \A n : EcamLoop(n, machine.mcfg[1]) => EcamLoop(n, machine.mcfg[1])'
      BY <1>1, <1>3 DEF EcamLoop, EcamEnd
    <2>2. \A n : EcamWhole(n, machine.mcfg[1]) => EcamWhole(n, machine.mcfg[1])'
      BY <1>1, <1>3 DEF EcamWhole, EcamEnd
    <2> QED BY <1>1, <1>3, <2>1, <2>2 DEF EcamInv
  <1>4. CASE UNCHANGED segment /\ pc \in BeforePaging /\ pc' \in BeforePaging
    BY <1>4 DEF EcamInv, BeforePaging, Booted, Enumerating
  <1>5. CASE UNCHANGED segment /\ pc \in Booted /\ pc' \in Booted \cup Finished \cup {"segment"}
             /\ vm'.tables = vm.tables
    BY <1>5 DEF EcamInv, BeforePaging, Booted, Enumerating, Finished
  <1>6. CASE UNCHANGED segment /\ pc \in Enumerating /\ pc' \in Enumerating \cup {"segment"}
             /\ UNCHANGED vm
    <2>1. \A n : EcamWhole(n, machine.mcfg[1]) => EcamWhole(n, machine.mcfg[1])'
      BY <1>1, <1>6 DEF EcamWhole, EcamEnd
    <2>2. segment' = 1 /\ \E n \in Nat : EcamWhole(n, machine.mcfg[1])'
      BY <1>6, <2>1 DEF EcamInv
    <2> QED BY <1>6, <2>2 DEF EcamInv, BeforePaging, Booted, Enumerating
  <1>7. CASE pc' \in Finished \cup {"mmio"}
    BY <1>7 DEF EcamInv, BeforePaging, Booted, Enumerating, Finished
  <1> QED BY <1>1, <1>2, <1>3, <1>4, <1>5, <1>6, <1>7, EcamFrame, NextSegmentEcam, MapEcamKeeps

(* So it is in order in every state.                                       *)
LEMMA EcamKept == OneSegment => (Spec => []EcamInv)
  <1>1. Init => EcamInv
    BY DEF Init, InitPcieState, EcamInv, BeforePaging, Booted, Enumerating
  <1>2. OneSegment /\ LoopInv /\ VmInv /\ EnumInv /\ EcamInv /\ [Next]_vars => EcamInv'
    BY EcamStepKeeps DEF EnumInv
  <1> SUFFICES ASSUME OneSegment PROVE Spec => []EcamInv
    OBVIOUS
  <1>3. LoopInv /\ VmInv /\ EnumInv /\ EcamInv /\ [Next]_vars => EcamInv'
    BY <1>2
  <1> QED BY <1>1, <1>3, TablesKept, EnumerationKept, PTL DEF Spec

(* While functions are looked for, an address of the space leads to the    *)
(* registers it names, or nowhere.                                         *)
LEMMA SpaceLeads ==
    ASSUME OneSegment, VmInv, StackInv, EcamInv, pc \in Enumerating,
           NEW bus \in 0..(BYTE - 1), NEW dev \in 0..(DEVICES - 1), NEW func \in 0..(FUNCTIONS - 1)
    PROVE  /\ Address(bus, dev, func) \in {ConfigPage(<<bus, dev, func>>), UNMAPPED}
           /\ bus <= machine.mcfg[1].end => Address(bus, dev, func) = ConfigPage(<<bus, dev, func>>)
           /\ machine.mcfg[1].base \in Nat
  <1> DEFINE e == machine.mcfg[1]
             base == e.base
             off == Offset(bus, dev, func)
  <1>1. segment = 1
    BY DEF EcamInv
  <1>2. PICK n \in Nat : EcamWhole(n, e)
    BY DEF EcamInv
  <1>3. machine \in Machines
    BY DEF VmInv
  <1>4. 1 \in 1..Len(machine.mcfg)
    BY <1>1 DEF StackInv
  <1>5. /\ e.start = 0 /\ base \in Nat /\ base % LARGE = 0
        /\ e.end \in Nat /\ EcamEnd(e) \in Nat \ {0}
    BY <1>3, <1>4, EcamEntry
  <1>6. BUS \in Nat /\ LARGE \in Nat \ {0} /\ PCIE_VIRTUAL_BASE \in Int /\ BYTE \in Nat
        /\ FUNCTIONS \in Nat /\ PAGE_SIZE \in Nat /\ DEVICES \in Nat
    BY FunctionPages, Spans, RootSpan, PcieAssumption DEF PCIE_VIRTUAL_BASE
  <1>7. bus \in Nat /\ bus < BYTE
    BY <1>6
  <1>8. off \in Nat /\ off < GIB /\ (bus <= e.end => off < (e.end + 1) * BUS)
    BY <1>5, <1>7, Offsets
  <1>9. ecam_virt_base = PCIE_VIRTUAL_BASE
    <2>1. ecam_virt_base = PCIE_VIRTUAL_BASE + 0 * BUS
      BY <1>1, <1>5 DEF ecam_virt_base
    <2> QED BY <1>6, <2>1
  <1> DEFINE x == bus * BUS
             y == (dev * FUNCTIONS + func) * PAGE_SIZE
  <1>10. x \in Nat /\ y \in Nat /\ off = x + y
    BY <1>6 DEF Offset, FunctionPage
  <1> HIDE DEF x, y, off
  <1>11. Address(bus, dev, func) = translate(vm.tables, PCIE_VIRTUAL_BASE + off)
    <2>1. Address(bus, dev, func) = translate(vm.tables, (PCIE_VIRTUAL_BASE + x) + y)
      BY <1>9 DEF Address, get_pcie_config_addr, x, y
    <2>2. (PCIE_VIRTUAL_BASE + x) + y = PCIE_VIRTUAL_BASE + off
      BY <1>6, <1>10
    <2> QED BY <2>1, <2>2
  <1>12. ConfigPage(<<bus, dev, func>>) = base + off
    <2>1. ConfigPage(<<bus, dev, func>>) = (base + x) + y
      BY DEF ConfigPage, x, y
    <2> HIDE DEF base
    <2> QED BY <1>5, <1>10, <2>1
  <1>13. n # 0 /\ EcamTable(vm.tables, n, base)
    <2>1. EcamEnd(e) <= n * LARGE /\ EcamPages(vm.tables, n, base)
      BY <1>2 DEF EcamWhole
    <2>2. n # 0
      <3> SUFFICES ASSUME n = 0 PROVE FALSE
        OBVIOUS
      <3>1. n * LARGE = 0
        BY <1>6
      <3> HIDE DEF e
      <3> QED BY <1>5, <2>1, <3>1
    <2> QED BY <2>1, <2>2 DEF EcamPages
  <1> HIDE DEF base
  <1>14. Address(bus, dev, func) = IF off \div LARGE < n THEN base + off ELSE UNMAPPED
    BY <1>5, <1>8, <1>11, <1>13, EcamLeads
  <1>15. ASSUME bus <= e.end PROVE off \div LARGE < n
    <2>1. off < n * LARGE
      <3>1. n * LARGE \in Nat /\ EcamEnd(e) <= n * LARGE /\ off < EcamEnd(e)
        BY <1>2, <1>6, <1>8, <1>15 DEF EcamWhole, EcamEnd
      <3> HIDE DEF e
      <3> QED BY <1>5, <1>8, <3>1
    <2> DEFINE j == off \div LARGE
               r == off % LARGE
    <2>2. j \in Nat /\ r \in Nat /\ off = LARGE * j + r
      BY <1>6, <1>8, DivMod
    <2> HIDE DEF j, r
    <2>3. ASSUME j >= n PROVE FALSE
      <3> DEFINE d == j - n
      <3>1. d \in Nat /\ j = n + d
        BY <2>2, <2>3
      <3> HIDE DEF d
      <3>2. LARGE * j = n * LARGE + LARGE * d /\ LARGE * d \in Nat /\ n * LARGE \in Nat
        BY <1>6, <3>1
      <3> QED BY <1>8, <2>1, <2>2, <3>2
    <2> QED BY <2>2, <2>3 DEF j
  <1> QED BY <1>5, <1>12, <1>14, <1>15 DEF base

(***************************************************************************)
(* While the buses of an MCFG entry are enumerated, each configuration     *)
(* address leads to the page of that very function.                        *)
(***************************************************************************)
THEOREM KernelReachesFunctions == OneSegment => (Spec => []EcamTranslates)
  <1> SUFFICES ASSUME OneSegment PROVE Spec => []EcamTranslates
    OBVIOUS
  <1>1. VmInv /\ EnumInv /\ EcamInv => EcamTranslates
    <2> SUFFICES ASSUME VmInv, EnumInv, EcamInv, pc \in Enumerating,
                        NEW bus \in machine.mcfg[segment].start..machine.mcfg[segment].end,
                        NEW dev \in 0..(DEVICES - 1), NEW func \in 0..(FUNCTIONS - 1)
                 PROVE  Address(bus, dev, func) = ConfigPage(<<bus, dev, func>>)
      BY DEF EcamTranslates
    <2>1. StackInv /\ segment = 1 /\ machine \in Machines
      BY DEF EnumInv, EcamInv, VmInv
    <2>2. 1 \in 1..Len(machine.mcfg)
      BY <2>1 DEF StackInv
    <2>3. machine.mcfg[1].start = 0 /\ machine.mcfg[1].end \in Nat /\ machine.mcfg[1].end < BYTE
      BY <2>1, <2>2, EcamEntry
    <2>4. bus \in 0..(BYTE - 1) /\ bus <= machine.mcfg[1].end
      BY <2>1, <2>3, PcieAssumption
    <2> QED BY <2>1, <2>4, SpaceLeads
  <1> QED BY <1>1, EcamKept, TablesKept, EnumerationKept, PTL

-----------------------------------------------------------------------------
(*------------------------------ sizes of BARs -----------------------------*)

(* What the driver reads of a BAR, and what it makes of it.                *)
BarLow(fn, i)   == register(fn, i).value
BarHigh(fn, i)  == IF is_64_bit(BarLow(fn, i)) THEN register(fn, i + 1).value ELSE 0
BarUpper(fn, i) == IF is_64_bit(BarLow(fn, i)) THEN Ones(fn, i + 1) ELSE 0

BarOk(fn, i, b) ==
    /\ pcie_get_bar(BarLow(fn, i), BarHigh(fn, i)) = b.base
    /\ pcie_get_bar_size(BarLow(fn, i), Ones(fn, i), BarUpper(fn, i)) = size_found(b)

(* A BAR for ports, with a register of all bits or of 16.                  *)
LEMMA PortBar ==
    ASSUME NEW fn, NEW i, NEW b, BlockOf(b),
           \/ /\ b.kind = "io"
              /\ register(fn, i) = Register(b.base + 1, REG_MOD - b.size + 1)
           \/ /\ b.kind = "io16"
              /\ register(fn, i) = Register(b.base + 1, HALF_MOD - b.size + 1)
    PROVE  BarOk(fn, i, b)
  <1> DEFINE R == REG_MOD
             S == IF b.kind = "io" THEN REG_MOD ELSE HALF_MOD
             base == b.base
             size == b.size
             low == base + 1
  <1>1. /\ base \in Nat /\ size \in Nat \ {0} /\ R \in Nat \ {0} /\ S \in Nat \ {0}
        /\ size < S /\ S <= R
    <2>1. CASE b.kind = "io"
      BY <2>1, RegisterModulus DEF BlockOf
    <2>2. CASE b.kind = "io16"
      BY <2>2, RegisterModulus, HalfModulus DEF BlockOf
    <2> QED BY <2>1, <2>2
  <1>2. base % 4 = 0 /\ size % 4 = 0 /\ R % 4 = 0 /\ S % 4 = 0
    <2>1. b.kind \in {"io", "io16"}
      OBVIOUS
    <2>2. base % 4 = 0 /\ size % 4 = 0
      BY <2>1, BlockFlags
    <2>3. REG_MOD % 4 = 0
      BY RegisterModulus, RegisterFlags
    <2> QED BY <2>2, <2>3, HalfModulus
  <1>3. BarLow(fn, i) = low /\ Ones(fn, i) = S - size + 1
    <2>1. CASE b.kind = "io"
      BY <2>1, OnesOf DEF BarLow
    <2>2. CASE b.kind = "io16"
      BY <2>2, OnesOf DEF BarLow
    <2> QED BY <2>1, <2>2
  <1>4. size_found(b) = R - (S - size)
    <2>1. CASE b.kind = "io"
      BY <1>1, <2>1 DEF size_found
    <2>2. CASE b.kind = "io16"
      BY <1>1, <2>2 DEF size_found
    <2> QED BY <2>1, <2>2
  <1> HIDE DEF R, S, base, size
  <1>5. is_io(low) /\ ~is_64_bit(low)
    BY <1>1, <1>2 DEF is_io, is_64_bit
  <1>6. BarHigh(fn, i) = 0 /\ BarUpper(fn, i) = 0
    BY <1>3, <1>5 DEF BarHigh, BarUpper
  <1>7. unflagged(low, low) = base /\ unflagged(S - size + 1, low) = S - size
    <2>1. flag_bits(low) = 4
      BY <1>5 DEF flag_bits
    <2>2. low % 4 = 1 /\ (S - size + 1) % 4 = 1
      BY <1>1, <1>2
    <2> QED BY <1>1, <2>1, <2>2 DEF unflagged
  <1> HIDE DEF low
  <1>8. pcie_get_bar(low, 0) = base
    BY <1>5, <1>7 DEF pcie_get_bar
  <1>9. pcie_get_bar_size(low, S - size + 1, 0) = R - (S - size)
    <2>1. 0 + (S - size) = S - size /\ S - size # 0
      BY <1>1
    <2> QED BY <1>5, <1>7, <2>1 DEF pcie_get_bar_size, R
  <1> QED BY <1>3, <1>4, <1>6, <1>8, <1>9 DEF BarOk, base

(* One for memory of 32 bits.                                              *)
LEMMA NarrowBar ==
    ASSUME NEW fn, NEW i, NEW b, BlockOf(b), b.kind = "mem32",
           register(fn, i) = Register(b.base, REG_MOD - b.size)
    PROVE  BarOk(fn, i, b)
  <1> DEFINE R == REG_MOD
             base == b.base
             size == b.size
  <1>1. base \in Nat /\ size \in Nat \ {0} /\ R \in Nat \ {0} /\ size < R /\ R % size = 0
    BY RegisterModulus DEF BlockOf
  <1>2. base % 16 = 0 /\ size % 16 = 0 /\ R % 16 = 0
    BY RegisterFlags, BlockFlags
  <1>3. BarLow(fn, i) = base /\ Ones(fn, i) = R - size /\ size_found(b) = size
    BY OnesOf DEF BarLow, size_found
  <1> HIDE DEF R, base, size
  <1>4. ~is_io(base) /\ ~is_64_bit(base)
    BY <1>1, <1>2 DEF is_io, is_64_bit
  <1>5. BarHigh(fn, i) = 0 /\ BarUpper(fn, i) = 0
    BY <1>3, <1>4 DEF BarHigh, BarUpper
  <1>6. unflagged(base, base) = base /\ unflagged(R - size, base) = R - size
    <2>1. flag_bits(base) = 16
      BY <1>4 DEF flag_bits
    <2>2. base % 16 = 0 /\ (R - size) % 16 = 0
      BY <1>1, <1>2
    <2> QED BY <1>1, <2>1, <2>2 DEF unflagged
  <1>7. pcie_get_bar(base, 0) = base
    BY <1>4, <1>6 DEF pcie_get_bar
  <1>8. pcie_get_bar_size(base, R - size, 0) = size
    <2>1. 0 + (R - size) = R - size /\ R - size # 0 /\ R - (R - size) = size
      BY <1>1
    <2> QED BY <1>4, <1>6, <2>1 DEF pcie_get_bar_size, R
  <1> QED BY <1>3, <1>5, <1>7, <1>8 DEF BarOk, base

(* What the two registers of a BAR of 64 bits read after all ones.         *)
LEMMA WideOnes ==
    ASSUME NEW fn, NEW i, NEW b, BlockOf(b), b.kind = "mem64",
           register(fn, i) = Register((b.base % REG_MOD) + 4, REG_MOD - Grain(b) + 4),
           register(fn, i + 1) = Register(b.base \div REG_MOD, REG_MOD - UpperGrain(b))
    PROVE  \E x \in Nat, y \in Nat :
              /\ Ones(fn, i) = 4 + x /\ Ones(fn, i + 1) = y
              /\ x % 16 = 0
              /\ y * REG_MOD + x = UINTPTR_MOD - b.size
  <1> DEFINE R == REG_MOD
             M == UINTPTR_MOD
             size == b.size
             g == Grain(b)
             u == UpperGrain(b)
  <1>1. /\ size \in Nat \ {0} /\ R \in Nat \ {0} /\ M = R * R /\ R % 16 = 0
    BY RegisterModulus, RegisterFlags, PcieAssumption DEF BlockOf
  <1>2. /\ g \in Nat \ {0} /\ u \in Nat \ {0} /\ g % 16 = 0
        /\ R - g \in Nat /\ R - u \in Nat /\ u * R = R + (size - g)
    BY WideGrains
  <1>3. Ones(fn, i) = R - g + 4 /\ Ones(fn, i + 1) = R - u
    BY OnesOf
  <1> HIDE DEF R, M, size, g, u
  <1>4. (R - g) % 16 = 0 /\ R - g + 4 = 4 + (R - g)
    BY <1>1, <1>2
  <1>5. (R - u) * R + (R - g) = M - size
    <2>1. (R - u) * R = R * R - u * R
      BY <1>1, <1>2
    <2> QED BY <1>1, <1>2, <2>1
  <1> QED BY <1>2, <1>3, <1>4, <1>5 DEF R, M, size

(* One for memory of 64 bits.                                              *)
LEMMA WideBar ==
    ASSUME NEW fn, NEW i, NEW b, BlockOf(b), b.kind = "mem64",
           register(fn, i) = Register((b.base % REG_MOD) + 4, REG_MOD - Grain(b) + 4),
           register(fn, i + 1) = Register(b.base \div REG_MOD, REG_MOD - UpperGrain(b))
    PROVE  BarOk(fn, i, b)
  <1> DEFINE R == REG_MOD
             M == UINTPTR_MOD
             base == b.base
             size == b.size
             r == base % R
             q == base \div R
             low == r + 4
  <1>1. base \in Nat /\ size \in Nat \ {0} /\ R \in Nat \ {0} /\ M \in Nat /\ size < M
    BY RegisterModulus, SpaceAssumption DEF BlockOf
  <1>2. base % 16 = 0 /\ R % 16 = 0
    BY RegisterFlags, BlockFlags
  <1>3. BarLow(fn, i) = low /\ register(fn, i + 1).value = q /\ size_found(b) = size
    BY DEF BarLow, Register, size_found
  <1>4. PICK x \in Nat, y \in Nat :
            Ones(fn, i) = 4 + x /\ Ones(fn, i + 1) = y /\ x % 16 = 0 /\ y * R + x = M - size
    BY WideOnes
  <1> HIDE DEF R, M, base, size
  <1>5. r \in Nat /\ q \in Nat /\ base = R * q + r
    BY <1>1, DivMod
  <1>6. r % 16 = 0
    <2> DEFINE d == 16
    <2>1. d \in Nat \ {0} /\ base \in Nat /\ R \in Nat \ {0} /\ base % d = 0 /\ R % d = 0
      BY <1>1, <1>2
    <2> HIDE DEF d
    <2>2. (base % R) % d = 0
      BY <2>1, ModOfMultiple
    <2> QED BY <2>2 DEF d
  <1> HIDE DEF r, q
  <1>7. ~is_io(low) /\ is_64_bit(low)
    BY <1>5, <1>6 DEF is_io, is_64_bit
  <1>8. unflagged(low, low) = r /\ unflagged(4 + x, low) = x
    <2>1. flag_bits(low) = 16
      BY <1>7 DEF flag_bits
    <2>2. low % 16 = 4 /\ (4 + x) % 16 = 4
      BY <1>4, <1>5, <1>6
    <2> QED BY <1>4, <1>5, <2>1, <2>2 DEF unflagged
  <1> HIDE DEF low
  <1>9. BarHigh(fn, i) = q /\ BarUpper(fn, i) = y
    BY <1>3, <1>4, <1>7 DEF BarHigh, BarUpper
  <1>10. pcie_get_bar(low, q) = base
    <2>1. pcie_get_bar(low, q) = q * R + r
      BY <1>7, <1>8 DEF pcie_get_bar, R
    <2>2. q * R = R * q
      BY <1>1, <1>5
    <2> QED BY <1>5, <2>1, <2>2
  <1>11. pcie_get_bar_size(low, 4 + x, y) = size
    <2>1. M - size # 0 /\ M - (M - size) = size
      BY <1>1
    <2> QED BY <1>4, <1>7, <1>8, <2>1 DEF pcie_get_bar_size, R, M
  <1> QED BY <1>3, <1>4, <1>9, <1>10, <1>11 DEF BarOk, base

(* So whatever its kind, the driver finds a BAR's base, and its size if    *)
(* the whole register answers for it.                                      *)
LEMMA BarAnswered ==
    ASSUME machine \in Machines, NEW fn \in DOMAIN machine.functions,
           NEW i \in DOMAIN machine.functions[fn].bars
    PROVE  BarOk(fn, i, machine.functions[fn].bars[i])
  <1> DEFINE b == machine.functions[fn].bars[i]
  <1>1. /\ BlockOf(b)
        /\ b.kind = "io"    => register(fn, i) = Register(b.base + 1, REG_MOD - b.size + 1)
        /\ b.kind = "io16"  => register(fn, i) = Register(b.base + 1, HALF_MOD - b.size + 1)
        /\ b.kind = "mem32" => register(fn, i) = Register(b.base, REG_MOD - b.size)
        /\ b.kind = "mem64" =>
              /\ register(fn, i) = Register((b.base % REG_MOD) + 4, REG_MOD - Grain(b) + 4)
              /\ register(fn, i + 1) = Register(b.base \div REG_MOD, REG_MOD - UpperGrain(b))
    BY RegisterOfBar
  <1>2. b.kind \in {"io", "io16", "mem32", "mem64"}
    BY <1>1 DEF BlockOf
  <1> HIDE DEF b
  <1>3. CASE b.kind \in {"io", "io16"}
    BY <1>1, <1>3, PortBar DEF b
  <1>4. CASE b.kind = "mem32"
    BY <1>1, <1>4, NarrowBar DEF b
  <1>5. CASE b.kind = "mem64"
    BY <1>1, <1>5, WideBar DEF b
  <1> QED BY <1>2, <1>3, <1>4, <1>5 DEF b

(* The function that answers is the one the call is at.                    *)
LEMMA HereIsTop ==
    ASSUME OneSegment, VmInv, StackInv, EcamInv, pc \in Enumerating, stack # <<>>,
           top.bus <= top.end, Answers(top.bus, top.dev, top.func) # {},
           Mapped(top.bus, top.dev, top.func)
    PROVE  here = fn_at /\ here \in DOMAIN machine.functions
  <1>1. here \in DOMAIN machine.functions /\ ConfigPage(here) = Address(top.bus, top.dev, top.func)
    BY DEF here, Answers
  <1>2. CallOk(top) /\ top.bus \in Nat /\ top.dev \in 0..(DEVICES - 1) /\ top.func \in 0..(FUNCTIONS - 1)
    BY TopOk
  <1>3. top.bus \in 0..(BYTE - 1)
    <2>1. BYTE \in Nat /\ top.end \in Nat /\ top.end < BYTE
      BY <1>2, PcieAssumption DEF CallOk, Calls
    <2> QED BY <1>2, <2>1
  <1>4. Address(top.bus, top.dev, top.func) = ConfigPage(fn_at) /\ machine.mcfg[1].base \in Nat
    BY <1>2, <1>3, SpaceLeads DEF Mapped, fn_at
  <1>5. PICK b \in 0..(BYTE - 1), d \in 0..(DEVICES - 1), f \in 0..(FUNCTIONS - 1) : here = <<b, d, f>>
    <2>1. machine \in Machines
      BY DEF VmInv
    <2> QED BY <1>1, <2>1, MachineAssumption DEF WellFormed
  <1>6. \A x \in Nat, y \in 0..(DEVICES - 1), z \in 0..(FUNCTIONS - 1) :
            ConfigPage(<<x, y, z>>) = machine.mcfg[1].base + Offset(x, y, z) /\ Offset(x, y, z) \in Nat
    <2> TAKE x \in Nat, y \in 0..(DEVICES - 1), z \in 0..(FUNCTIONS - 1)
    <2> DEFINE base == machine.mcfg[1].base
               m == x * BUS
               n == (y * FUNCTIONS + z) * PAGE_SIZE
    <2>1. ConfigPage(<<x, y, z>>) = (base + m) + n /\ Offset(x, y, z) = m + n
      BY DEF ConfigPage, Offset, FunctionPage
    <2>2. BUS \in Nat /\ FUNCTIONS \in Nat /\ PAGE_SIZE \in Nat /\ DEVICES \in Nat
      BY FunctionPages, Spans, PcieAssumption, PageAssumption
    <2>3. m \in Nat /\ n \in Nat /\ base \in Nat
      BY <1>4, <2>2
    <2> HIDE DEF base, m, n
    <2> QED BY <2>1, <2>3 DEF base
  <1>7. Offset(b, d, f) = Offset(top.bus, top.dev, top.func)
    <2>1. b \in Nat
      BY PcieAssumption
    <2> DEFINE o == Offset(b, d, f)
               t == Offset(top.bus, top.dev, top.func)
    <2>2. /\ ConfigPage(<<b, d, f>>) = machine.mcfg[1].base + o /\ o \in Nat
          /\ ConfigPage(fn_at) = machine.mcfg[1].base + t /\ t \in Nat
      BY <1>2, <1>6, <2>1 DEF fn_at
    <2> HIDE DEF o, t
    <2> QED BY <1>1, <1>4, <1>5, <2>2 DEF o, t
  <1>8. b = top.bus /\ d = top.dev /\ f = top.func
    <2>1. b \in Nat
      BY PcieAssumption
    <2> QED BY <1>2, <1>7, <2>1, OffsetsDiffer
  <1> QED BY <1>1, <1>5, <1>8 DEF fn_at

(* A record whose first m bases and n sizes are those of its function's    *)
(* BARs; and the table of which the last record is in hand.                *)
RightRecord(d, m, n) ==
    LET b == machine.functions[d.fn].bars
    IN  /\ d.fn \in DOMAIN machine.functions
        /\ \A i \in DOMAIN b : (i < m => d.bars[i] = b[i].base) /\ (i < n => d.bar_size[i] = size_found(b[i]))

RightTable(T, m, n) ==
    \A k \in 1..Len(T) : IF k = Len(T) THEN RightRecord(T[k], m, n) ELSE RightRecord(T[k], 6, 6)

InHand(T, m, n) == T[Len(T)].fn = here /\ RightTable(T, m, n)

RightInv ==
    /\ pc = "bar"     => InHand(pcie_devices, loop.i, loop.i)
    /\ pc = "restore" => InHand(pcie_devices, loop.i + 1, loop.i)
    /\ pc = "map_bar" => InHand(pcie_devices, loop.i + 1, loop.i + 1)
    /\ pc \notin {"bar", "restore", "map_bar"} => RightTable(pcie_devices, 6, 6)

(* BARs have numbers from 0 to 5.                                          *)
LEMMA BarsBelowSix ==
    ASSUME machine \in Machines, NEW fn \in DOMAIN machine.functions
    PROVE  DOMAIN machine.functions[fn].bars \subseteq 0..5
  BY MachineAssumption DEF WellFormed

(* A base, or a size, more of the record in hand.                          *)
LEMMA BaseFilled ==
    ASSUME machine \in Machines, here \in DOMAIN machine.functions,
           NEW T \in Seq(DeviceRecords), T # <<>>, NEW i \in 0..5, NEW v \in Int,
           InHand(T, i, i),
           i \in DOMAIN machine.functions[here].bars => v = machine.functions[here].bars[i].base
    PROVE  InHand(WithBar(T, i, v), i + 1, i)
  <1> DEFINE U == WithBar(T, i, v)
             d == T[Len(T)]
             row == WithRow(d.bars, i, v)
             b == machine.functions[here].bars
  <1>1. Updated(T, U, row, d.bar_size) /\ d \in DeviceRecords /\ Len(T) \in 1..Len(T)
    BY BarUpdated, LastRecord
  <1>2. \A j \in 0..5 : row[j] = IF j = i THEN v ELSE d.bars[j]
    BY <1>1 DEF WithRow, DeviceRecords
  <1>3. DOMAIN b \subseteq 0..5
    BY BarsBelowSix
  <1>4. d.fn = here /\ RightRecord(d, i, i)
    BY <1>1 DEF InHand, RightTable
  <1> HIDE DEF U, row
  <1>5. /\ Len(U) = Len(T) /\ U[Len(T)].fn = here
        /\ U[Len(T)].bars = row /\ U[Len(T)].bar_size = d.bar_size
        /\ \A k \in 1..Len(T) : k # Len(T) => U[k] = T[k]
    BY <1>1, <1>4 DEF Updated
  <1>6. RightRecord(U[Len(T)], i + 1, i)
    <2>1. ASSUME NEW j \in DOMAIN b
          PROVE  (j < i + 1 => row[j] = b[j].base) /\ (j < i => d.bar_size[j] = size_found(b[j]))
      <3>1. j \in 0..5 /\ (j < i => d.bars[j] = b[j].base) /\ (j < i => d.bar_size[j] = size_found(b[j]))
        BY <1>3, <1>4, <2>1 DEF RightRecord
      <3> QED BY <1>2, <3>1
    <2> QED BY <1>5, <2>1 DEF RightRecord
  <1>7. RightTable(U, i + 1, i)
    BY <1>1, <1>5, <1>6 DEF InHand, RightTable
  <1> QED BY <1>5, <1>7 DEF InHand, U

(* The same for a size.                                                    *)
LEMMA SizeFilled ==
    ASSUME machine \in Machines, here \in DOMAIN machine.functions,
           NEW T \in Seq(DeviceRecords), T # <<>>, NEW i \in 0..5, NEW v \in Int,
           InHand(T, i + 1, i),
           i \in DOMAIN machine.functions[here].bars =>
              v = size_found(machine.functions[here].bars[i])
    PROVE  InHand(WithSize(T, i, v), i + 1, i + 1)
  <1> DEFINE U == WithSize(T, i, v)
             d == T[Len(T)]
             row == WithRow(d.bar_size, i, v)
             b == machine.functions[here].bars
  <1>1. Updated(T, U, d.bars, row) /\ d \in DeviceRecords /\ Len(T) \in 1..Len(T)
    BY SizeUpdated, LastRecord
  <1>2. \A j \in 0..5 : row[j] = IF j = i THEN v ELSE d.bar_size[j]
    BY <1>1 DEF WithRow, DeviceRecords
  <1>3. DOMAIN b \subseteq 0..5
    BY BarsBelowSix
  <1>4. d.fn = here /\ RightRecord(d, i + 1, i)
    BY <1>1 DEF InHand, RightTable
  <1> HIDE DEF U, row
  <1>5. /\ Len(U) = Len(T) /\ U[Len(T)].fn = here
        /\ U[Len(T)].bars = d.bars /\ U[Len(T)].bar_size = row
        /\ \A k \in 1..Len(T) : k # Len(T) => U[k] = T[k]
    BY <1>1, <1>4 DEF Updated
  <1>6. RightRecord(U[Len(T)], i + 1, i + 1)
    <2>1. ASSUME NEW j \in DOMAIN b
          PROVE  (j < i + 1 => d.bars[j] = b[j].base) /\ (j < i + 1 => row[j] = size_found(b[j]))
      <3>1. j \in 0..5 /\ (j < i + 1 => d.bars[j] = b[j].base) /\ (j < i => d.bar_size[j] = size_found(b[j]))
        BY <1>3, <1>4, <2>1 DEF RightRecord
      <3> QED BY <1>2, <3>1
    <2> QED BY <1>5, <2>1 DEF RightRecord
  <1>7. RightTable(U, i + 1, i + 1)
    BY <1>1, <1>5, <1>6 DEF InHand, RightTable
  <1> QED BY <1>5, <1>7 DEF InHand, U

(* The virtual base is neither.                                            *)
LEMMA VirtFilled ==
    ASSUME machine \in Machines, here \in DOMAIN machine.functions,
           NEW T \in Seq(DeviceRecords), T # <<>>, NEW i \in 0..5, NEW v \in Int, NEW m, NEW n,
           InHand(T, m, n)
    PROVE  InHand(WithVirt(T, i, v), m, n)
  <1> DEFINE U == WithVirt(T, i, v)
             d == T[Len(T)]
  <1>1. Updated(T, U, d.bars, d.bar_size) /\ Len(T) \in 1..Len(T)
    BY VirtUpdated, LastRecord
  <1>2. d.fn = here /\ RightRecord(d, m, n)
    BY <1>1 DEF InHand, RightTable
  <1> HIDE DEF U
  <1>3. /\ Len(U) = Len(T) /\ U[Len(T)].fn = here
        /\ U[Len(T)].bars = d.bars /\ U[Len(T)].bar_size = d.bar_size
        /\ \A k \in 1..Len(T) : k # Len(T) => U[k] = T[k]
    BY <1>1, <1>2 DEF Updated
  <1>4. RightRecord(U[Len(T)], m, n)
    BY <1>2, <1>3 DEF RightRecord
  <1>5. RightTable(U, m, n)
    BY <1>1, <1>3, <1>4 DEF InHand, RightTable
  <1> QED BY <1>3, <1>5 DEF InHand, U

(* A new record has all to come.                                           *)
LEMMA RecordAdded ==
    ASSUME NEW T \in Seq(DeviceRecords), NEW d \in DeviceRecords, d.fn = here,
           machine \in Machines, here \in DOMAIN machine.functions, RightTable(T, 6, 6)
    PROVE  InHand(Append(T, d), 0, 0)
  <1> DEFINE U == Append(T, d)
  <1>1. /\ Len(U) = Len(T) + 1 /\ U[Len(T) + 1] = d /\ Len(T) \in Nat
        /\ \A k \in 1..Len(T) : U[k] = T[k]
    OBVIOUS
  <1> HIDE DEF U
  <1>2. RightRecord(d, 0, 0)
    <2>1. DOMAIN machine.functions[here].bars \subseteq 0..5
      BY BarsBelowSix
    <2> QED BY <2>1 DEF RightRecord
  <1>3. ASSUME NEW k \in 1..Len(T) PROVE RightRecord(T[k], 6, 6)
    BY DEF RightTable
  <1>4. RightTable(U, 0, 0)
    <2> SUFFICES ASSUME NEW k \in 1..Len(U)
                 PROVE  IF k = Len(U) THEN RightRecord(U[k], 0, 0) ELSE RightRecord(U[k], 6, 6)
      BY DEF RightTable
    <2>1. CASE k = Len(U)
      BY <1>1, <1>2, <2>1
    <2>2. CASE k # Len(U)
      <3>1. k \in 1..Len(T)
        BY <1>1, <2>2
      <3> QED BY <1>1, <1>3, <2>2, <3>1
    <2> QED BY <2>1, <2>2
  <1> QED BY <1>1, <1>4 DEF InHand, U

(* A function that is visited is recorded, and all its BARs are to come.   *)
LEMMA VisitRight ==
    ASSUME OneSegment, LoopInv, VmInv, StackInv, EcamInv, TableInv, RightInv, Visit
    PROVE  RightInv'
  <1>1. /\ pc = "walk" /\ top.bus <= top.end /\ UNCHANGED <<machine, segment, vm>> /\ stack # <<>>
        /\ Mapped(top.bus, top.dev, top.func)
    BY DEF Visit, StackInv
  <1>2. machine \in Machines /\ pcie_devices \in Seq(DeviceRecords) /\ RightTable(pcie_devices, 6, 6)
    BY <1>1 DEF VmInv, TableInv, RightInv
  <1>3. CASE UNCHANGED pcie_devices /\ pc' \in {"walk", "bridge"}
    BY <1>1, <1>2, <1>3 DEF RightInv, RightTable, RightRecord
  <1>4. CASE /\ Answers(top.bus, top.dev, top.func) # {}
             /\ pcie_devices' = Append(pcie_devices, Record(fn_at)) /\ pc' = "bar" /\ UNCHANGED stack
             /\ loop' = [loop EXCEPT !.i = 0]
    <2> DEFINE d == Record(fn_at)
    <2>1. here = fn_at /\ here \in DOMAIN machine.functions
      BY <1>1, <1>4, HereIsTop DEF Enumerating
    <2>2. UNCHANGED here
      BY <1>1, <1>4, SameHere
    <2>3. d \in DeviceRecords /\ d.fn = here
      <3>1. fn_at \in Nat \X Nat \X Nat
        <4>1. DEVICES \in Nat /\ FUNCTIONS \in Nat
          BY PcieAssumption
        <4>2. top.bus \in Nat /\ top.dev \in Nat /\ top.func \in Nat
          BY <1>1, <4>1, TopOk
        <4> QED BY <4>2 DEF fn_at
      <3>2. [i \in 0..5 |-> 0] \in [0..5 -> Int]
        OBVIOUS
      <3> QED BY <2>1, <3>1, <3>2 DEF Record, DeviceRecords
    <2> HIDE DEF d
    <2>4. InHand(Append(pcie_devices, d), 0, 0)
      BY <1>2, <2>1, <2>3, RecordAdded
    <2>5. loop'.i = 0 /\ pcie_devices' = Append(pcie_devices, d)
      BY <1>4 DEF LoopInv, d
    <2>6. InHand(pcie_devices, loop.i, loop.i)'
      BY <1>1, <2>2, <2>4, <2>5 DEF InHand, RightTable, RightRecord
    <2> QED BY <1>4, <2>6 DEF RightInv
  <1> QED BY <1>1, <1>3, <1>4 DEF Visit

(* What pcie_get_bar makes of the registers is the base.                   *)
LEMMA SizeBarRight ==
    ASSUME LoopInv, BarInv, StackInv, TableInv, RightInv, SizeBar
    PROVE  RightInv'
  <1> DEFINE low  == config[here].bar[loop.i]
             high == IF is_64_bit(low) THEN config[here].bar[loop.i + 1] ELSE 0
             v    == pcie_get_bar(low, high)
             n    == loop.i
             b    == machine.functions[here].bars
  <1>1. pc = "bar" /\ n \in 0..5 /\ pc' = "restore" /\ UNCHANGED <<machine, segment, vm, stack>>
        /\ loop'.i = n
    BY DEF SizeBar, LoopInv
  <1>2. loop.i \in 0..6 /\ loop.i + 1 \in 0..6
    BY <1>1
  <1>3. /\ machine \in Machines /\ here \in DOMAIN machine.functions
        /\ low = register(here, n).value /\ low \in Nat
        /\ config[here].bar[n + 1] = register(here, n + 1).value /\ config[here].bar[n + 1] \in Nat
    BY <1>1, <1>2, HereAssigned DEF BarPlaces
  <1>4. low = BarLow(here, n) /\ high = BarHigh(here, n) /\ low \in Int /\ high \in Int
    BY <1>3 DEF BarLow, BarHigh
  <1>5. pcie_devices' = WithBar(pcie_devices, n, v)
    BY DEF SizeBar, WithBar
  <1> HIDE DEF low, high, n
  <1>6. v \in Int
    BY <1>4, BarNumbers
  <1>7. n \in DOMAIN b => v = b[n].base
    BY <1>3, <1>4, BarAnswered DEF BarOk
  <1> HIDE DEF v
  <1>8. pcie_devices \in Seq(DeviceRecords) /\ pcie_devices # <<>> /\ InHand(pcie_devices, n, n)
    BY <1>1 DEF TableInv, RightInv, n
  <1>9. InHand(WithBar(pcie_devices, n, v), n + 1, n)
    BY <1>1, <1>3, <1>6, <1>7, <1>8, BaseFilled
  <1>10. UNCHANGED here
    BY <1>1, SameHere
  <1>11. InHand(pcie_devices, loop.i + 1, loop.i)'
    BY <1>1, <1>5, <1>9, <1>10 DEF InHand, RightTable, RightRecord
  <1> QED BY <1>1, <1>11 DEF RightInv

(* What pcie_get_bar_size makes of the answer is the size.                 *)
LEMMA RestoreRight ==
    ASSUME LoopInv, BarInv, StackInv, SizingInv, TableInv, RightInv, Restore
    PROVE  RightInv'
  <1> DEFINE low   == loop.low
             ones  == config[here].bar[loop.i]
             upper == IF is_64_bit(low) THEN config[here].bar[loop.i + 1] ELSE 0
             v     == pcie_get_bar_size(low, ones, upper)
             n     == loop.i
             b     == machine.functions[here].bars
  <1>1. pc = "restore" /\ n \in 0..5 /\ pc' = "map_bar" /\ UNCHANGED <<machine, segment, vm, stack>>
        /\ loop'.i = n
    BY DEF Restore, SizingInv
  <1>2. here \in DOMAIN machine.functions /\ machine \in Machines /\ DOMAIN config = DOMAIN machine.functions
    BY <1>1, HereAnswers DEF BarPlaces, BarInv, ConfigShape
  <1>3. low = BarLow(here, n) /\ low \in Int
    <2>1. n \in 0..6
      BY <1>1
    <2>2. Settled(register(here, n))
      BY <1>2, <2>1, RegistersSettled
    <2>3. low = register(here, n).value
      BY <1>1, <1>2 DEF BarInv
    <2> QED BY <2>2, <2>3 DEF Settled, BarLow
  <1>4. ones = Ones(here, n) /\ upper = BarUpper(here, n) /\ ones \in Int /\ upper \in Int
    <2>1. n \in 0..6 /\ n + 1 \in 0..6
      BY <1>1
    <2>2. Ones(here, n) \in Int /\ Ones(here, n + 1) \in Int
      BY <1>2, <2>1, OnesRead
    <2> QED BY <1>1, <1>3, <2>2 DEF SizingInv, BarUpper
  <1>5. pcie_devices' = WithSize(pcie_devices, n, v)
    BY DEF Restore, WithSize
  <1> HIDE DEF low, ones, upper, n
  <1>6. v \in Int
    BY <1>3, <1>4, BarNumbers
  <1>7. n \in DOMAIN b => v = size_found(b[n])
    BY <1>2, <1>3, <1>4, BarAnswered DEF BarOk
  <1> HIDE DEF v
  <1>8. pcie_devices \in Seq(DeviceRecords) /\ pcie_devices # <<>> /\ InHand(pcie_devices, n + 1, n)
    BY <1>1 DEF TableInv, RightInv, n
  <1>9. InHand(WithSize(pcie_devices, n, v), n + 1, n + 1)
    BY <1>1, <1>2, <1>6, <1>7, <1>8, SizeFilled
  <1>10. UNCHANGED here
    BY <1>1, SameHere
  <1>11. InHand(pcie_devices, loop.i + 1, loop.i + 1)'
    BY <1>1, <1>5, <1>9, <1>10 DEF InHand, RightTable, RightRecord
  <1> QED BY <1>1, <1>11 DEF RightInv

(* Mapping a BAR leaves what is known of it.                               *)
LEMMA MapBarRight ==
    ASSUME LoopInv, RootInv, BarInv, StackInv, SizingInv, TableInv, RightInv, MapBar
    PROVE  RightInv'
  <1> DEFINE T == pcie_devices
             n == loop.i
             v == g_mmio_next
  <1>1. /\ pc = "map_bar" /\ n \in 0..5 /\ g_pml4_virt = NULL
        /\ UNCHANGED <<machine, segment, vm, stack>>
    BY DEF MapBar, SizingInv, RootInv, Finished
  <1>2. pc' = "bar" /\ loop'.i = n + 1
    BY <1>1 DEF MapBar, MapRange, LoopInv
  <1>3. T' = T \/ T' = WithVirt(T, n, v)
    BY DEF MapBar, WithVirt
  <1>4. here \in DOMAIN machine.functions /\ machine \in Machines
    BY <1>1, HereAnswers DEF BarPlaces, BarInv, ConfigShape
  <1>5. T \in Seq(DeviceRecords) /\ T # <<>> /\ v \in Int /\ InHand(T, n + 1, n + 1)
    BY <1>1 DEF TableInv, RightInv
  <1> DEFINE U == T'
             m == n + 1
  <1> HIDE DEF n, v, U, m
  <1>6. InHand(WithVirt(T, n, v), m, m)
    BY <1>1, <1>4, <1>5, VirtFilled DEF m
  <1>7. InHand(U, m, m)
    BY <1>3, <1>5, <1>6 DEF U, m
  <1>8. UNCHANGED here
    BY <1>1, SameHere
  <1>9. InHand(pcie_devices, loop.i, loop.i)'
    BY <1>1, <1>2, <1>7, <1>8 DEF InHand, RightTable, RightRecord, U, m
  <1> QED BY <1>2, <1>9 DEF RightInv

(* Every step keeps the bases and sizes right.                             *)
LEMMA RightStep ==
    ASSUME OneSegment, LoopInv, RootInv, VmInv, BarInv, StackInv, SizingInv, EcamInv, TableInv,
           RightInv, [Next]_vars
    PROVE  RightInv'
  <1>1. UNCHANGED machine
    BY EcamFrame
  <1>2. CASE MapMsixTable
    <2>1. pc = "bar" /\ loop.i = 6 /\ UNCHANGED pcie_devices /\ g_pml4_virt = NULL
      BY <1>2 DEF MapMsixTable, RootInv, Finished
    <2>2. pc' \in {"bridge", "program"}
      BY <1>2, <2>1 DEF MapMsixTable, MapRange
    <2>3. RightTable(pcie_devices, 6, 6)
      BY <2>1 DEF RightInv, InHand
    <2> QED BY <1>1, <2>1, <2>2, <2>3 DEF RightInv, RightTable, RightRecord
  <1>3. CASE MapResource
    <2>1. pc = "idle" /\ pc' \in {"idle", "mmio"} /\ UNCHANGED pcie_devices
      BY <1>3 DEF MapResource, pcie_map_phys_mmio, MapRange
    <2> QED BY <1>1, <2>1 DEF RightInv, RightTable, RightRecord
  <1>4. CASE UNCHANGED <<pcie_devices, g_mmio_next>> /\ UNCHANGED <<pc, pcie_vars>>
    <2>1. UNCHANGED <<machine, vm, segment, stack, loop, pc, pcie_devices>>
      BY <1>4 DEF pcie_vars
    <2>2. UNCHANGED here
      BY <2>1, SameHere
    <2>3. InHand(pcie_devices, loop.i, loop.i) => InHand(pcie_devices, loop.i, loop.i)'
      BY <2>1, <2>2 DEF InHand, RightTable, RightRecord
    <2>4. InHand(pcie_devices, loop.i + 1, loop.i) => InHand(pcie_devices, loop.i + 1, loop.i)'
      BY <2>1, <2>2 DEF InHand, RightTable, RightRecord
    <2>5. InHand(pcie_devices, loop.i + 1, loop.i + 1) => InHand(pcie_devices, loop.i + 1, loop.i + 1)'
      BY <2>1, <2>2 DEF InHand, RightTable, RightRecord
    <2>6. RightTable(pcie_devices, 6, 6) => RightTable(pcie_devices, 6, 6)'
      BY <2>1, <2>2 DEF RightTable, RightRecord
    <2> QED BY <2>1, <2>3, <2>4, <2>5, <2>6 DEF RightInv
  <1>5. CASE /\ UNCHANGED <<pcie_devices, g_mmio_next>>
             /\ pc \notin {"bar", "restore", "map_bar"} /\ pc' \notin {"bar", "restore", "map_bar"}
    BY <1>1, <1>5 DEF RightInv, RightTable, RightRecord
  <1> QED BY <1>2, <1>3, <1>4, <1>5, TableFrame, VisitRight, SizeBarRight, RestoreRight, MapBarRight

(* So the records are right in every state.                                *)
LEMMA RightKept == OneSegment => (Spec => []RightInv)
  <1>1. Init => RightInv
    <2> SUFFICES ASSUME Init PROVE RightInv
      OBVIOUS
    <2>1. pc = "start" /\ pcie_devices = <<>>
      BY DEF Init, InitPcieState
    <2>2. Len(pcie_devices) = 0
      BY <2>1
    <2> QED BY <2>1, <2>2 DEF RightInv, RightTable
  <1>2. OneSegment /\ LoopInv /\ VmInv /\ BarInv /\ EnumInv /\ EcamInv /\ RightInv /\ [Next]_vars
           => RightInv'
    BY RightStep DEF EnumInv
  <1> SUFFICES ASSUME OneSegment PROVE Spec => []RightInv
    OBVIOUS
  <1>3. LoopInv /\ VmInv /\ BarInv /\ EnumInv /\ EcamInv /\ RightInv /\ [Next]_vars => RightInv'
    BY <1>2
  <1> QED BY <1>1, <1>3, EcamKept, BarsKept, TablesKept, EnumerationKept, PTL DEF Spec

(***************************************************************************)
(* Every function in the table has the bases of its BARs, for ports and    *)
(* for 32 and 64 bits of memory, as pcie_get_bar finds them; and of those  *)
(* whose whole register answers, the sizes, as pcie_get_bar_size finds     *)
(* them.  Of ports with a register of 16 bits the size is exactly the      *)
(* upper half of a register more than the block's (size_found).            *)
(***************************************************************************)
THEOREM KernelSizesBars == OneSegment => (Spec => []BarsRight)
  <1> SUFFICES ASSUME OneSegment PROVE Spec => []BarsRight
    OBVIOUS
  <1>1. VmInv /\ EnumInv /\ RightInv => BarsRight
    <2> SUFFICES ASSUME VmInv, EnumInv, RightInv, NEW k \in 1..Len(pcie_devices),
                        \/ k < Len(pcie_devices)
                        \/ pc \notin {"bar", "restore", "map_bar", "mmio"}
                 PROVE  LET d == pcie_devices[k]
                            b == machine.functions[d.fn].bars
                        IN  \A i \in DOMAIN b : d.bars[i] = b[i].base /\ d.bar_size[i] = size_found(b[i])
      BY DEF BarsRight
    <2>1. RightRecord(pcie_devices[k], 6, 6)
      BY DEF RightInv, InHand, RightTable
    <2>2. DOMAIN machine.functions[pcie_devices[k].fn].bars \subseteq 0..5
      BY <2>1, BarsBelowSix DEF RightRecord, VmInv
    <2> QED BY <2>1, <2>2 DEF RightRecord
  <1> QED BY <1>1, RightKept, TablesKept, EnumerationKept, PTL

-----------------------------------------------------------------------------
(*------------------------------- the window ------------------------------*)

(* What the driver takes slot i of a function for, a BAR or not.           *)
SlotBase(fn, i) == pcie_get_bar(BarLow(fn, i), BarHigh(fn, i))
SlotSize(fn, i) == pcie_get_bar_size(BarLow(fn, i), Ones(fn, i), BarUpper(fn, i))

(* Where the window starts, and how many ranges are handed out at most.    *)
window    == (PCIE_VIRTUAL_BASE + 4 * GIB) % UINTPTR_MOD
AllRanges == 7 * PCIE_MAX_DEVICES + MaxRanges

(* The window has room if no slot that is mapped, no MSI-X table and no    *)
(* resource is larger than this.                                           *)
RoomFor(largest) ==
    /\ \A fn \in DOMAIN machine.functions :
          /\ \A i \in 0..5 : SlotBase(fn, i) # 0 => SlotSize(fn, i) \in 0..largest
          /\ machine.functions[fn].msix.entries * MSIX_ENTRY <= largest
    /\ \A r \in Resources : r.size <= largest
    /\ window + AllRanges * (largest + PAGE_SIZE) <= PCIE_VIRTUAL_BASE

Ranges == [virt : Nat, phys : Int, size : Nat]

(* The ranges lie one behind another, the next one at g.                   *)
Lined(R, g) ==
    /\ R \in Seq(Ranges) /\ g \in Nat /\ g % PAGE_SIZE = 0
    /\ \A k \in 1..Len(R) : R[k].virt % PAGE_SIZE = 0 /\ R[k].virt + R[k].size <= g
    /\ \A j, k \in 1..Len(R) : j < k => R[j].virt + R[j].size <= R[k].virt

(* Numbers the proofs need.                                                *)
LEMMA WindowNumbers ==
    /\ PAGE_SIZE \in Nat \ {0} /\ UINTPTR_MOD \in Nat \ {0} /\ UINTPTR_MOD % PAGE_SIZE = 0
    /\ PCIE_VIRTUAL_BASE \in Nat /\ PCIE_VIRTUAL_BASE < UINTPTR_MOD
    /\ window \in Nat /\ window % PAGE_SIZE = 0
    /\ AllRanges \in Nat /\ PCIE_MAX_DEVICES \in Nat \ {0} /\ MaxRanges \in Nat
  <1> DEFINE P == PAGE_SIZE
             M == UINTPTR_MOD
             G == GIB
             E == ENTRIES
  <1>1. P \in Nat \ {0} /\ E \in Nat \ {0} /\ G \in Nat \ {0} /\ G = E * (E * P) /\ M \in Nat \ {0}
        /\ G <= M
    BY Spans, RootSpan
  <1>2. PICK q \in Nat \ {0} : M = (E * G) * (E * q)
    BY RootSpan
  <1> HIDE DEF P, M, G, E
  <1>3. PICK g \in Nat : G = P * g
    <2>1. E * E \in Nat /\ G = P * (E * E)
      BY <1>1
    <2> QED BY <2>1
  <1>4. PICK m \in Nat : M = G * m
    <2>1. E * (E * q) \in Nat /\ M = G * (E * (E * q))
      BY <1>1, <1>2
    <2> QED BY <2>1
  <1>5. /\ M = P * (g * m) /\ g * m \in Nat
        /\ M - G = P * (g * m - g) /\ (M - G) + 4 * G = P * (g * m + 3 * g)
        /\ g * m + 3 * g \in Nat
    BY <1>1, <1>3, <1>4
  <1>6. \A k \in Nat : (P * k) % P = 0
    <2> TAKE k \in Nat
    <2>1. 0 \in Nat /\ 0 < P
      BY <1>1
    <2> QED BY <1>1, <2>1, MultipleMod
  <1> DEFINE x == (M - G) + 4 * G
  <1>7. M % P = 0 /\ x % P = 0 /\ x \in Nat
    <2>1. M % P = 0
      <3> DEFINE k == g * m
      <3>1. k \in Nat /\ M = P * k
        BY <1>5
      <3> HIDE DEF k
      <3> QED BY <1>6, <3>1
    <2>2. x % P = 0
      <3> DEFINE k == g * m + 3 * g
      <3>1. k \in Nat /\ x = P * k
        BY <1>5
      <3> HIDE DEF k, x
      <3> QED BY <1>6, <3>1
    <2> QED BY <1>1, <2>1, <2>2
  <1>8. window = x % M
    BY DEF window, PCIE_VIRTUAL_BASE, G, M
  <1> HIDE DEF x
  <1>9. window \in Nat /\ window % P = 0
    <2>1. x % M \in Nat
      BY <1>1, <1>7
    <2>2. (x % M) % P = 0
      BY <1>1, <1>7, ModOfMultiple
    <2> QED BY <1>8, <2>1, <2>2
  <1>10. PCIE_VIRTUAL_BASE \in Nat /\ PCIE_VIRTUAL_BASE < M
    BY <1>1 DEF PCIE_VIRTUAL_BASE, M, G
  <1>11. AllRanges \in Nat /\ PCIE_MAX_DEVICES \in Nat \ {0} /\ MaxRanges \in Nat
    BY PcieAssumption, KernelAssumption DEF AllRanges
  <1> QED BY <1>1, <1>7, <1>9, <1>10, <1>11 DEF P, M

(* A size rounded up to pages, if that does not wrap around.               *)
LEMMA PagesUp ==
    ASSUME NEW size \in Nat, size + PAGE_SIZE < UINTPTR_MOD
    PROVE  /\ size_pages(size) \in Nat /\ size_pages(size) % PAGE_SIZE = 0
           /\ size <= size_pages(size) /\ size_pages(size) <= size + PAGE_SIZE
  <1> DEFINE P == PAGE_SIZE
             v == size + (P - 1)
             q == v \div P
             r == v % P
  <1>1. P \in Nat \ {0} /\ v \in Nat /\ v < UINTPTR_MOD /\ UINTPTR_MOD \in Nat
    BY WindowNumbers
  <1>2. q \in Nat /\ r \in Nat /\ r < P /\ v = P * q + r
    BY <1>1, DivMod
  <1>3. size_pages(size) = v - r
    <2>1. v % UINTPTR_MOD = v
      BY <1>1, NoWrap
    <2> QED BY <1>1, <2>1 DEF size_pages, align_up
  <1> HIDE DEF q, r
  <1>4. v - r = P * q
    BY <1>1, <1>2
  <1>5. (P * q) % P = 0
    <2>1. 0 \in Nat /\ 0 < P
      BY <1>1
    <2> QED BY <1>1, <1>2, <2>1, MultipleMod
  <1> DEFINE w == size_pages(size)
  <1>6. w = v - r /\ w % P = 0
    BY <1>3, <1>4, <1>5
  <1> HIDE DEF w
  <1>7. w \in Nat /\ size <= w /\ w <= size + P
    BY <1>1, <1>2, <1>6
  <1> QED BY <1>6, <1>7 DEF w

(* One range more.                                                         *)
LEMMA RangeLined ==
    ASSUME NEW R, NEW g, Lined(R, g), NEW phys \in Int, NEW size \in Nat, NEW s \in Nat,
           s % PAGE_SIZE = 0, size <= s
    PROVE  LET U == Append(R, [virt |-> g, phys |-> phys, size |-> size])
           IN  Lined(U, g + s) /\ Len(U) = Len(R) + 1
  <1> DEFINE e == [virt |-> g, phys |-> phys, size |-> size]
             U == Append(R, e)
             P == PAGE_SIZE
  <1>1. R \in Seq(Ranges) /\ e \in Ranges /\ g \in Nat /\ g % P = 0
    BY DEF Lined, Ranges
  <1>2. e.virt = g /\ e.size = size
    OBVIOUS
  <1> HIDE DEF e
  <1>3. /\ U \in Seq(Ranges) /\ Len(U) = Len(R) + 1 /\ Len(R) \in Nat
        /\ \A k \in 1..(Len(R) + 1) : U[k] = IF k = Len(R) + 1 THEN e ELSE R[k]
    BY <1>1
  <1>4. \A k \in 1..Len(R) : R[k] \in Ranges
    BY <1>1, ElementOfSeq
  <1>5. \A k \in 1..Len(R) : R[k].virt \in Nat /\ R[k].size \in Nat
    BY <1>4 DEF Ranges
  <1> HIDE DEF U
  <1>6. g + s \in Nat /\ (g + s) % P = 0
    <2>1. P \in Nat \ {0}
      BY WindowNumbers
    <2> DEFINE a == g \div P
               b == s \div P
    <2>2. a \in Nat /\ g = P * a /\ b \in Nat /\ s = P * b
      BY <1>1, <2>1, ModZero
    <2> HIDE DEF a, b, P
    <2>3. g + s = P * (a + b) /\ a + b \in Nat
      BY <2>1, <2>2
    <2> DEFINE k == a + b
    <2> HIDE DEF k
    <2>4. k \in Nat /\ g + s = P * k /\ 0 \in Nat /\ 0 < P
      BY <2>1, <2>3 DEF k
    <2>5. (P * k) % P = 0
      BY <2>1, <2>4, MultipleMod
    <2> QED BY <1>1, <2>4, <2>5
  <1>7. \A k \in 1..Len(R) : R[k].virt % P = 0 /\ R[k].virt + R[k].size <= g
    BY DEF Lined
  <1>8. ASSUME NEW k \in 1..Len(U)
        PROVE  U[k].virt % P = 0 /\ U[k].virt + U[k].size <= g + s
    <2>1. CASE k = Len(R) + 1
      <3>1. U[k].virt = g /\ U[k].size = size
        BY <1>2, <1>3, <2>1
      <3> QED BY <1>1, <3>1
    <2>2. CASE k # Len(R) + 1
      <3>1. k \in 1..Len(R) /\ U[k] = R[k]
        BY <1>3, <2>2
      <3> QED BY <1>1, <1>5, <1>7, <3>1
    <2> QED BY <2>1, <2>2
  <1>9. ASSUME NEW j \in 1..Len(U), NEW k \in 1..Len(U), j < k
        PROVE  U[j].virt + U[j].size <= U[k].virt
    <2>1. j \in 1..Len(R) /\ U[j] = R[j]
      BY <1>3, <1>9
    <2>2. CASE k = Len(R) + 1
      BY <1>2, <1>3, <1>7, <2>1, <2>2
    <2>3. CASE k # Len(R) + 1
      <3>1. k \in 1..Len(R) /\ U[k] = R[k]
        BY <1>3, <2>3
      <3> QED BY <1>9, <2>1, <3>1 DEF Lined
    <2> QED BY <2>2, <2>3
  <1>10. Lined(U, g + s)
    BY <1>3, <1>6, <1>8, <1>9 DEF Lined
  <1> QED BY <1>3, <1>10 DEF U, e

(* The ranges so far, and how much of the window they take.                *)
Windowed(R, g, largest) ==
    /\ Lined(R, g)
    /\ window <= g /\ g <= window + Len(R) * (largest + PAGE_SIZE)

(* Between two addresses that the window has.                              *)
InWindow(low, high, largest) ==
    /\ low \in Nat /\ high \in Nat
    /\ window <= low /\ high <= window + AllRanges * (largest + PAGE_SIZE)

(* One range more takes no more than the largest of them, in pages.        *)
LEMMA RangeAdded ==
    ASSUME NEW largest \in Nat, RoomFor(largest), Windowed(ranges, g_mmio_next, largest),
           Len(ranges) < AllRanges,
           NEW phys \in Int, NEW size \in 0..largest, NEW i, NEW next,
           MapRange(phys, size, i, next)
    PROVE  /\ Windowed(ranges, g_mmio_next, largest)' /\ Len(ranges') = Len(ranges) + 1
           /\ InWindow(g_mmio_next, g_mmio_next + size_pages(size), largest)
           /\ InWindow(g_mmio_next, g_mmio_next + size, largest)
  <1> DEFINE n    == Len(ranges)
             room == largest + PAGE_SIZE
             s    == size_pages(size)
             g    == g_mmio_next
             R    == ranges
  <1>1. /\ ranges' = Append(R, [virt |-> g, phys |-> phys, size |-> size])
        /\ g_mmio_next' = (g + s) % UINTPTR_MOD
    BY DEF MapRange
  <1>2. Lined(R, g) /\ g \in Nat /\ n \in Nat /\ n < AllRanges
        /\ g <= window + n * room /\ window <= g
    <2>1. Lined(R, g) /\ R \in Seq(Ranges) /\ g \in Nat /\ window <= g /\ g <= window + n * room
      BY DEF Windowed, Lined
    <2>2. n \in Nat
      BY <2>1
    <2> QED BY <2>1, <2>2
  <1>3. window + AllRanges * room <= PCIE_VIRTUAL_BASE
    BY DEF RoomFor
  <1>4. /\ window \in Nat /\ AllRanges \in Nat /\ PCIE_VIRTUAL_BASE \in Nat
        /\ PCIE_VIRTUAL_BASE < UINTPTR_MOD /\ UINTPTR_MOD \in Nat /\ room \in Nat \ {0}
        /\ size \in Nat /\ size + PAGE_SIZE <= room
    BY WindowNumbers
  <1> HIDE DEF room, n
  <1>5. n * room \in Nat /\ (n + 1) * room = n * room + room
        /\ n * room + room <= AllRanges * room
    <2> DEFINE d == AllRanges - (n + 1)
    <2>1. d \in Nat /\ AllRanges = (n + 1) + d
      BY <1>2, <1>4
    <2> HIDE DEF d
    <2>2. n * room \in Nat /\ d * room \in Nat /\ (n + 1) * room = n * room + room
          /\ ((n + 1) + d) * room = (n * room + room) + d * room
      BY <1>2, <1>4, <2>1
    <2>3. AllRanges * room = (n * room + room) + d * room
      BY <2>1, <2>2
    <2> DEFINE x == n * room
               y == d * room
               z == AllRanges * room
    <2>4. x \in Nat /\ y \in Nat /\ z = (x + room) + y
      BY <2>2, <2>3
    <2> HIDE DEF x, y, z
    <2>5. x + room <= z
      BY <1>4, <2>4
    <2> QED BY <2>2, <2>5 DEF x, z
  <1> DEFINE x == n * room
             z == AllRanges * room
  <1>6. x \in Nat /\ x + room <= z /\ window + z <= PCIE_VIRTUAL_BASE /\ g <= window + x
        /\ z \in Nat
    BY <1>2, <1>3, <1>4, <1>5
  <1> HIDE DEF x, z
  <1>7. size + PAGE_SIZE < UINTPTR_MOD
    BY <1>4, <1>6, WindowNumbers
  <1>8. s \in Nat /\ s % PAGE_SIZE = 0 /\ size <= s /\ s <= size + PAGE_SIZE
    BY <1>4, <1>7, PagesUp
  <1> HIDE DEF s
  <1>9. g + s <= window + (x + room) /\ g + s < UINTPTR_MOD /\ g + s \in Nat
    BY <1>2, <1>4, <1>6, <1>8, WindowNumbers
  <1>10. g_mmio_next' = g + s
    BY <1>1, <1>9, NoWrap
  <1>11. Lined(ranges', g + s) /\ Len(ranges') = n + 1
    BY <1>1, <1>2, <1>4, <1>8, RangeLined DEF n
  <1>12. Lined(ranges, g_mmio_next)'
    BY <1>10, <1>11 DEF Lined
  <1>13. window <= g_mmio_next' /\ g_mmio_next' <= window + (n + 1) * room
    BY <1>2, <1>4, <1>5, <1>8, <1>9, <1>10 DEF x
  <1>14. Windowed(ranges, g_mmio_next, largest)'
    BY <1>11, <1>12, <1>13 DEF Windowed, n, room, window, PCIE_VIRTUAL_BASE
  <1>15. g + s <= window + z /\ g + size \in Nat /\ g + size <= g + s
    BY <1>2, <1>4, <1>6, <1>8, <1>9
  <1>16. g + size <= window + z
    BY <1>4, <1>6, <1>9, <1>15
  <1>17. InWindow(g, g + s, largest) /\ InWindow(g, g + size, largest)
    BY <1>2, <1>9, <1>15, <1>16 DEF InWindow, room, z
  <1> QED BY <1>11, <1>14, <1>17 DEF n, s

(* Ranges that lie one behind another below the configuration space share  *)
(* no page with each other, nor with it.                                   *)
LEMMA LinedApart ==
    ASSUME NEW R, NEW g, Lined(R, g), g <= PCIE_VIRTUAL_BASE
    PROVE  /\ \A j, k \in 1..Len(R) : j < k => PagesOf(R[j]) \cap PagesOf(R[k]) = {}
           /\ \A k \in 1..Len(R) : \A p \in PagesOf(R[k]) : p * PAGE_SIZE < PCIE_VIRTUAL_BASE
  <1> DEFINE P == PAGE_SIZE
  <1>1. P \in Nat \ {0} /\ PCIE_VIRTUAL_BASE \in Nat /\ R \in Seq(Ranges) /\ g \in Nat
    BY WindowNumbers DEF Lined
  <1>2. \A k \in 1..Len(R) : R[k] \in Ranges
    BY <1>1, ElementOfSeq
  <1>3. ASSUME NEW k \in 1..Len(R), NEW p \in PagesOf(R[k])
        PROVE  /\ p \in Int /\ R[k].virt <= p * P /\ p * P < R[k].virt + R[k].size
               /\ R[k].virt \in Nat /\ R[k].size \in Nat /\ p * P \in Int
    <2> DEFINE v == R[k].virt
               y == v + R[k].size - 1
               a == v \div P
               b == y \div P
               r == y % P
    <2>1. v \in Nat /\ R[k].size \in Nat /\ v % P = 0
      BY <1>2 DEF Ranges, Lined
    <2>2. p \in a..b
      BY <1>3 DEF PagesOf
    <2>3. y \in Int
      BY <2>1
    <2>4. a \in Nat /\ v = P * a
      BY <1>1, <2>1, ModZero
    <2>5. b \in Int /\ r \in Nat /\ y = P * b + r
      <3> HIDE DEF y, P
      <3> QED BY <1>1, <2>3
    <2> HIDE DEF a, b, r, v, y, P
    <2>6. p \in Int /\ a <= p /\ p <= b
      BY <2>2, <2>4, <2>5
    <2> DEFINE c == p - a
               d == b - p
    <2>7. c \in Nat /\ d \in Nat /\ p = a + c /\ b = p + d
      BY <2>4, <2>5, <2>6
    <2> HIDE DEF c, d
    <2>8. P * p = P * a + P * c /\ P * b = P * p + P * d /\ P * c \in Nat /\ P * d \in Nat
          /\ P * p \in Int /\ p * P = P * p
      BY <1>1, <2>4, <2>6, <2>7
    <2> DEFINE A == P * a
               B == P * b
               C == P * c
               D == P * d
               Q == P * p
    <2>9. /\ v = A /\ y = B + r /\ Q = A + C /\ B = Q + D /\ C \in Nat /\ D \in Nat
          /\ Q \in Int /\ p * P = Q /\ r \in Nat /\ v \in Nat /\ y \in Int
      BY <2>1, <2>3, <2>4, <2>5, <2>8 DEF v
    <2> HIDE DEF A, B, C, D, Q
    <2>10. v <= p * P /\ p * P <= y /\ p * P \in Int
      BY <2>9
    <2>11. y = v + R[k].size - 1 /\ v = R[k].virt
      BY DEF v, y
    <2>12. v \in Nat /\ R[k].size \in Nat
      BY <2>1 DEF v
    <2> DEFINE z == R[k].size
               w == p * P
    <2>13. v <= w /\ w <= y /\ w \in Int /\ y = v + z - 1 /\ v \in Nat /\ z \in Nat
      BY <2>10, <2>11, <2>12
    <2> HIDE DEF z, w
    <2>14. w < v + z
      BY <2>13
    <2> QED BY <2>6, <2>11, <2>13, <2>14 DEF z, w, P
  <1>4. ASSUME NEW j \in 1..Len(R), NEW k \in 1..Len(R), j < k, NEW p \in PagesOf(R[j]), p \in PagesOf(R[k])
        PROVE  FALSE
    <2>1. R[j].virt + R[j].size <= R[k].virt
      BY <1>4 DEF Lined
    <2>2. R[k].virt <= p * P /\ R[k].virt \in Nat /\ p * P \in Int
      BY <1>3, <1>4
    <2>3. p * P < R[j].virt + R[j].size /\ R[j].virt \in Nat /\ R[j].size \in Nat
      BY <1>3
    <2> HIDE DEF P
    <2> QED BY <2>1, <2>2, <2>3
  <1>5. ASSUME NEW k \in 1..Len(R), NEW p \in PagesOf(R[k])
        PROVE  p * P < PCIE_VIRTUAL_BASE
    <2>1. R[k].virt + R[k].size <= g
      BY DEF Lined
    <2> QED BY <1>1, <1>3, <2>1
  <1> QED BY <1>4, <1>5

(* A function's BARs and its MSI-X table take seven ranges at most, and    *)
(* drivers stop at MaxRanges.                                              *)
Counted ==
    /\ Len(ranges) <= AllRanges
    /\ pc \in {"bar", "restore", "map_bar"} => Len(ranges) <= 7 * (Len(pcie_devices) - 1) + loop.i
    /\ pc \notin {"bar", "restore", "map_bar", "mmio"} \cup Finished => Len(ranges) <= 7 * Len(pcie_devices)

(* Base and size in hand are those of the slot in hand.                    *)
SlotSized ==
    /\ pc \in {"restore", "map_bar"} =>
          pcie_devices[Len(pcie_devices)].bars[loop.i] = SlotBase(here, loop.i)
    /\ pc = "map_bar" => pcie_devices[Len(pcie_devices)].bar_size[loop.i] = SlotSize(here, loop.i)

RangesInv(largest) ==
    /\ RoomFor(largest)
    /\ Windowed(ranges, g_mmio_next, largest)
    /\ Counted
    /\ SlotSized

(* The machine does not change, and so neither does the room it needs.     *)
LEMMA RoomStays ==
    ASSUME NEW largest, RoomFor(largest), UNCHANGED machine
    PROVE  RoomFor(largest)'
  <1>1. \A fn, i : SlotSize(fn, i)' = SlotSize(fn, i) /\ SlotBase(fn, i)' = SlotBase(fn, i)
    <2>1. \A fn, i : register(fn, i)' = register(fn, i)
      BY SameMachine
    <2>2. \A fn, i : BarLow(fn, i)' = BarLow(fn, i) /\ Ones(fn, i)' = Ones(fn, i)
      BY <2>1 DEF BarLow, Ones, written
    <2>3. \A fn, i : BarUpper(fn, i)' = BarUpper(fn, i) /\ BarHigh(fn, i)' = BarHigh(fn, i)
      BY <2>1, <2>2 DEF BarUpper, BarHigh
    <2> QED BY <2>2, <2>3 DEF SlotSize, SlotBase
  <1> QED BY <1>1 DEF RoomFor, window, AllRanges, PCIE_VIRTUAL_BASE

(* Once initPcie is done the kernel stays out of it.                       *)
LEMMA FinishedStays ==
    ASSUME LoopInv, RootInv, VmInv, [Next]_vars, pc \in Finished \cup {"mmio"}
    PROVE  pc' \in Finished \cup {"mmio"}
  <1>1. ~SetupPageTables /\ ~NextSegment /\ ~MapEcam
    BY DEF SetupPageTables, NextSegment, MapEcam, Finished
  <1>2. pc \notin BeforePaging \cup Booted \cup Enumerating
    BY DEF BeforePaging, Booted, Enumerating, Finished
  <1> QED BY <1>1, <1>2, EcamFrame

(* A function that is visited has used none of its ranges.                 *)
LEMMA VisitRanges ==
    ASSUME NEW largest, TableInv, StackInv, LoopInv, RangesInv(largest), Visit
    PROVE  RangesInv(largest)'
  <1>1. /\ pc = "walk" /\ UNCHANGED <<machine, g_mmio_next, ranges>>
        /\ \/ UNCHANGED pcie_devices /\ pc' \in {"walk", "bridge"}
           \/ /\ pcie_devices' = Append(pcie_devices, Record(fn_at)) /\ pc' = "bar"
              /\ loop'.i = 0
    BY DEF Visit, LoopInv
  <1>2. Len(ranges) <= 7 * Len(pcie_devices) /\ Len(ranges) <= AllRanges
    BY <1>1 DEF RangesInv, Counted, Finished
  <1>3. RoomFor(largest)'
    BY <1>1, RoomStays DEF RangesInv
  <1>4. Windowed(ranges, g_mmio_next, largest)'
    BY <1>1 DEF RangesInv, Windowed, Lined, window, PCIE_VIRTUAL_BASE
  <1>5. SlotSized'
    BY <1>1 DEF SlotSized
  <1>6. Counted'
    <2>1. CASE UNCHANGED pcie_devices /\ pc' \in {"walk", "bridge"}
      BY <1>1, <1>2, <2>1 DEF Counted, AllRanges
    <2>2. CASE pcie_devices' = Append(pcie_devices, Record(fn_at)) /\ pc' = "bar" /\ loop'.i = 0
      <3> DEFINE n == Len(pcie_devices)
      <3>1. n \in Nat /\ Len(pcie_devices') = n + 1 /\ (n + 1) - 1 = n /\ Len(ranges) \in Nat
        BY <2>2 DEF TableInv, RangesInv, Windowed, Lined
      <3>2. Len(ranges') <= 7 * n + 0 /\ 7 * n + 0 = 7 * n
        BY <1>1, <1>2, <3>1
      <3>3. Len(ranges') <= 7 * (Len(pcie_devices') - 1) + loop'.i
        BY <2>2, <3>1, <3>2
      <3> QED BY <1>1, <1>2, <2>2, <3>3 DEF Counted, AllRanges
    <2> QED BY <1>1, <2>1, <2>2
  <1> QED BY <1>3, <1>4, <1>5, <1>6 DEF RangesInv

(* The base in hand is the one of the slot.                                *)
LEMMA SizeBarRanges ==
    ASSUME NEW largest, BarInv, TableInv, TableInv', StackInv, LoopInv, RangesInv(largest), SizeBar
    PROVE  RangesInv(largest)'
  <1>1. /\ pc = "bar" /\ pc' = "restore" /\ loop'.i = loop.i /\ loop.i \in 0..5
        /\ UNCHANGED <<machine, segment, vm, stack, g_mmio_next, ranges>>
    BY DEF SizeBar, LoopInv
  <1>2. Len(pcie_devices') = Len(pcie_devices)
    <2> DEFINE T == pcie_devices
    <2>1. T \in Seq(DeviceRecords) /\ T' \in Seq(DeviceRecords)
      BY DEF TableInv
    <2>2. \E e : T' = [T EXCEPT ![Len(T)] = e]
      BY DEF SizeBar
    <2> HIDE DEF T
    <2> QED BY <2>1, <2>2 DEF T
  <1>3. RoomFor(largest)'
    BY <1>1, RoomStays DEF RangesInv
  <1>4. Windowed(ranges, g_mmio_next, largest)'
    BY <1>1 DEF RangesInv, Windowed, Lined, window, PCIE_VIRTUAL_BASE
  <1>5. SlotSized'
    <2> DEFINE low  == config[here].bar[loop.i]
               high == IF is_64_bit(low) THEN config[here].bar[loop.i + 1] ELSE 0
               v    == pcie_get_bar(low, high)
               n    == loop.i
               T    == pcie_devices
    <2>1. n \in 0..6 /\ n + 1 \in 0..6
      BY <1>1
    <2>2. /\ low = register(here, n).value /\ low \in Nat
          /\ config[here].bar[n + 1] = register(here, n + 1).value /\ config[here].bar[n + 1] \in Nat
      BY <1>1, <2>1, HereAssigned DEF BarPlaces
    <2>3. low = BarLow(here, n) /\ high = BarHigh(here, n) /\ low \in Int /\ high \in Int
      BY <2>2 DEF BarLow, BarHigh
    <2>4. T' = WithBar(T, n, v)
      BY DEF SizeBar, WithBar
    <2> HIDE DEF low, high
    <2>5. v \in Int /\ v = SlotBase(here, n)
      BY <2>3, BarNumbers DEF SlotBase
    <2> HIDE DEF v
    <2>6. T \in Seq(DeviceRecords) /\ T # <<>>
      BY <1>1 DEF TableInv
    <2> DEFINE row == WithRow(T[Len(T)].bars, n, v)
               U   == WithBar(T, n, v)
    <2>7. Updated(T, U, row, T[Len(T)].bar_size) /\ T[Len(T)] \in DeviceRecords
      BY <1>1, <2>5, <2>6, BarUpdated, LastRecord
    <2>8. row[n] = v
      BY <1>1, <2>7 DEF WithRow, DeviceRecords
    <2> HIDE DEF row, U
    <2>9. Len(U) = Len(T) /\ U[Len(T)].bars[n] = v
      BY <2>7, <2>8 DEF Updated
    <2>10. T' = U
      BY <2>4 DEF U
    <2>11. UNCHANGED here
      BY <1>1, SameHere
    <2>12. SlotBase(here, n)' = SlotBase(here, n)
      <3>1. register(here, n)' = register(here, n) /\ register(here, n + 1)' = register(here, n + 1)
        BY <1>1, <2>11, SameMachine
      <3>2. UNCHANGED n
        BY <1>1
      <3> QED BY <3>1, <3>2, <2>11 DEF SlotBase, BarLow, BarHigh
    <2>13. pcie_devices'[Len(pcie_devices')].bars[loop'.i] = v
      <3>1. loop'.i = n
        BY <1>1
      <3> QED BY <3>1, <2>9, <2>10
    <2> QED BY <1>1, <2>5, <2>12, <2>13 DEF SlotSized
  <1>6. Counted'
    BY <1>1, <1>2 DEF RangesInv, Counted, AllRanges, Finished
  <1> QED BY <1>3, <1>4, <1>5, <1>6 DEF RangesInv

(* And so is the size.                                                     *)
LEMMA RestoreRanges ==
    ASSUME NEW largest, BarInv, SizingInv, TableInv, StackInv, LoopInv, RangesInv(largest), Restore
    PROVE  RangesInv(largest)'
  <1> DEFINE low   == loop.low
             ones  == config[here].bar[loop.i]
             upper == IF is_64_bit(low) THEN config[here].bar[loop.i + 1] ELSE 0
             v     == pcie_get_bar_size(low, ones, upper)
             n     == loop.i
             T     == pcie_devices
  <1>1. /\ pc = "restore" /\ n \in 0..5 /\ pc' = "map_bar"
        /\ UNCHANGED <<machine, segment, vm, stack, g_mmio_next, ranges, loop>>
    BY DEF Restore, SizingInv
  <1>2. here \in DOMAIN machine.functions /\ machine \in Machines /\ DOMAIN config = DOMAIN machine.functions
    BY <1>1, HereAnswers DEF BarPlaces, BarInv, ConfigShape
  <1>3. low = BarLow(here, n) /\ low \in Int
    <2>1. n \in 0..6
      BY <1>1
    <2>2. Settled(register(here, n))
      BY <1>2, <2>1, RegistersSettled
    <2>3. low = register(here, n).value
      BY <1>1, <1>2 DEF BarInv
    <2> QED BY <2>2, <2>3 DEF Settled, BarLow
  <1>4. ones = Ones(here, n) /\ upper = BarUpper(here, n) /\ ones \in Int /\ upper \in Int
    <2>1. n \in 0..6 /\ n + 1 \in 0..6
      BY <1>1
    <2>2. Ones(here, n) \in Int /\ Ones(here, n + 1) \in Int
      BY <1>2, <2>1, OnesRead
    <2> QED BY <1>1, <1>3, <2>2 DEF SizingInv, BarUpper
  <1>5. T' = WithSize(T, n, v)
    BY DEF Restore, WithSize
  <1>6. v = SlotSize(here, n) /\ v \in Int
    <2> HIDE DEF low, ones, upper
    <2> QED BY <1>3, <1>4, BarNumbers DEF SlotSize
  <1>7. T \in Seq(DeviceRecords) /\ T # <<>>
    BY <1>1 DEF TableInv
  <1> HIDE DEF v
  <1> DEFINE row == WithRow(T[Len(T)].bar_size, n, v)
             U   == WithSize(T, n, v)
  <1>8. Updated(T, U, T[Len(T)].bars, row) /\ T[Len(T)] \in DeviceRecords
    BY <1>1, <1>6, <1>7, SizeUpdated, LastRecord
  <1>9. row[n] = v
    BY <1>1, <1>8 DEF WithRow, DeviceRecords
  <1> HIDE DEF row, U
  <1>10. Len(U) = Len(T) /\ U[Len(T)].bar_size[n] = v /\ U[Len(T)].bars = T[Len(T)].bars
    BY <1>8, <1>9 DEF Updated
  <1>11. T' = U
    BY <1>5 DEF U
  <1>12. SlotSized'
    <2>1. UNCHANGED here
      BY <1>1, SameHere
    <2>2. SlotSize(here, n)' = SlotSize(here, n) /\ SlotBase(here, n)' = SlotBase(here, n)
      <3>1. register(here, n)' = register(here, n) /\ register(here, n + 1)' = register(here, n + 1)
        BY <1>1, <2>1, SameMachine
      <3>2. UNCHANGED n
        BY <1>1
      <3> QED BY <3>1, <3>2, <2>1 DEF SlotSize, SlotBase, BarLow, BarHigh, BarUpper, Ones, written
    <2>3. T[Len(T)].bars[n] = SlotBase(here, n)
      BY <1>1 DEF RangesInv, SlotSized
    <2>4. /\ pcie_devices'[Len(pcie_devices')].bar_size[loop'.i] = v
          /\ pcie_devices'[Len(pcie_devices')].bars[loop'.i] = SlotBase(here, n)
      <3>1. loop'.i = n
        BY <1>1
      <3> HIDE DEF T, n
      <3> QED BY <3>1, <2>3, <1>10, <1>11 DEF T
    <2> QED BY <1>6, <2>2, <2>4 DEF SlotSized
  <1>13. RoomFor(largest)'
    BY <1>1, RoomStays DEF RangesInv
  <1>14. Windowed(ranges, g_mmio_next, largest)'
    BY <1>1 DEF RangesInv, Windowed, Lined, window, PCIE_VIRTUAL_BASE
  <1>15. Counted'
    BY <1>1, <1>10, <1>11 DEF RangesInv, Counted, AllRanges, Finished
  <1> QED BY <1>12, <1>13, <1>14, <1>15 DEF RangesInv

(* A slot is mapped within what the window has room for.                   *)
LEMMA MapBarRanges ==
    ASSUME NEW largest \in Nat, RootInv, BarInv, SizingInv, TableInv, TableInv', StackInv, LoopInv,
           RangesInv(largest), MapBar
    PROVE  RangesInv(largest)'
  <1> DEFINE T    == pcie_devices
             d    == Last(T)
             phys == d.bars[loop.i]
             size == d.bar_size[loop.i]
             n    == loop.i
             L    == Len(ranges)
             K    == Len(T)
  <1>1. /\ pc = "map_bar" /\ n \in 0..5 /\ g_pml4_virt = NULL
        /\ UNCHANGED <<machine, segment, vm, stack>>
    BY DEF MapBar, SizingInv, RootInv, Finished
  <1>2. pc' = "bar" /\ loop'.i = n + 1
    BY <1>1 DEF MapBar, MapRange, LoopInv
  <1>3. T \in Seq(DeviceRecords) /\ T # <<>> /\ K <= PCIE_MAX_DEVICES /\ K \in Nat
    <2>1. T \in Seq(DeviceRecords) /\ T # <<>> /\ K <= PCIE_MAX_DEVICES
      BY <1>1 DEF TableInv
    <2> QED BY <2>1
  <1>4. phys \in Int /\ (phys # 0 => size \in 0..largest)
    <2>1. Last(T) = T[Len(T)] /\ Last(T) \in DeviceRecords
      BY <1>3, LastRecord
    <2>2. phys \in Int
      BY <1>1, <2>1 DEF DeviceRecords
    <2>3. here \in DOMAIN machine.functions
      BY <1>1, HereAnswers DEF BarPlaces
    <2>4. size = SlotSize(here, n) /\ phys = SlotBase(here, n)
      BY <1>1, <2>1 DEF RangesInv, SlotSized
    <2>5. SlotBase(here, n) # 0 => SlotSize(here, n) \in 0..largest
      BY <1>1, <2>3 DEF RangesInv, RoomFor
    <2> QED BY <2>2, <2>4, <2>5
  <1>5. L <= 7 * (K - 1) + n /\ L \in Nat /\ L <= AllRanges
    BY <1>1 DEF RangesInv, Counted, Windowed, Lined
  <1>6. L < AllRanges
    <2>1. AllRanges = 7 * PCIE_MAX_DEVICES + MaxRanges /\ MaxRanges \in Nat /\ PCIE_MAX_DEVICES \in Nat
      BY WindowNumbers DEF AllRanges
    <2> HIDE DEF L, K, n
    <2> QED BY <1>1, <1>3, <1>5, <2>1
  <1>7. Len(T') = K
    <2>1. T' \in Seq(DeviceRecords)
      BY DEF TableInv
    <2>2. T' = T \/ \E e : T' = [T EXCEPT ![Len(T)] = e]
      BY DEF MapBar
    <2> DEFINE U == T'
    <2> HIDE DEF T, U
    <2>3. Len(U) = Len(T)
      BY <1>3, <2>1, <2>2 DEF U
    <2> QED BY <2>3 DEF U
  <1>8. /\ Windowed(ranges, g_mmio_next, largest)'
        /\ Len(ranges') <= L + 1 /\ Len(ranges') \in Nat
    <2>1. CASE UNCHANGED <<g_mmio_next, ranges>>
      <3>1. Windowed(ranges, g_mmio_next, largest)'
        BY <2>1 DEF RangesInv, Windowed, Lined, window, PCIE_VIRTUAL_BASE
      <3> QED BY <1>5, <2>1, <3>1
    <2>2. CASE phys # 0 /\ MapRange(phys, size, loop.i + 1, "bar")
      <3>1. RoomFor(largest) /\ Windowed(ranges, g_mmio_next, largest)
        BY DEF RangesInv
      <3> HIDE DEF phys, size
      <3>2. Windowed(ranges, g_mmio_next, largest)' /\ Len(ranges') = Len(ranges) + 1
        BY <1>4, <1>6, <2>2, <3>1, RangeAdded
      <3> QED BY <1>5, <3>2
    <2> QED BY <2>1, <2>2 DEF MapBar
  <1>9. Counted'
    <2> DEFINE A == AllRanges
               S == Len(ranges')
    <2>1. S <= L + 1 /\ L < A /\ A \in Nat /\ L <= 7 * (K - 1) + n /\ S \in Nat /\ L \in Nat
          /\ K \in Nat /\ n \in Nat
      BY <1>1, <1>3, <1>5, <1>6, <1>8, WindowNumbers
    <2> HIDE DEF A, S, L, K, n
    <2>2. S <= A /\ S <= 7 * (K - 1) + (n + 1)
      BY <2>1
    <2>3. Len(ranges') <= 7 * (Len(pcie_devices') - 1) + loop'.i /\ Len(ranges') <= AllRanges
      BY <1>2, <1>7, <2>2 DEF S, A
    <2> QED BY <1>2, <2>3 DEF Counted, AllRanges
  <1>10. RoomFor(largest)'
    BY <1>1, RoomStays DEF RangesInv
  <1>11. SlotSized'
    BY <1>2 DEF SlotSized
  <1> QED BY <1>8, <1>9, <1>10, <1>11 DEF RangesInv

(* So is the MSI-X table, the seventh range of its function.               *)
LEMMA MsixRanges ==
    ASSUME NEW largest \in Nat, RootInv, BarInv, SizingInv, TableInv, StackInv, LoopInv,
           RangesInv(largest), MapMsixTable
    PROVE  /\ RangesInv(largest)'
           /\ pc' = "program" =>
                 InWindow(loop'.base,
                          loop'.base + machine.functions[here].msix.entries * MSIX_ENTRY, largest)
  <1> DEFINE T    == pcie_devices
             f    == machine.functions[here]
             d    == Last(T)
             table == IF f.msix.bir < 6 THEN d.bars[f.msix.bir] ELSE 0
             phys == table + f.msix.offset
             size == f.msix.entries * MSIX_ENTRY
             L    == Len(ranges)
             K    == Len(T)
  <1>1. /\ pc = "bar" /\ loop.i = 6 /\ g_pml4_virt = NULL
        /\ UNCHANGED <<machine, pcie_devices>>
    BY DEF MapMsixTable, RootInv, Finished
  <1>2. pc' \in {"bridge", "program"}
    BY <1>1 DEF MapMsixTable, MapRange
  <1>3. T \in Seq(DeviceRecords) /\ T # <<>> /\ K <= PCIE_MAX_DEVICES /\ K \in Nat
    <2>1. T \in Seq(DeviceRecords) /\ T # <<>> /\ K <= PCIE_MAX_DEVICES
      BY <1>1 DEF TableInv
    <2> QED BY <2>1
  <1>4. phys \in Int /\ size \in 0..largest
    <2>1. here \in DOMAIN machine.functions /\ machine \in Machines
      BY <1>1, HereAnswers DEF BarPlaces, BarInv, ConfigShape
    <2>2. f.msix.bir \in Nat /\ f.msix.offset \in Nat /\ f.msix.entries \in Nat /\ MSIX_ENTRY \in Nat
      BY <2>1, MachineAssumption, PcieAssumption DEF WellFormed
    <2>3. Last(T) \in DeviceRecords
      BY <1>3, LastRecord
    <2>4. table \in Int
      BY <2>2, <2>3 DEF DeviceRecords
    <2>5. phys \in Int
      <3> HIDE DEF table
      <3> QED BY <2>2, <2>4
    <2>6. size <= largest
      BY <2>1 DEF RangesInv, RoomFor
    <2>7. size \in Nat
      <3> DEFINE n == f.msix.entries
      <3>1. n \in Nat /\ MSIX_ENTRY \in Nat
        BY <2>2
      <3> HIDE DEF n
      <3>2. n * MSIX_ENTRY \in Nat
        BY <3>1
      <3> QED BY <3>2 DEF n
    <2> HIDE DEF size, phys
    <2> QED BY <2>5, <2>6, <2>7
  <1>5. L <= 7 * (K - 1) + 6 /\ L \in Nat
    BY <1>1 DEF RangesInv, Counted, Windowed, Lined
  <1>6. L < AllRanges /\ L + 1 <= 7 * K
    <2>1. AllRanges = 7 * PCIE_MAX_DEVICES + MaxRanges /\ MaxRanges \in Nat /\ PCIE_MAX_DEVICES \in Nat
      BY WindowNumbers DEF AllRanges
    <2> HIDE DEF L, K
    <2> QED BY <1>3, <1>5, <2>1
  <1>7. /\ Windowed(ranges, g_mmio_next, largest)'
        /\ Len(ranges') <= L + 1 /\ Len(ranges') \in Nat
        /\ pc' = "program" => InWindow(loop'.base, loop'.base + size, largest)
    <2>1. CASE UNCHANGED <<g_mmio_next, ranges>> /\ pc' = "bridge"
      <3>1. Windowed(ranges, g_mmio_next, largest)'
        BY <2>1 DEF RangesInv, Windowed, Lined, window, PCIE_VIRTUAL_BASE
      <3> QED BY <1>5, <2>1, <3>1
    <2>2. CASE \E next : MapRange(phys, size, 0, next)
      <3>1. RoomFor(largest) /\ Windowed(ranges, g_mmio_next, largest)
        BY DEF RangesInv
      <3> HIDE DEF phys, size
      <3>2. PICK next : MapRange(phys, size, 0, next)
        BY <2>2
      <3>3. /\ Windowed(ranges, g_mmio_next, largest)' /\ Len(ranges') = Len(ranges) + 1
            /\ InWindow(g_mmio_next, g_mmio_next + size, largest)
        BY <1>4, <1>6, <3>2, <3>1, RangeAdded
      <3>4. loop'.base = g_mmio_next
        BY <3>2 DEF MapRange, LoopInv
      <3> QED BY <1>5, <3>3, <3>4
    <2> QED BY <2>1, <2>2 DEF MapMsixTable
  <1>8. Counted'
    <2> DEFINE A == AllRanges
               S == Len(ranges')
    <2>1. S <= L + 1 /\ L < A /\ A \in Nat /\ L + 1 <= 7 * K /\ S \in Nat /\ L \in Nat /\ K \in Nat
      BY <1>3, <1>5, <1>6, <1>7, WindowNumbers
    <2> HIDE DEF A, S, L, K
    <2>2. S <= A /\ S <= 7 * K
      BY <2>1
    <2>3. Len(ranges') <= 7 * Len(pcie_devices') /\ Len(ranges') <= AllRanges
      BY <1>1, <2>2 DEF S, A, K
    <2> QED BY <1>2, <2>3 DEF Counted, AllRanges
  <1>9. RoomFor(largest)'
    BY <1>1, RoomStays DEF RangesInv
  <1>10. SlotSized'
    BY <1>2 DEF SlotSized
  <1> QED BY <1>7, <1>8, <1>9, <1>10 DEF RangesInv

(* And what drivers ask for later.                                         *)
LEMMA ResourceRanges ==
    ASSUME NEW largest \in Nat, LoopInv, RangesInv(largest), MapResource
    PROVE  RangesInv(largest)' /\ InWindow(loop'.virt, loop'.end, largest)
  <1>1. /\ pc = "idle" /\ pc' \in {"idle", "mmio"} /\ UNCHANGED <<machine, pcie_devices>>
        /\ Len(ranges) < MaxRanges
    BY DEF MapResource, pcie_map_phys_mmio, MapRange
  <1>2. PICK r \in Resources : MapRange(r.phys, r.size, 0, "idle")
    BY DEF MapResource, pcie_map_phys_mmio
  <1>3. r.phys \in Int /\ r.size \in 0..largest
    BY KernelAssumption DEF RangesInv, RoomFor
  <1>4. RoomFor(largest) /\ Windowed(ranges, g_mmio_next, largest) /\ Len(ranges) \in Nat
    BY DEF RangesInv, Windowed, Lined
  <1>5. Len(ranges) < AllRanges
    <2>1. AllRanges = 7 * PCIE_MAX_DEVICES + MaxRanges /\ MaxRanges \in Nat /\ PCIE_MAX_DEVICES \in Nat
      BY WindowNumbers DEF AllRanges
    <2> QED BY <1>1, <1>4, <2>1
  <1>6. /\ Windowed(ranges, g_mmio_next, largest)' /\ Len(ranges') = Len(ranges) + 1
        /\ InWindow(loop'.virt, loop'.end, largest)
    <2>1. /\ Windowed(ranges, g_mmio_next, largest)' /\ Len(ranges') = Len(ranges) + 1
          /\ InWindow(g_mmio_next, g_mmio_next + size_pages(r.size), largest)
      BY <1>2, <1>3, <1>4, <1>5, RangeAdded
    <2>2. loop'.virt = g_mmio_next /\ loop'.end = g_mmio_next + size_pages(r.size)
      BY <1>2 DEF MapRange, LoopInv
    <2> QED BY <2>1, <2>2
  <1>7. Counted'
    <2>1. Len(ranges') <= AllRanges
      BY <1>4, <1>5, <1>6, WindowNumbers
    <2> QED BY <1>1, <2>1 DEF Counted, AllRanges, Finished
  <1>8. RoomFor(largest)'
    BY <1>1, RoomStays DEF RangesInv
  <1>9. SlotSized'
    BY <1>1 DEF SlotSized
  <1> QED BY <1>6, <1>7, <1>8, <1>9 DEF RangesInv

(* In the beginning there are none.                                        *)
LEMMA RangesInit ==
    ASSUME NEW largest \in Nat, Init, RoomFor(largest)
    PROVE  RangesInv(largest)
  <1>1. /\ pc = "start" /\ pcie_devices = <<>> /\ ranges = <<>>
        /\ g_mmio_next = window
    BY DEF Init, InitPcieState, window
  <1>2. Len(ranges) = 0 /\ Len(pcie_devices) = 0 /\ ranges \in Seq(Ranges)
    BY <1>1
  <1>3. Windowed(ranges, g_mmio_next, largest)
    <2>1. Lined(ranges, g_mmio_next)
      BY <1>1, <1>2, WindowNumbers DEF Lined
    <2>2. window + 0 * (largest + PAGE_SIZE) = window
      BY WindowNumbers
    <2> QED BY <1>1, <1>2, <2>1, <2>2, WindowNumbers DEF Windowed
  <1>4. Counted
    BY <1>1, <1>2, WindowNumbers DEF Counted
  <1>5. SlotSized
    BY <1>1 DEF SlotSized
  <1> QED BY <1>3, <1>4, <1>5 DEF RangesInv

(* Every step leaves the ranges in order.                                  *)
LEMMA RangesStep ==
    ASSUME NEW largest \in Nat, LoopInv, RootInv, VmInv, BarInv, StackInv, SizingInv,
           TableInv, TableInv', RangesInv(largest), [Next]_vars
    PROVE  RangesInv(largest)'
  <1>1. UNCHANGED machine
    BY EcamFrame
  <1>2. RoomFor(largest)'
    BY <1>1, RoomStays DEF RangesInv
  <1>3. CASE UNCHANGED <<pcie_devices, g_mmio_next, ranges>> /\ UNCHANGED <<pc, pcie_vars>>
    <2>1. UNCHANGED <<machine, vm, segment, stack, loop, pc, pcie_devices, g_mmio_next, ranges>>
      BY <1>3 DEF pcie_vars
    <2>2. Windowed(ranges, g_mmio_next, largest)'
      BY <2>1 DEF RangesInv, Windowed, Lined, window, PCIE_VIRTUAL_BASE
    <2>3. Counted'
      BY <2>1 DEF RangesInv, Counted, AllRanges, Finished
    <2>4. SlotSized'
      <3>1. UNCHANGED here
        BY <2>1, SameHere
      <3>2. /\ SlotSize(here, loop.i)' = SlotSize(here, loop.i)
            /\ SlotBase(here, loop.i)' = SlotBase(here, loop.i)
        <4>1. /\ register(here, loop.i)' = register(here, loop.i)
              /\ register(here, loop.i + 1)' = register(here, loop.i + 1)
          BY <2>1, <3>1, SameMachine
        <4> QED BY <2>1, <3>1, <4>1 DEF SlotSize, SlotBase, BarLow, BarHigh, BarUpper, Ones, written
      <3> QED BY <2>1, <3>2 DEF RangesInv, SlotSized
    <2> QED BY <1>2, <2>2, <2>3, <2>4 DEF RangesInv
  <1>4. CASE /\ UNCHANGED <<pcie_devices, g_mmio_next, ranges>>
             /\ pc \notin {"bar", "restore", "map_bar"} /\ pc' \notin {"bar", "restore", "map_bar"}
    <2>1. Windowed(ranges, g_mmio_next, largest)'
      BY <1>4 DEF RangesInv, Windowed, Lined, window, PCIE_VIRTUAL_BASE
    <2>2. pc' \notin Finished \cup {"mmio"} => pc \notin Finished \cup {"mmio"}
      BY FinishedStays
    <2>3. Counted'
      BY <1>4, <2>2 DEF RangesInv, Counted, AllRanges, Finished
    <2>4. SlotSized'
      BY <1>4 DEF SlotSized
    <2> QED BY <1>2, <2>1, <2>3, <2>4 DEF RangesInv
  <1> QED BY <1>3, <1>4, TableFrame, VisitRanges, SizeBarRanges, RestoreRanges, MapBarRanges,
          MsixRanges, ResourceRanges

(***************************************************************************)
(* While the window has room - as it has unless a slot that is no BAR is   *)
(* taken for a huge one - no page of it is handed out for two things, *)
(* nor is one of the configuration space: the counter, which starts where  *)
(* the address space wraps around, does not do so again.                   *)
(***************************************************************************)
THEOREM KernelKeepsRangesApart ==
    ASSUME NEW largest \in Nat
    PROVE  Spec /\ RoomFor(largest) => []RangesDisjoint
  <1>1. Init /\ RoomFor(largest) => RangesInv(largest)
    BY RangesInit
  <1>2. LoopInv /\ BarInv /\ VmInv /\ EnumInv /\ EnumInv' /\ RangesInv(largest) /\ [Next]_vars
           => RangesInv(largest)'
    BY RangesStep DEF EnumInv
  <1>3. RangesInv(largest) => RangesDisjoint
    <2> SUFFICES ASSUME RangesInv(largest) PROVE RangesDisjoint
      OBVIOUS
    <2> DEFINE n    == Len(ranges)
               room == largest + PAGE_SIZE
    <2>1. /\ Lined(ranges, g_mmio_next) /\ g_mmio_next \in Nat /\ g_mmio_next <= window + n * room
          /\ n <= AllRanges /\ n \in Nat /\ window + AllRanges * room <= PCIE_VIRTUAL_BASE
      BY DEF RangesInv, Windowed, Lined, Counted, RoomFor
    <2>2. window \in Nat /\ AllRanges \in Nat /\ PCIE_VIRTUAL_BASE \in Nat /\ room \in Nat
      BY WindowNumbers
    <2> HIDE DEF n, room
    <2>3. n * room <= AllRanges * room
      <3> DEFINE d == AllRanges - n
      <3>1. d \in Nat /\ AllRanges = n + d
        BY <2>1, <2>2
      <3> HIDE DEF d
      <3>2. AllRanges * room = n * room + d * room /\ d * room \in Nat /\ n * room \in Nat
        BY <2>1, <2>2, <3>1
      <3> QED BY <3>2
    <2> DEFINE x == n * room
               y == AllRanges * room
    <2>4. x \in Nat /\ y \in Nat /\ x <= y
      BY <2>1, <2>2, <2>3
    <2> HIDE DEF x, y
    <2>5. g_mmio_next <= PCIE_VIRTUAL_BASE
      BY <2>1, <2>2, <2>4 DEF x, y
    <2> QED BY <2>1, <2>5, LinedApart DEF RangesDisjoint
  <1> QED BY <1>1, <1>2, <1>3, BarsKept, TablesKept, EnumerationKept, PTL DEF Spec

-----------------------------------------------------------------------------
(*-------------------------------- the strays ------------------------------*)

(* Where the window starts, the addresses wrap around to 3 GiB.            *)
LEMMA WindowStart == window = 3 * GIB /\ 3 * GIB \in Nat
  <1> DEFINE E == ENTRIES
             G == GIB
             M == UINTPTR_MOD
  <1>1. E \in Nat \ {0, 1} /\ G \in Nat \ {0} /\ M \in Nat \ {0}
    BY Spans, RootSpan
  <1>2. PICK q \in Nat \ {0} : M = (E * G) * (E * q)
    BY RootSpan
  <1>3. window = ((M - G) + 4 * G) % M
    BY DEF window, PCIE_VIRTUAL_BASE
  <1> HIDE DEF E, G, M
  <1>4. PICK x \in Nat : M = G * x /\ x >= 4
    <2> DEFINE y == E * E
    <2>1. y \in Nat /\ y >= 4
      BY <1>1
    <2>2. M = G * (y * q)
      BY <1>1, <1>2
    <2> HIDE DEF y
    <2>3. y * q \in Nat /\ y * q >= y
      BY <1>2, <2>1
    <2> QED BY <2>1, <2>2, <2>3
  <1>5. 4 * G <= M
    <2>1. x - 4 \in Nat /\ x = 4 + (x - 4)
      BY <1>4
    <2>2. G * (4 + (x - 4)) = 4 * G + G * (x - 4) /\ G * (x - 4) \in Nat
      BY <1>1, <2>1
    <2> QED BY <1>1, <1>4, <2>1, <2>2
  <1> DEFINE r == 3 * G
  <1>6. r \in Nat /\ r < M /\ (M - G) + 4 * G = M * 1 + r
    BY <1>1, <1>5
  <1> HIDE DEF r
  <1>7. (M * 1 + r) % M = r
    BY <1>1, <1>6, DivUnique
  <1> QED BY <1>3, <1>6, <1>7 DEF r, G

(* The addresses of the window, by the indexes they have, if it does not   *)
(* reach the last entry of the root.                                       *)
LowEnd == (ENTRIES - 1) * (ENTRIES * GIB)

LEMMA LowDigits ==
    ASSUME NEW v \in Nat, v < LowEnd
    PROVE  /\ PML4_INDEX(v) # ENTRIES - 1
           /\ PD_INDEX(v) \in 0..(ENTRIES - 1)
           /\ PML4_INDEX(v) = 0 => PDPT_INDEX(v) * ENTRIES + PD_INDEX(v) = v \div LARGE
  <1> DEFINE E == ENTRIES
             L == LARGE
             G == GIB
             S == E * G
             a == v \div S
             r == v % S
  <1>1. E \in Nat \ {0, 1} /\ L \in Nat \ {0} /\ G \in Nat \ {0} /\ S \in Nat \ {0} /\ G = E * L
    BY Spans
  <1>2. v < (E - 1) * S
    BY DEF LowEnd
  <1>3. PML4_INDEX(v) = a % E /\ PDPT_INDEX(v) = (v \div G) % E /\ PD_INDEX(v) = (v \div L) % E
    BY DEF PML4_INDEX, PDPT_INDEX, PD_INDEX
  <1> HIDE DEF E, L, G
  <1>4. a \in Nat /\ r \in Nat /\ r < S /\ v = S * a + r
    BY <1>1, DivMod
  <1>5. a < E - 1
    <2> SUFFICES ASSUME ~(a < E - 1) PROVE FALSE
      OBVIOUS
    <2> HIDE DEF a, r, S
    <2>1. a - (E - 1) \in Nat /\ a = (E - 1) + (a - (E - 1)) /\ E - 1 \in Nat
      BY <1>1, <1>4
    <2>2. S * ((E - 1) + (a - (E - 1))) = (E - 1) * S + S * (a - (E - 1))
          /\ S * (a - (E - 1)) \in Nat /\ (E - 1) * S \in Nat
      BY <1>1, <2>1
    <2> QED BY <1>2, <1>4, <2>1, <2>2
  <1>6. a % E = a
    <2> HIDE DEF a
    <2>1. a < E /\ E * 0 + a = a /\ 0 \in Nat
      BY <1>1, <1>4, <1>5
    <2>2. (E * 0 + a) % E = a
      BY <1>1, <1>4, <2>1, DivUnique
    <2> QED BY <2>1, <2>2
  <1> DEFINE n == v \div L
             s == v % L
             p == n \div E
             i == n % E
  <1>7. n \in Nat /\ s \in Nat /\ s < L /\ v = L * n + s
    BY <1>1, DivMod
  <1>8. p \in Nat /\ i \in Nat /\ i < E /\ n = E * p + i
    <2> HIDE DEF n
    <2> QED BY <1>1, <1>7, DivMod
  <1>9. v \div G = p
    <2> HIDE DEF n, s, p, i
    <2> DEFINE t == L * i + s
    <2>1. v = G * p + t
      <3>1. L * (E * p + i) = (E * L) * p + L * i
        BY <1>1, <1>8
      <3>2. (E * L) * p \in Nat /\ L * i \in Nat
        BY <1>1, <1>8
      <3> QED BY <1>1, <1>7, <1>8, <3>1, <3>2
    <2>2. t \in Nat /\ t < G
      <3>1. E - 1 - i \in Nat /\ E = i + 1 + (E - 1 - i)
        BY <1>1, <1>8
      <3>2. (i + 1 + (E - 1 - i)) * L = L * i + L + (E - 1 - i) * L
            /\ (E - 1 - i) * L \in Nat /\ L * i \in Nat
        BY <1>1, <1>8, <3>1
      <3> QED BY <1>1, <1>7, <3>1, <3>2
    <2> HIDE DEF t
    <2>3. (G * p + t) \div G = p
      BY <1>1, <1>8, <2>2, DivUnique
    <2> QED BY <2>1, <2>3
  <1>10. ASSUME a = 0 PROVE p % E = p
    <2> HIDE DEF n, s, p, i
    <2>1. v < E * G
      <3>1. S * 0 = 0
        BY <1>1
      <3> QED BY <1>1, <1>4, <1>10, <3>1
    <2>2. v \div G = p /\ v = G * p + (v % G) /\ v % G \in Nat
      BY <1>1, <1>9, DivMod
    <2>3. p < E
      <3> SUFFICES ASSUME ~(p < E) PROVE FALSE
        OBVIOUS
      <3>1. p - E \in Nat /\ p = E + (p - E)
        BY <1>1, <1>8
      <3>2. G * (E + (p - E)) = E * G + G * (p - E) /\ G * (p - E) \in Nat /\ E * G \in Nat
        BY <1>1, <3>1
      <3> QED BY <2>1, <2>2, <3>1, <3>2
    <2>4. E * 0 + p = p /\ 0 \in Nat
      BY <1>1, <1>8
    <2>5. (E * 0 + p) % E = p
      BY <1>1, <1>8, <2>3, <2>4, DivUnique
    <2> QED BY <2>4, <2>5
  <1>11. PML4_INDEX(v) = a /\ PD_INDEX(v) = i /\ PDPT_INDEX(v) = p % E
    BY <1>3, <1>6, <1>9
  <1> HIDE DEF a, n, p, i
  <1>12. PML4_INDEX(v) # E - 1
    BY <1>1, <1>4, <1>5, <1>11
  <1>13. PD_INDEX(v) \in 0..(E - 1)
    BY <1>1, <1>8, <1>11
  <1>14. ASSUME PML4_INDEX(v) = 0 PROVE PDPT_INDEX(v) * E + PD_INDEX(v) = n
    <2>1. PDPT_INDEX(v) = p
      BY <1>10, <1>11, <1>14
    <2> QED BY <1>1, <1>8, <1>11, <2>1
  <1> QED BY <1>12, <1>13, <1>14 DEF E, L, n

(* A write that goes astray goes to the page that boot mapped there.       *)
LEMMA AstrayFar ==
    ASSUME NEW m, NEW level, VmOk(m, level), BootKept(m.tables), LargeApart(m.tables),
           NEW v \in Nat, window <= v, v < LowEnd, Astray(m, level, v)
    PROVE  PageAt(m, v) \in Nat /\ window <= PageAt(m, v)
  <1> DEFINE T == m.tables
             d == directory(m, v)
             R == PML4_INDEX(PCIE_VIRTUAL_BASE)
  <1>1. /\ Leveled(T, level) /\ OneParent(T, level) /\ BootKept(T)
        /\ page_table_l4 \in DOMAIN T /\ level[page_table_l4] = 4
    BY DEF VmOk, Leveled
  <1>2. LeadsTo(m, level, v) /\ PD_INDEX(v) \in DOMAIN T[d] /\ T[d][PD_INDEX(v)].large
    BY DEF Astray
  <1>3. PML4_INDEX(v) # R
    <2>1. PCIE_VIRTUAL_BASE \in Nat /\ PCIE_VIRTUAL_BASE < UINTPTR_MOD
      BY Spans, RootSpan DEF PCIE_VIRTUAL_BASE
    <2>2. R = ENTRIES - 1
      BY <2>1, EcamRoot
    <2> QED BY <2>2, LowDigits
  <1>4. ~InEcam(T, d)
    <2> SUFFICES ASSUME InEcam(T, d) PROVE FALSE
      OBVIOUS
    <2>1. PICK j \in DOMAIN T[EcamThird(T)] : T[EcamThird(T)][j].frame = d /\ R \in DOMAIN T[page_table_l4]
      BY DEF InEcam
    <2>2. ~T[page_table_l4][R].large /\ EcamThird(T) = T[page_table_l4][R].frame
          /\ EcamThird(T) \in DOMAIN T /\ level[EcamThird(T)] = 3
      BY <1>1, <2>1, BelowRoot DEF EcamThird
    <2>3. ~T[EcamThird(T)][j].large
      BY <1>1, <2>1, <2>2, BelowRoot
    <2>4. /\ Third(m, v) \in DOMAIN T /\ level[Third(m, v)] = 3
          /\ PDPT_INDEX(v) \in DOMAIN T[Third(m, v)]
          /\ ~T[Third(m, v)][PDPT_INDEX(v)].large
          /\ d = T[Third(m, v)][PDPT_INDEX(v)].frame
          /\ PML4_INDEX(v) \in DOMAIN T[page_table_l4]
          /\ ~T[page_table_l4][PML4_INDEX(v)].large
          /\ Third(m, v) = T[page_table_l4][PML4_INDEX(v)].frame
      BY <1>2 DEF LeadsTo, Third
    <2> HIDE DEF T, d, R
    <2>5. Third(m, v) = EcamThird(T)
      BY <1>1, <2>1, <2>2, <2>3, <2>4 DEF OneParent
    <2>6. PML4_INDEX(v) = R
      <3> DEFINE root == T[page_table_l4]
      <3>1. \A x, y \in DOMAIN root :
               ~root[x].large /\ ~root[y].large /\ root[x].frame = root[y].frame => x = y
        <4>1. level[page_table_l4] > 1
          BY <1>1
        <4> QED BY <1>1, <4>1 DEF OneParent
      <3>2. root[PML4_INDEX(v)].frame = root[R].frame
        BY <2>2, <2>4, <2>5
      <3> QED BY <2>1, <2>2, <2>4, <3>1, <3>2
    <2> QED BY <1>3, <2>6
  <1>5. PICK k \in 0..(IDENTITY_TABLES - 1) : d = page_table_l2(k)
    <2>1. d \in DOMAIN T
      BY <1>2 DEF LeadsTo
    <2>2. d \in BootDirectories
      BY <1>2, <1>4, <2>1 DEF LargeApart
    <2> QED BY <2>2 DEF BootDirectories
  <1>6. PML4_INDEX(v) = 0 /\ PDPT_INDEX(v) = k
    BY <1>2, <1>5, BootDirectory
  <1> DEFINE i == PD_INDEX(v)
             n == v \div LARGE
  <1>7. i \in 0..(ENTRIES - 1) /\ k * ENTRIES + i = n
    BY <1>6, LowDigits
  <1>8. PageAt(m, v) = n * LARGE
    <2>1. T[d][i] = Page((k * ENTRIES + i) * LARGE)
      <3> HIDE DEF i
      <3> QED BY <1>1, <1>5, <1>7, KeptEntries
    <2>2. PageAt(m, v) = T[d][i].frame
      BY DEF PageAt
    <2> HIDE DEF T, d, i, n
    <2> QED BY <1>7, <2>1, <2>2 DEF Page
  <1>9. n * LARGE \in Nat /\ window <= n * LARGE
    <2> DEFINE L == LARGE
               E == ENTRIES
               s == v % L
    <2>1. L \in Nat \ {0} /\ E \in Nat /\ window = 3 * (E * L) /\ window <= v
      BY Spans, WindowStart
    <2> HIDE DEF L, E
    <2>2. n \in Nat /\ s \in Nat /\ s < L /\ v = L * n + s
      BY <2>1, DivMod DEF L
    <2> HIDE DEF n, s
    <2>3. 3 * E <= n
      <3> SUFFICES ASSUME ~(3 * E <= n) PROVE FALSE
        OBVIOUS
      <3> DEFINE x == 3 * E - (n + 1)
      <3>1. x \in Nat /\ 3 * E = (n + 1) + x
        BY <2>1, <2>2
      <3> HIDE DEF x
      <3>2. ((n + 1) + x) * L = L * n + L + x * L /\ x * L \in Nat /\ L * n \in Nat
        BY <2>1, <2>2, <3>1
      <3>3. (3 * E) * L = 3 * (E * L)
        BY <2>1
      <3> QED BY <2>1, <2>2, <3>1, <3>2, <3>3
    <2> DEFINE y == n - 3 * E
    <2>4. y \in Nat /\ n = 3 * E + y
      BY <2>1, <2>2, <2>3
    <2> HIDE DEF y
    <2>5. (3 * E + y) * L = 3 * (E * L) + y * L /\ y * L \in Nat /\ 3 * (E * L) \in Nat
      BY <2>1, <2>4
    <2> QED BY <2>1, <2>4, <2>5 DEF L
  <1> QED BY <1>8, <1>9

(* And so does an access through the window while nothing is mapped in it, *)
(* if it goes anywhere.                                                    *)
LEMMA UnmappedFar ==
    ASSUME NEW m, NEW level, VmOk(m, level), BootKept(m.tables), LargeApart(m.tables),
           OnlyLarge(m.tables, level),
           NEW v \in Nat, window <= v, v < LowEnd, translate(m.tables, v) # UNMAPPED
    PROVE  translate(m.tables, v) \in Nat /\ window <= translate(m.tables, v)
  <1> DEFINE T == m.tables
             t3 == Third(m, v)
             t2 == directory(m, v)
             e == T[t2][PD_INDEX(v)]
  <1>1. /\ page_table_l4 \in DOMAIN T /\ PML4_INDEX(v) \in DOMAIN T[page_table_l4]
        /\ t3 \in DOMAIN T /\ PDPT_INDEX(v) \in DOMAIN T[t3]
        /\ t2 \in DOMAIN T /\ PD_INDEX(v) \in DOMAIN T[t2]
    BY DEF translate, PML4_INDEX, PDPT_INDEX, PD_INDEX, Third, directory
  <1>2. translate(T, v) = IF e.large
                          THEN IF e.frame % LARGE = 0 THEN e.frame + (v % LARGE) ELSE UNMAPPED
                          ELSE translate(T, v)
    BY <1>1 DEF translate, PML4_INDEX, PDPT_INDEX, PD_INDEX, Third, directory
  <1>3. Leveled(T, level) /\ level[page_table_l4] = 4
    BY DEF VmOk, Leveled
  <1>4. ~T[page_table_l4][PML4_INDEX(v)].large /\ level[t3] = 3
    BY <1>1, <1>3, BelowRoot DEF Third
  <1>5. /\ ~T[t3][PDPT_INDEX(v)].large /\ t2 = T[t3][PDPT_INDEX(v)].frame /\ level[t2] = 2
    <2>1. t2 = T[t3][PDPT_INDEX(v)].frame
      BY DEF directory, Third
    <2> QED BY <1>1, <1>3, <1>4, <2>1, BelowRoot
  <1>6. e.large
    BY <1>1, <1>5 DEF OnlyLarge
  <1>7. Astray(m, level, v)
    BY <1>1, <1>4, <1>5, <1>6 DEF Astray, LeadsTo
  <1>8. PageAt(m, v) \in Nat /\ window <= PageAt(m, v)
    BY <1>7, AstrayFar
  <1>9. e.frame = PageAt(m, v)
    BY DEF PageAt
  <1>10. v % LARGE \in Nat
    BY Spans, DivMod
  <1>11. window \in Nat
    BY WindowNumbers
  <1>12. translate(m.tables, v) = e.frame + (v % LARGE)
    BY <1>2, <1>6
  <1> HIDE DEF e
  <1> QED BY <1>8, <1>9, <1>10, <1>11, <1>12

-----------------------------------------------------------------------------
(* What is written through the window lies in it.                          *)
WindowInv(largest) ==
    /\ pc = "mmio" => InWindow(loop.virt, loop.end, largest)
    /\ pc = "program" =>
          InWindow(loop.base, loop.base + machine.functions[here].msix.entries * MSIX_ENTRY, largest)
    /\ WritesMissKernel

(* Nobody else writes there.                                               *)
LEMMA WindowFrame ==
    ASSUME LoopInv, RootInv, VmInv, [Next]_vars
    PROVE  \/ MapMsixTable \/ MapResource \/ MapMmio \/ ProgramEntry
           \/ /\ UNCHANGED bus_memory /\ vm'.stray = vm.stray
              /\ \/ pc' \notin {"mmio", "program"}
                 \/ UNCHANGED <<machine, vm, segment, stack, loop, pc>>
  <1>1. CASE NextSegment \/ Probe \/ Visit \/ Bridge \/ Return \/ SizeBar \/ Restore \/ EnableMsix
    BY <1>1 DEF NextSegment, Probe, Visit, Bridge, Return, SizeBar, Restore, EnableMsix
  <1>2. CASE MapBar
    <2>1. pc = "map_bar" /\ UNCHANGED <<bus_memory, vm>> /\ g_pml4_virt = NULL
      BY <1>2 DEF MapBar, RootInv, Finished
    <2>2. pc' = "bar"
      BY <1>2, <2>1 DEF MapBar, MapRange
    <2> QED BY <2>1, <2>2
  <1>3. CASE MapEcam
    <2>1. /\ pc = "ecam" /\ pc' \in {"ecam", "walk"} /\ UNCHANGED bus_memory
          /\ TablesSound /\ ~vm.halted
          /\ vm' = vm \/ vm' = map_large(vm, loop.virt, loop.phys)
      BY <1>3 DEF MapEcam, VmInv, BeforeMemory
    <2>2. PICK level : VmOk(vm, level)
      BY <2>1 DEF TablesSound
    <2>3. CASE vm' = map_large(vm, loop.virt, loop.phys)
      <3>1. vm'.stray = vm.stray
        BY <2>1, <2>2, <2>3, MapLargeOk
      <3> QED BY <2>1, <3>1
    <2> QED BY <2>1, <2>3
  <1>4. CASE SetupPageTables \/ MemoryInit
    <2>1. /\ UNCHANGED bus_memory /\ pc' \in {"gdt", "idt"} /\ PlainVm
          /\ \/ vm' = [vm EXCEPT !.tables = setup_page_tables]
             \/ vm' = [vm EXCEPT !.pool = memory_init]
      BY <1>4 DEF SetupPageTables, MemoryInit, VmInv, BeforeMemory, pcie_vars
    <2>2. vm'.stray = vm.stray
      BY <2>1, PlainWritten DEF PlainVm
    <2> QED BY <2>1, <2>2
  <1>5. CASE TestMalloc
    <2>1. pc = "malloc" /\ pc' = "idle" /\ TablesSound /\ UNCHANGED bus_memory
      BY <1>5 DEF TestMalloc, VmInv, BeforeMemory
    <2>2. vm = [tables |-> vm.tables, pool |-> vm.pool, stray |-> vm.stray, halted |-> vm.halted]
      BY <2>1 DEF TablesSound, VmOk
    <2>3. PICK g : vm' = [vm EXCEPT !.pool = g]
      BY <1>5 DEF TestMalloc
    <2>4. vm'.stray = vm.stray
      BY <2>2, <2>3
    <2> QED BY <2>1, <2>4
  <1>6. CASE KernelStep /\ ~PcieStep /\ ~SetupPageTables /\ ~MemoryInit /\ ~TestMalloc
    BY <1>6 DEF KernelStep, Checks, GdtInitialize, IdtInitialize, VbeInit, Tags, FindMcfg,
        InitPcieDone, pcie_set_pml4_and_offset, pcie_vars
  <1>7. CASE EnableDevice
    BY <1>7 DEF EnableDevice, pcie_enable_device
  <1>8. CASE Interrupt
    BY <1>8 DEF Interrupt, pcie_vars
  <1>9. CASE UNCHANGED vars
    BY <1>9 DEF vars, pcie_vars
  <1> QED BY <1>1, <1>2, <1>3, <1>4, <1>5, <1>6, <1>7, <1>8, <1>9
          DEF Next, KernelStep, PcieStep, PcieNext

(* One page of the window, or a page that map_mmio_region mistakes.        *)
LEMMA MapMmioFar ==
    ASSUME NEW largest \in Nat, window + AllRanges * (largest + PAGE_SIZE) <= LowEnd,
           LoopInv, RootInv, VmInv, WindowInv(largest), MapMmio
    PROVE  WindowInv(largest)'
  <1> DEFINE v == loop.virt
             room == AllRanges * (largest + PAGE_SIZE)
  <1>1. /\ pc = "mmio" /\ pc' \in {"mmio", "idle"} /\ ~vm.halted /\ TablesSound
        /\ UNCHANGED <<machine, bus_memory>>
    BY DEF MapMmio, VmInv, BeforeMemory, RootInv
  <1>2. v \in Nat /\ loop.end \in Nat /\ window <= v /\ loop.end <= window + room
    BY <1>1 DEF WindowInv, InWindow
  <1>3. window \in Nat /\ PAGE_SIZE \in Nat /\ room \in Nat /\ LowEnd \in Nat
    <2>1. AllRanges \in Nat /\ largest + PAGE_SIZE \in Nat /\ PAGE_SIZE \in Nat /\ window \in Nat
      BY WindowNumbers
    <2>2. ENTRIES - 1 \in Nat /\ ENTRIES * GIB \in Nat
      BY Spans
    <2> QED BY <2>1, <2>2 DEF LowEnd
  <1>4. window + room <= LowEnd
    OBVIOUS
  <1> HIDE DEF room
  <1>5. CASE UNCHANGED vm /\ pc' = "idle"
    BY <1>1, <1>5 DEF WindowInv, WritesMissKernel
  <1>6. CASE v < loop.end
    <2>1. vm' = map_small(vm, v, loop.phys) /\ loop'.virt = v + PAGE_SIZE /\ loop'.end = loop.end
          /\ pc' = "mmio"
      BY <1>1, <1>6 DEF MapMmio, LoopInv
    <2>2. InWindow(loop'.virt, loop'.end, largest)
      BY <1>2, <1>3, <2>1 DEF InWindow, room
    <2>3. PICK level : VmOk(vm, level) /\ BootKept(vm.tables) /\ LargeApart(vm.tables)
      BY <1>1 DEF TablesSound
    <2> DEFINE n == vm'
    <2>4. PICK higher :
              /\ VmOk(n, higher) /\ Grows(vm, level, n, higher) /\ Adds(vm, n, higher, 1)
              /\ \/ n.stray = vm.stray
                 \/ Astray(n, higher, v) /\ n.stray = vm.stray \cup {PageAt(n, v)}
      BY <1>1, <2>1, <2>3, MapSmallOk
    <2>5. BootKept(n.tables) /\ LargeApart(n.tables)
      BY <2>3, <2>4, KeptWhenGrown, ApartWhenGrown
    <2>6. v < LowEnd
      BY <1>2, <1>3, <1>4, <1>6
    <2>7. ASSUME Astray(n, higher, v) PROVE pool_end <= PageAt(n, v)
      <3>1. PageAt(n, v) \in Nat /\ window <= PageAt(n, v)
        BY <1>2, <2>4, <2>5, <2>6, <2>7, AstrayFar
      <3>2. pool_end <= window /\ pool_end \in Nat
        BY KernelAssumption, WindowStart, PoolBounds
      <3> QED BY <1>3, <3>1, <3>2
    <2>8. \A a \in vm'.stray : pool_end <= a
      BY <2>4, <2>7 DEF WindowInv, WritesMissKernel
    <2>9. WritesMissKernel'
      BY <1>1, <2>8 DEF WindowInv, WritesMissKernel, pool_end, kernel_end, align_up
    <2> QED BY <1>3, <2>1, <2>2, <2>9 DEF WindowInv, InWindow, window, PCIE_VIRTUAL_BASE, AllRanges
  <1> QED BY <1>1, <1>5, <1>6 DEF MapMmio, RootInv

(* An entry of an MSI-X table, while nothing is mapped in the window.      *)
LEMMA ProgramFar ==
    ASSUME NEW largest \in Nat, window + AllRanges * (largest + PAGE_SIZE) <= LowEnd,
           LoopInv, RootInv, VmInv, StackInv, BarInv, WindowInv(largest), ProgramEntry
    PROVE  WindowInv(largest)'
  <1> DEFINE n == machine.functions[here].msix.entries
             x == MSIX_ENTRY
             v == loop.base + loop.i * x
             room == AllRanges * (largest + PAGE_SIZE)
  <1>1. /\ pc = "program" /\ loop.i < n /\ g_pml4_virt = NULL /\ TablesSound
        /\ UNCHANGED <<machine, vm, segment, stack, pc>>
    BY DEF ProgramEntry, VmInv, BeforeMemory, RootInv, Finished
  <1>2. /\ loop'.base = loop.base
        /\ translate(vm.tables, v) # UNMAPPED
        /\ DOMAIN bus_memory' = DOMAIN bus_memory \cup {translate(vm.tables, v)}
    BY DEF ProgramEntry, LoopInv, With
  <1>3. n \in Nat /\ x \in Nat \ {0} /\ loop.i \in Nat
    <2>1. here \in DOMAIN machine.functions /\ machine \in Machines
      BY <1>1, HereAnswers DEF BarPlaces, BarInv, ConfigShape
    <2> QED BY <2>1, MachineAssumption, PcieAssumption DEF WellFormed, LoopInv
  <1>4. loop.base \in Nat /\ window <= loop.base /\ loop.base + n * x <= window + room
    BY <1>1 DEF WindowInv, InWindow
  <1>5. window \in Nat /\ room \in Nat /\ LowEnd \in Nat
    <2>1. AllRanges \in Nat /\ largest + PAGE_SIZE \in Nat /\ window \in Nat
      BY WindowNumbers
    <2>2. ENTRIES - 1 \in Nat /\ ENTRIES * GIB \in Nat
      BY Spans
    <2> QED BY <2>1, <2>2 DEF LowEnd
  <1>6. window + room <= LowEnd
    OBVIOUS
  <1>7. v \in Nat /\ window <= v /\ v < LowEnd
    <2> DEFINE y == n - (loop.i + 1)
               k == loop.i
               z == k * x
    <2> HIDE DEF n, x, room
    <2>1. y \in Nat /\ n = (k + 1) + y
      BY <1>1, <1>3
    <2> HIDE DEF y, k
    <2>2. k \in Nat
      BY <1>3 DEF k
    <2>3. ((k + 1) + y) * x = (z + x) + y * x /\ z \in Nat /\ y * x \in Nat
      BY <1>3, <2>1, <2>2
    <2>4. n * x = (z + x) + y * x
      BY <2>1, <2>3
    <2> DEFINE w == y * x
               u == n * x
    <2> HIDE DEF z, w, u
    <2>5. z \in Nat /\ w \in Nat /\ u = (z + x) + w /\ loop.base + u <= window + room
      BY <1>4, <2>3, <2>4 DEF w, u
    <2>6. loop.base + z \in Nat /\ window <= loop.base + z /\ loop.base + z < LowEnd
      BY <1>3, <1>4, <1>5, <1>6, <2>5
    <2> QED BY <2>6 DEF z, k
  <1> HIDE DEF n, x, v, room
  <1>8. pool_end <= translate(vm.tables, v)
    <2>1. PICK level : /\ VmOk(vm, level) /\ BootKept(vm.tables) /\ LargeApart(vm.tables)
                       /\ OnlyLarge(vm.tables, level)
      BY <1>1 DEF TablesSound
    <2>2. translate(vm.tables, v) \in Nat /\ window <= translate(vm.tables, v)
      BY <1>2, <1>7, <2>1, UnmappedFar
    <2>3. pool_end <= window /\ pool_end \in Nat
      BY KernelAssumption, WindowStart, PoolBounds
    <2> QED BY <1>5, <2>2, <2>3
  <1>9. WritesMissKernel'
    BY <1>1, <1>2, <1>8 DEF WindowInv, WritesMissKernel, pool_end, kernel_end, align_up
  <1>10. here' = here
    BY <1>1, SameHere
  <1>11. InWindow(loop.base, loop.base + n * x, largest)
    BY <1>1 DEF WindowInv, n, x
  <1> QED BY <1>1, <1>2, <1>9, <1>10, <1>11
          DEF WindowInv, InWindow, window, PCIE_VIRTUAL_BASE, AllRanges, n, x

(* No step writes to the kernel or its pool.                               *)
LEMMA WindowStep ==
    ASSUME NEW largest \in Nat, window + AllRanges * (largest + PAGE_SIZE) <= LowEnd,
           LoopInv, VmInv, BarInv, EnumInv, RangesInv(largest), WindowInv(largest), [Next]_vars
    PROVE  WindowInv(largest)'
  <1>1. RootInv /\ StackInv /\ SizingInv /\ TableInv
    BY DEF EnumInv
  <1>2. CASE MapMsixTable
    <2>1. UNCHANGED <<machine, bus_memory, vm, segment, stack>> /\ pc' # "mmio"
      BY <1>1, <1>2 DEF MapMsixTable, MapRange, RootInv, Finished
    <2>2. here' = here
      BY <2>1, SameHere
    <2>3. pc' = "program" =>
             InWindow(loop'.base, loop'.base + machine.functions[here].msix.entries * MSIX_ENTRY, largest)
      BY <1>1, <1>2, MsixRanges
    <2>4. WritesMissKernel'
      BY <2>1 DEF WindowInv, WritesMissKernel, pool_end, kernel_end, align_up
    <2> QED BY <2>1, <2>2, <2>3, <2>4 DEF WindowInv, InWindow, window, PCIE_VIRTUAL_BASE, AllRanges
  <1>3. CASE MapResource
    <2>1. UNCHANGED <<machine, bus_memory, vm>> /\ pc' # "program"
      BY <1>3 DEF MapResource, pcie_map_phys_mmio, MapRange
    <2>2. InWindow(loop'.virt, loop'.end, largest)
      BY <1>3, ResourceRanges
    <2>3. WritesMissKernel'
      BY <2>1 DEF WindowInv, WritesMissKernel, pool_end, kernel_end, align_up
    <2> QED BY <2>1, <2>2, <2>3 DEF WindowInv, InWindow, window, PCIE_VIRTUAL_BASE, AllRanges
  <1>4. CASE MapMmio
    BY <1>1, <1>4, MapMmioFar
  <1>5. CASE ProgramEntry
    BY <1>1, <1>5, ProgramFar
  <1>6. CASE /\ UNCHANGED bus_memory /\ vm'.stray = vm.stray
             /\ \/ pc' \notin {"mmio", "program"}
                \/ UNCHANGED <<machine, vm, segment, stack, loop, pc>>
    <2>1. WritesMissKernel'
      BY <1>6 DEF WindowInv, WritesMissKernel, pool_end, kernel_end, align_up
    <2>2. CASE pc' \notin {"mmio", "program"}
      BY <2>1, <2>2 DEF WindowInv
    <2>3. CASE UNCHANGED <<machine, vm, segment, stack, loop, pc>>
      <3>1. here' = here
        BY <2>3, SameHere
      <3> QED BY <2>1, <2>3, <3>1 DEF WindowInv, InWindow, window, PCIE_VIRTUAL_BASE, AllRanges
    <2> QED BY <1>6, <2>2, <2>3
  <1> QED BY <1>1, <1>2, <1>3, <1>4, <1>5, <1>6, WindowFrame

(***************************************************************************)
(* What goes astray - entries of MSI-X tables while nothing is mapped in   *)
(* the window, and page table entries where map_mmio_region takes a large  *)
(* page for a table - lands behind the kernel and its pool, as long as the *)
(* window has room below the root's last entry.  So it overwrites no page  *)
(* table, and the tables are what the model has them to be.                *)
(***************************************************************************)
THEOREM KernelWritesMiss ==
    ASSUME NEW largest \in Nat, window + AllRanges * (largest + PAGE_SIZE) <= LowEnd
    PROVE  Spec /\ RoomFor(largest) => []WritesMissKernel
  <1>1. Init /\ RoomFor(largest) => RangesInv(largest) /\ WindowInv(largest)
    <2>1. Init => WindowInv(largest)
      <3> SUFFICES ASSUME Init PROVE WindowInv(largest)
        OBVIOUS
      <3>1. pc = "start" /\ DOMAIN bus_memory = {} /\ vm.stray = {}
        BY DEF Init, InitMachine
      <3> QED BY <3>1 DEF WindowInv, WritesMissKernel
    <2> QED BY <2>1, RangesInit
  <1>2. LoopInv /\ BarInv /\ VmInv /\ EnumInv /\ EnumInv' /\ RangesInv(largest) /\ WindowInv(largest)
           /\ [Next]_vars => RangesInv(largest)' /\ WindowInv(largest)'
    BY RangesStep, WindowStep DEF EnumInv
  <1>3. WindowInv(largest) => WritesMissKernel
    BY DEF WindowInv
  <1> QED BY <1>1, <1>2, <1>3, BarsKept, TablesKept, EnumerationKept, PTL DEF Spec

-----------------------------------------------------------------------------
(*------------------------ the walk over the functions --------------------*)

(* A call has been past a function that comes before the place it is at.   *)
Past(c, fn) ==
    \/ fn[1] < c.bus
    \/ fn[1] = c.bus /\ fn[2] < c.dev
    \/ fn[1] = c.bus /\ fn[2] = c.dev /\ fn[3] < c.func

At(c)      == <<c.bus, c.dev, c.func>>
FirstOf(c) == <<c.bus, c.dev, 0>>

(* A device in hand has its functions counted: all, if there may be more.  *)
FunctionsCounted(c) ==
    /\ c.max = 0 => c.func = 0
    /\ c.max # 0 /\ FirstOf(c) \in DOMAIN machine.functions /\ machine.functions[FirstOf(c)].multi
          => c.max = FUNCTIONS

Recorded(fn) == \E k \in 1..Len(pcie_devices) : pcie_devices[k].fn = fn
HasRoom      == Len(pcie_devices) < PCIE_MAX_DEVICES

(* The first call, which goes through all buses, has recorded whatever it  *)
(* has been past; what those on top of it record comes on top of that.     *)
WalkedInv ==
    /\ pc \in Enumerating =>
          /\ stack[1].end = machine.mcfg[1].end /\ FunctionsCounted(stack[1])
          /\ HasRoom => \A fn \in DOMAIN machine.functions : Past(stack[1], fn) => Recorded(fn)
    /\ pc \in BarPlaces => top.max # 0 /\ (HasRoom => Recorded(fn_at))
    /\ pc \in {"segment", "mmio"} \cup Finished /\ segment > 0 /\ HasRoom =>
          \A fn \in DOMAIN machine.functions : Recorded(fn)

(* The numbers of a function.                                              *)
LEMMA FunctionNumbers ==
    ASSUME machine \in Machines, NEW fn \in DOMAIN machine.functions
    PROVE  /\ fn = <<fn[1], fn[2], fn[3]>>
           /\ fn[1] \in 0..(BYTE - 1) /\ fn[2] \in 0..(DEVICES - 1) /\ fn[3] \in 0..(FUNCTIONS - 1)
           /\ fn[1] \in Nat /\ fn[2] \in Nat /\ fn[3] \in Nat
  <1>1. fn \in (0..(BYTE - 1)) \X (0..(DEVICES - 1)) \X (0..(FUNCTIONS - 1))
    BY MachineAssumption DEF WellFormed
  <1>2. BYTE \in Nat /\ DEVICES \in Nat /\ FUNCTIONS \in Nat
    BY PcieAssumption
  <1> QED BY <1>1, <1>2

(* The loops over devices and over functions pass what they are at.        *)
LEMMA DevicePassed ==
    ASSUME machine \in Machines, NEW c, CallOk(c), NEW fn \in DOMAIN machine.functions,
           Past(NextDevice(c), fn)
    PROVE  Past(c, fn) \/ (fn[1] = c.bus /\ fn[2] = c.dev)
  <1>1. /\ fn[1] \in Nat /\ fn[2] \in 0..(DEVICES - 1) /\ fn[3] \in Nat
        /\ DEVICES \in Nat /\ c.bus \in Nat /\ c.dev \in 0..(DEVICES - 1)
        /\ c = [bus |-> c.bus, end |-> c.end, dev |-> c.dev, func |-> c.func, max |-> c.max]
    BY FunctionNumbers, PcieAssumption DEF CallOk, Calls
  <1>2. CASE c.dev + 1 < DEVICES
    <2>1. NextDevice(c) = [bus |-> c.bus, end |-> c.end, dev |-> c.dev + 1, func |-> 0, max |-> 0]
      BY <1>1, <1>2 DEF NextDevice
    <2> QED BY <1>1, <2>1 DEF Past
  <1>3. CASE ~(c.dev + 1 < DEVICES)
    <2>1. NextDevice(c) = [bus |-> c.bus + 1, end |-> c.end, dev |-> 0, func |-> 0, max |-> 0]
      BY <1>3 DEF NextDevice, Call
    <2> QED BY <1>1, <1>3, <2>1 DEF Past
  <1> QED BY <1>2, <1>3

LEMMA DeviceCounted ==
    ASSUME NEW c, CallOk(c)
    PROVE  FunctionsCounted(NextDevice(c)) /\ NextDevice(c).end = c.end
  <1>1. c = [bus |-> c.bus, end |-> c.end, dev |-> c.dev, func |-> c.func, max |-> c.max]
    BY DEF CallOk, Calls
  <1>2. NextDevice(c).max = 0 /\ NextDevice(c).func = 0 /\ NextDevice(c).end = c.end
    BY <1>1 DEF NextDevice, Call
  <1> QED BY <1>2 DEF FunctionsCounted

LEMMA FunctionPassed ==
    ASSUME FunctionsAnnounced, machine \in Machines, NEW c, CallOk(c),
           FunctionsCounted(c), c.max # 0,
           NEW fn \in DOMAIN machine.functions, Past(NextFunction(c), fn)
    PROVE  Past(c, fn) \/ fn = At(c)
  <1>1. /\ fn[1] \in Nat /\ fn[2] \in Nat /\ fn[3] \in 0..(FUNCTIONS - 1)
        /\ fn = <<fn[1], fn[2], fn[3]>>
        /\ FUNCTIONS \in Nat /\ c.func \in 0..(FUNCTIONS - 1) /\ c.max \in 0..FUNCTIONS
        /\ c = [bus |-> c.bus, end |-> c.end, dev |-> c.dev, func |-> c.func, max |-> c.max]
    BY FunctionNumbers, PcieAssumption DEF CallOk, Calls
  <1>2. CASE c.func + 1 < c.max
    <2>1. NextFunction(c) = [bus |-> c.bus, end |-> c.end, dev |-> c.dev, func |-> c.func + 1, max |-> c.max]
      BY <1>1, <1>2 DEF NextFunction
    <2>2. Past(c, fn) \/ (fn[1] = c.bus /\ fn[2] = c.dev /\ fn[3] = c.func)
      BY <1>1, <2>1 DEF Past
    <2> QED BY <1>1, <2>2 DEF At
  <1>3. CASE ~(c.func + 1 < c.max)
    <2>1. Past(c, fn) \/ (fn[1] = c.bus /\ fn[2] = c.dev)
      BY <1>3, DevicePassed DEF NextFunction
    <2>2. ASSUME fn[1] = c.bus, fn[2] = c.dev, fn[3] > c.func PROVE FALSE
      <3>1. /\ FirstOf(c) \in DOMAIN machine.functions
            /\ fn[3] > 0 => machine.functions[FirstOf(c)].multi
        BY <2>2 DEF FunctionsAnnounced, FirstOf
      <3>2. fn[3] > 0
        BY <1>1, <2>2
      <3>3. c.max = FUNCTIONS
        BY <3>1, <3>2 DEF FunctionsCounted
      <3> QED BY <1>1, <1>3, <2>2, <3>3
    <2>3. ASSUME fn[1] = c.bus, fn[2] = c.dev PROVE Past(c, fn) \/ fn[3] = c.func
      BY <1>1, <2>2, <2>3 DEF Past
    <2> QED BY <1>1, <2>1, <2>3 DEF At
  <1> QED BY <1>2, <1>3

LEMMA FunctionCounted ==
    ASSUME NEW c, CallOk(c), FunctionsCounted(c), c.max # 0
    PROVE  FunctionsCounted(NextFunction(c)) /\ NextFunction(c).end = c.end
  <1>1. c = [bus |-> c.bus, end |-> c.end, dev |-> c.dev, func |-> c.func, max |-> c.max]
    BY DEF CallOk, Calls
  <1>2. CASE c.func + 1 < c.max
    <2>1. NextFunction(c) = [bus |-> c.bus, end |-> c.end, dev |-> c.dev, func |-> c.func + 1, max |-> c.max]
      BY <1>1, <1>2 DEF NextFunction
    <2> QED BY <2>1 DEF FunctionsCounted, FirstOf
  <1>3. CASE ~(c.func + 1 < c.max)
    BY <1>3, DeviceCounted DEF NextFunction
  <1> QED BY <1>2, <1>3

(* Where the first call is, every function there is answers.               *)
LEMMA AllAnswer ==
    ASSUME OneSegment, VmInv, StackInv, EcamInv, pc \in Enumerating,
           NEW bus \in Nat, bus <= machine.mcfg[1].end,
           NEW dev \in 0..(DEVICES - 1), NEW func \in 0..(FUNCTIONS - 1),
           <<bus, dev, func>> \in DOMAIN machine.functions
    PROVE  <<bus, dev, func>> \in Answers(bus, dev, func)
  <1>1. bus \in 0..(BYTE - 1)
    <2>1. machine \in Machines /\ <<bus, dev, func>>[1] = bus
      BY DEF VmInv
    <2> QED BY <2>1, FunctionNumbers
  <1>2. Address(bus, dev, func) = ConfigPage(<<bus, dev, func>>)
    BY <1>1, SpaceLeads
  <1> QED BY <1>2 DEF Answers

(* The first call, in stacks that differ on top.                           *)
LEMMA FirstCall ==
    ASSUME StackInv, stack # <<>>, NEW c, CallOk(c)
    PROVE  /\ WithTop(c)[1] = IF Len(stack) = 1 THEN c ELSE stack[1]
           /\ Len(stack) = 1 => top = stack[1]
           /\ \A d : Append(WithTop(c), d)[1] = WithTop(c)[1]
           /\ Len(stack) # 1 => Front(stack)[1] = stack[1]
           /\ CallOk(stack[1])
  <1>1. stack \in Seq(Calls) /\ Len(stack) \in 1..Len(stack) /\ top = stack[Len(stack)]
    BY TopOk DEF StackInv
  <1>2. 1 \in 1..Len(stack)
    BY <1>1
  <1>3. WithTop(c)[1] = IF Len(stack) = 1 THEN c ELSE stack[1]
    BY <1>1, <1>2 DEF WithTop
  <1>4. WithTop(c) \in Seq(Calls) /\ Len(WithTop(c)) = Len(stack)
    BY WithTopOk DEF StackOk
  <1>5. \A d : Append(WithTop(c), d)[1] = WithTop(c)[1]
    BY <1>2, <1>4
  <1>6. Len(stack) # 1 => Front(stack)[1] = stack[1]
    <2>1. Front(stack) = [k \in 1..(Len(stack) - 1) |-> stack[k]]
      BY <1>1 DEF Front
    <2>2. Len(stack) # 1 => 1 \in 1..(Len(stack) - 1)
      <3> DEFINE n == Len(stack)
      <3>1. n \in Nat /\ n \in 1..n
        BY <1>1
      <3> HIDE DEF n
      <3>2. n # 1 => 1 \in 1..(n - 1)
        BY <3>1
      <3> QED BY <3>2 DEF n
    <2> QED BY <2>1, <2>2
  <1>7. CallOk(stack[1])
    BY <1>2 DEF StackInv
  <1> QED BY <1>1, <1>3, <1>5, <1>6, <1>7

(* The table keeps the functions it has, and grows by a visit only.        *)
LEMMA SameFunctions ==
    ASSUME NEW T \in Seq(DeviceRecords), T # <<>>, NEW U, NEW d, d.fn = T[Len(T)].fn,
           U = [T EXCEPT ![Len(T)] = d]
    PROVE  Len(U) = Len(T) /\ \A k \in 1..Len(T) : U[k].fn = T[k].fn
  <1>1. Len(T) \in 1..Len(T)
    BY LastRecord
  <1>2. Len(U) = Len(T)
    BY <1>1
  <1>3. \A k \in 1..Len(T) : U[k] = IF k = Len(T) THEN d ELSE T[k]
    BY <1>1
  <1> QED BY <1>2, <1>3

LEMMA FunctionsStay ==
    ASSUME LoopInv, RootInv, SizingInv, TableInv, [Next]_vars
    PROVE  \/ Visit
           \/ /\ Len(pcie_devices') = Len(pcie_devices)
              /\ \A k \in 1..Len(pcie_devices) : pcie_devices'[k].fn = pcie_devices[k].fn
  <1> DEFINE T == pcie_devices
             d == T[Len(T)]
  <1>1. T \in Seq(DeviceRecords)
    BY DEF TableInv
  <1>2. ASSUME T # <<>> PROVE d \in DeviceRecords
    BY <1>1, <1>2, LastRecord
  <1>3. CASE UNCHANGED pcie_devices
    BY <1>3
  <1>4. CASE SizeBar
    <2>1. T # <<>> /\ \E i, v : T' = [T EXCEPT ![Len(T)].bars[i] = v]
      BY <1>4 DEF SizeBar, TableInv
    <2>2. PICK i, v : T' = [T EXCEPT ![Len(T)] = [d EXCEPT !.bars[i] = v]]
      BY <2>1
    <2>3. [d EXCEPT !.bars[i] = v].fn = d.fn
      BY <1>2, <2>1 DEF DeviceRecords
    <2> QED BY <1>1, <2>1, <2>2, <2>3, SameFunctions
  <1>5. CASE Restore
    <2>1. T # <<>> /\ \E i, v : T' = [T EXCEPT ![Len(T)].bar_size[i] = v]
      BY <1>5 DEF Restore, TableInv
    <2>2. PICK i, v : T' = [T EXCEPT ![Len(T)] = [d EXCEPT !.bar_size[i] = v]]
      BY <2>1
    <2>3. [d EXCEPT !.bar_size[i] = v].fn = d.fn
      BY <1>2, <2>1 DEF DeviceRecords
    <2> QED BY <1>1, <2>1, <2>2, <2>3, SameFunctions
  <1>6. CASE MapBar /\ ~UNCHANGED pcie_devices
    <2>1. T # <<>> /\ \E i, v : T' = [T EXCEPT ![Len(T)].bars_virt[i] = v]
      BY <1>6 DEF MapBar, TableInv
    <2>2. PICK i, v : T' = [T EXCEPT ![Len(T)] = [d EXCEPT !.bars_virt[i] = v]]
      BY <2>1
    <2>3. [d EXCEPT !.bars_virt[i] = v].fn = d.fn
      BY <1>2, <2>1 DEF DeviceRecords
    <2> QED BY <1>1, <2>1, <2>2, <2>3, SameFunctions
  <1>7. CASE MapMsixTable \/ MapResource
    BY <1>3, <1>7 DEF MapMsixTable, MapResource, pcie_map_phys_mmio
  <1> QED BY <1>3, <1>4, <1>5, <1>6, <1>7, TableFrame

(* What is recorded stays so, in a table that has room as long as it had.  *)
LEMMA RecordsStay ==
    ASSUME TableInv, Len(pcie_devices') = Len(pcie_devices),
           \A k \in 1..Len(pcie_devices) : pcie_devices'[k].fn = pcie_devices[k].fn
    PROVE  /\ HasRoom' = HasRoom
           /\ \A fn : Recorded(fn) => Recorded(fn)'
  BY DEF HasRoom, Recorded

(* A step that moves the call on top, or adds to the table, or neither.    *)
LEMMA ProbeWalked ==
    ASSUME OneSegment, FunctionsAnnounced, VmInv, StackInv, EcamInv, TableInv, WalkedInv, Probe
    PROVE  WalkedInv'
  <1>1. /\ pc = "walk" /\ pc' = "walk" /\ top.bus <= top.end /\ top.max = 0 /\ stack # <<>>
        /\ UNCHANGED <<machine, segment, pcie_devices>> /\ machine \in Machines
        /\ Mapped(top.bus, top.dev, 0)
    BY DEF Probe, StackInv, VmInv
  <1> DEFINE who == Answers(top.bus, top.dev, 0)
             n == IF \E fn \in who : machine.functions[fn].multi THEN FUNCTIONS ELSE 1
  <1>2. CASE Len(stack) = 1
    <2>1. /\ top = stack[1] /\ CallOk(top) /\ top.end = machine.mcfg[1].end /\ top.func = 0
          /\ top.bus \in Nat /\ top.dev \in 0..(DEVICES - 1) /\ 0 \in 0..(FUNCTIONS - 1)
          /\ HasRoom => \A fn \in DOMAIN machine.functions : Past(top, fn) => Recorded(fn)
      <3>1. top = stack[1] /\ CallOk(top)
        BY <1>1, <1>2, TopOk, FirstCall
      <3>2. 0 \in 0..(FUNCTIONS - 1)
        BY PcieAssumption
      <3> QED BY <1>1, <3>1, <3>2, TopOk DEF WalkedInv, Enumerating, FunctionsCounted
    <2>2. FirstOf(top) \in DOMAIN machine.functions => FirstOf(top) \in who
      BY <1>1, <2>1, AllAnswer DEF FirstOf, Enumerating
    <2>3. CASE who = {}
      <3>1. stack'[1] = NextDevice(top)
        <4>1. stack' = WithTop(NextDevice(top))
          BY <2>3 DEF Probe
        <4>2. CallOk(NextDevice(top))
          BY <1>1, <2>1, NextCalls
        <4> QED BY <1>1, <1>2, <4>1, <4>2, FirstCall
      <3>2. ASSUME NEW fn \in DOMAIN machine.functions, Past(NextDevice(top), fn)
            PROVE  Past(top, fn)
        <4>1. ~(fn[1] = top.bus /\ fn[2] = top.dev)
          BY <1>1, <2>2, <2>3 DEF FunctionsAnnounced, FirstOf
        <4> QED BY <1>1, <2>1, <3>2, <4>1, DevicePassed
      <3>3. FunctionsCounted(NextDevice(top)) /\ NextDevice(top).end = top.end
        BY <2>1, DeviceCounted
      <3> QED BY <1>1, <2>1, <3>1, <3>2, <3>3
              DEF WalkedInv, FunctionsCounted, FirstOf, HasRoom, Recorded, BarPlaces, Finished
    <2>4. CASE who # {}
      <3>1. n \in 0..FUNCTIONS
        BY PcieAssumption
      <3> DEFINE c == [top EXCEPT !.max = n]
      <3>2. CallOk(c) /\ c = [bus |-> top.bus, end |-> top.end, dev |-> top.dev, func |-> top.func, max |-> n]
        BY <2>1, <3>1 DEF CallOk, Calls
      <3>3. stack'[1] = c
        <4>1. stack' = WithTop(c)
          BY <2>4 DEF Probe
        <4> HIDE DEF c
        <4> QED BY <1>1, <1>2, <3>2, <4>1, FirstCall
      <3>4. FirstOf(top) \in DOMAIN machine.functions /\ machine.functions[FirstOf(top)].multi => n = FUNCTIONS
        BY <2>2
      <3> HIDE DEF c, n
      <3>5. FunctionsCounted(c) /\ c.end = top.end
        BY <2>1, <3>2, <3>4 DEF FunctionsCounted, FirstOf
      <3>6. \A fn : Past(c, fn) => Past(top, fn)
        BY <3>2 DEF Past
      <3> QED BY <1>1, <2>1, <3>3, <3>5, <3>6
              DEF WalkedInv, FunctionsCounted, FirstOf, HasRoom, Recorded, BarPlaces, Finished
    <2> QED BY <2>3, <2>4
  <1>3. CASE Len(stack) # 1
    <2>1. PICK c : stack' = WithTop(c) /\ CallOk(c)
      <3>1. CallOk(top) /\ CallOk(NextDevice(top))
        BY <1>1, TopOk, NextCalls
      <3>2. n \in 0..FUNCTIONS
        BY PcieAssumption
      <3>3. CallOk([top EXCEPT !.max = n])
        BY <3>1, <3>2 DEF CallOk, Calls
      <3> QED BY <3>1, <3>3 DEF Probe
    <2>2. stack'[1] = stack[1]
      BY <1>1, <1>3, <2>1, FirstCall
    <2> QED BY <1>1, <2>2
            DEF WalkedInv, FunctionsCounted, FirstOf, HasRoom, Recorded, Enumerating, BarPlaces, Finished
  <1> QED BY <1>2, <1>3

(* What the first call is at when it goes on has been recorded, or is not  *)
(* there.                                                                  *)
LEMMA GoesOn ==
    ASSUME FunctionsAnnounced, machine \in Machines, StackInv, stack # <<>>, TableInv, WalkedInv,
           pc \in Enumerating, top.bus <= top.end, top.max # 0,
           HasRoom => fn_at \notin DOMAIN machine.functions \/ Recorded(fn_at)
    PROVE  LET c == WithTop(NextFunction(top))[1]
           IN  /\ c.end = machine.mcfg[1].end /\ FunctionsCounted(c)
               /\ HasRoom => \A fn \in DOMAIN machine.functions : Past(c, fn) => Recorded(fn)
  <1>1. CallOk(top) /\ CallOk(NextFunction(top))
    BY TopOk, NextCalls
  <1>2. CASE Len(stack) # 1
    <2>1. WithTop(NextFunction(top))[1] = stack[1]
      BY <1>1, <1>2, FirstCall
    <2> QED BY <2>1 DEF WalkedInv
  <1>3. CASE Len(stack) = 1
    <2>1. WithTop(NextFunction(top))[1] = NextFunction(top) /\ top = stack[1]
      BY <1>1, <1>3, FirstCall
    <2>2. /\ top.end = machine.mcfg[1].end /\ FunctionsCounted(top)
          /\ HasRoom => \A fn \in DOMAIN machine.functions : Past(top, fn) => Recorded(fn)
      BY <2>1 DEF WalkedInv
    <2>3. FunctionsCounted(NextFunction(top)) /\ NextFunction(top).end = top.end
      BY <1>1, <2>2, FunctionCounted
    <2>4. ASSUME NEW fn \in DOMAIN machine.functions, Past(NextFunction(top), fn), HasRoom
          PROVE  Recorded(fn)
      <3>1. Past(top, fn) \/ fn = At(top)
        BY <1>1, <2>2, <2>4, FunctionPassed
      <3>2. At(top) = fn_at
        BY DEF At, fn_at
      <3> QED BY <2>2, <2>4, <3>1, <3>2
    <2> QED BY <2>1, <2>2, <2>3, <2>4
  <1> QED BY <1>2, <1>3

(* A function that answers is recorded; one that does not is not there, if *)
(* it is the first call that looks.                                        *)
LEMMA VisitWalked ==
    ASSUME OneSegment, FunctionsAnnounced, VmInv, StackInv, EcamInv, TableInv, WalkedInv, Visit
    PROVE  WalkedInv'
  <1>1. /\ pc = "walk" /\ pc \in Enumerating /\ top.bus <= top.end /\ top.max # 0 /\ stack # <<>>
        /\ UNCHANGED <<machine, segment>> /\ machine \in Machines
    BY DEF Visit, StackInv, VmInv, Enumerating
  <1>2. CASE Answers(top.bus, top.dev, top.func) = {}
    <2>1. stack' = WithTop(NextFunction(top)) /\ UNCHANGED <<pcie_devices, pc>>
      BY <1>2 DEF Visit
    <2> DEFINE c == WithTop(NextFunction(top))[1]
    <2>2. /\ c.end = machine.mcfg[1].end /\ FunctionsCounted(c)
          /\ HasRoom => \A fn \in DOMAIN machine.functions : Past(c, fn) => Recorded(fn)
      <3>1. CASE Len(stack) = 1
        <4>1. top = stack[1] /\ top.end = machine.mcfg[1].end
          BY <1>1, <3>1, TopOk, FirstCall DEF WalkedInv
        <4>2. fn_at \notin DOMAIN machine.functions
          BY <1>1, <1>2, <4>1, TopOk, AllAnswer DEF fn_at
        <4> QED BY <1>1, <4>2, GoesOn
      <3>2. CASE Len(stack) # 1
        <4>1. CallOk(NextFunction(top))
          BY <1>1, TopOk, NextCalls
        <4>2. c = stack[1]
          BY <1>1, <3>2, <4>1, FirstCall
        <4> HIDE DEF c
        <4> QED BY <1>1, <4>2 DEF WalkedInv
      <3> QED BY <3>1, <3>2
    <2>3. stack'[1] = c
      BY <2>1
    <2> HIDE DEF c
    <2> QED BY <1>1, <2>1, <2>2, <2>3
            DEF WalkedInv, FunctionsCounted, FirstOf, HasRoom, Recorded, BarPlaces, Finished
  <1>3. CASE Answers(top.bus, top.dev, top.func) # {}
    <2>1. UNCHANGED stack /\ pc' \in {"bar", "bridge"} /\ UNCHANGED <<top, fn_at>>
      BY <1>3 DEF Visit, fn_at, top
    <2>2. CASE HasRoom
      <3> DEFINE d == Record(fn_at)
      <3>1. pcie_devices' = Append(pcie_devices, d)
        BY <1>3, <2>2 DEF Visit, HasRoom
      <3>2. d.fn = fn_at
        BY DEF Record
      <3> HIDE DEF d
      <3>3. pcie_devices \in Seq(DeviceRecords) /\ Len(pcie_devices) \in Nat
        BY DEF TableInv
      <3>4. /\ Len(pcie_devices') = Len(pcie_devices) + 1
            /\ pcie_devices'[Len(pcie_devices) + 1] = d
            /\ \A k \in 1..Len(pcie_devices) : pcie_devices'[k] = pcie_devices[k]
        BY <3>1, <3>3
      <3>5. \A fn : Recorded(fn) \/ fn = fn_at => Recorded(fn)'
        BY <3>2, <3>3, <3>4 DEF Recorded
      <3> QED BY <1>1, <2>1, <2>2, <3>5
              DEF WalkedInv, FunctionsCounted, FirstOf, BarPlaces, Enumerating, Finished
    <2>3. CASE ~HasRoom
      <3>1. UNCHANGED pcie_devices
        BY <1>3, <2>3 DEF Visit, HasRoom
      <3>2. ~HasRoom'
        BY <2>3, <3>1 DEF HasRoom
      <3> QED BY <1>1, <2>1, <3>2
              DEF WalkedInv, FunctionsCounted, FirstOf, BarPlaces, Enumerating, Finished
    <2> QED BY <2>2, <2>3
  <1> QED BY <1>2, <1>3

(* The function in hand has been recorded: the walk goes on, and the buses *)
(* behind a bridge come on top.                                            *)
LEMMA BridgeWalked ==
    ASSUME FunctionsAnnounced, VmInv, StackInv, TableInv, WalkedInv, Bridge
    PROVE  WalkedInv'
  <1>1. /\ pc = "bridge" /\ pc \in Enumerating /\ pc' = "walk" /\ stack # <<>> /\ top.bus <= top.end
        /\ UNCHANGED <<machine, segment, pcie_devices>> /\ machine \in Machines
        /\ top.max # 0 /\ (HasRoom => Recorded(fn_at))
    BY DEF Bridge, StackInv, VmInv, BarPlaces, Enumerating, WalkedInv
  <1> DEFINE onward == WithTop(NextFunction(top))
             c == onward[1]
  <1>2. stack' = onward \/ \E d : stack' = Append(onward, d)
    BY DEF Bridge
  <1>3. stack'[1] = c
    <2>1. CallOk(NextFunction(top))
      BY <1>1, TopOk, NextCalls
    <2> QED BY <1>1, <1>2, <2>1, FirstCall
  <1>4. /\ c.end = machine.mcfg[1].end /\ FunctionsCounted(c)
        /\ HasRoom => \A fn \in DOMAIN machine.functions : Past(c, fn) => Recorded(fn)
    BY <1>1, GoesOn
  <1> HIDE DEF c
  <1> QED BY <1>1, <1>3, <1>4
          DEF WalkedInv, FunctionsCounted, FirstOf, HasRoom, Recorded, BarPlaces, Finished

(* The first call ends behind the last bus: all functions are in the table.*)
LEMMA ReturnWalked ==
    ASSUME OneSegment, FunctionsAnnounced, VmInv, StackInv, EcamInv, TableInv, WalkedInv, Return
    PROVE  WalkedInv'
  <1>1. /\ pc = "walk" /\ pc \in Enumerating /\ stack # <<>> /\ top.bus > top.end
        /\ UNCHANGED <<machine, segment, pcie_devices>> /\ machine \in Machines
        /\ stack' = Front(stack) /\ pc' = IF Len(stack) = 1 THEN "segment" ELSE "walk"
    BY DEF Return, StackInv, VmInv, Enumerating
  <1>2. CASE Len(stack) = 1
    <2>1. /\ top = stack[1] /\ top.end = machine.mcfg[1].end
          /\ HasRoom => \A fn \in DOMAIN machine.functions : Past(top, fn) => Recorded(fn)
      BY <1>1, <1>2, TopOk, FirstCall DEF WalkedInv
    <2>2. Len(machine.mcfg) = 1
      <3>1. 1 \in 1..Len(machine.mcfg)
        BY <1>1 DEF EcamInv, StackInv
      <3> QED BY <1>1, <3>1, EcamEntry
    <2>3. ASSUME NEW fn \in DOMAIN machine.functions PROVE Past(top, fn)
      <3>1. fn[1] <= top.end
        BY <1>1, <2>1, <2>2 DEF FunctionsAnnounced
      <3>2. fn[1] \in Nat /\ top.bus \in Nat /\ top.end \in Nat
        BY <1>1, FunctionNumbers, TopOk DEF CallOk, Calls
      <3> QED BY <1>1, <3>1, <3>2 DEF Past
    <2> QED BY <1>1, <1>2, <2>1, <2>3
            DEF WalkedInv, HasRoom, Recorded, Enumerating, BarPlaces
  <1>3. CASE Len(stack) # 1
    <2>1. stack'[1] = stack[1]
      BY <1>1, <1>3, TopOk, FirstCall
    <2> QED BY <1>1, <1>3, <2>1
            DEF WalkedInv, FunctionsCounted, FirstOf, HasRoom, Recorded, Enumerating, BarPlaces, Finished
  <1> QED BY <1>2, <1>3

(* The first call begins at the first bus, and has been past nothing.      *)
LEMMA MapEcamWalked ==
    ASSUME OneSegment, VmInv, StackInv, EcamInv, WalkedInv, MapEcam
    PROVE  WalkedInv'
  <1>1. /\ pc = "ecam" /\ UNCHANGED machine /\ machine \in Machines /\ segment = 1
        /\ 1 \in 1..Len(machine.mcfg)
    BY DEF MapEcam, VmInv, EcamInv, StackInv
  <1>2. CASE UNCHANGED pc
    BY <1>1, <1>2 DEF WalkedInv, Enumerating, BarPlaces, Finished
  <1>3. CASE /\ stack' = <<Call(machine.mcfg[segment].start, machine.mcfg[segment].end)>>
             /\ pc' = "walk"
    <2> DEFINE c == Call(0, machine.mcfg[1].end)
    <2>1. stack'[1] = c
      BY <1>1, <1>3, EcamEntry
    <2>2. /\ c.end = machine.mcfg[1].end /\ c.bus = 0 /\ c.dev = 0 /\ c.func = 0 /\ c.max = 0
      BY DEF Call
    <2> HIDE DEF c
    <2>3. ASSUME NEW fn \in DOMAIN machine.functions PROVE ~Past(c, fn)
      BY <1>1, <2>2, FunctionNumbers DEF Past
    <2> QED BY <1>1, <1>3, <2>1, <2>2, <2>3
            DEF WalkedInv, FunctionsCounted, BarPlaces, Finished
  <1> QED BY <1>2, <1>3 DEF MapEcam

(* Every step keeps what has been recorded, and adds what it passes.       *)
LEMMA WalkedStep ==
    ASSUME OneSegment, FunctionsAnnounced, pc \in Places, LoopInv, VmInv, RootInv, StackInv, SizingInv,
           TableInv, EcamInv, WalkedInv, [Next]_vars
    PROVE  WalkedInv'
  <1>1. CASE NextSegment
    <2>1. pc' = "ecam"
      BY <1>1 DEF NextSegment
    <2> QED BY <2>1 DEF WalkedInv, Enumerating, BarPlaces, Finished
  <1>2. CASE ~(NextSegment \/ MapEcam \/ Probe \/ Visit \/ Bridge \/ Return)
    <2>1. /\ UNCHANGED <<machine, stack, segment>>
          /\ \/ pc' = pc /\ pc \in {"ecam", "walk"}
             \/ pc \in BarPlaces /\ pc' \in BarPlaces
             \/ /\ pc \notin BarPlaces \cup {"walk", "ecam"}
                /\ pc' \notin BarPlaces \cup {"walk", "ecam"}
      BY <1>2, StackFrame
    <2>2. UNCHANGED <<top, fn_at>>
      BY <2>1 DEF top, fn_at
    <2>3. HasRoom' = HasRoom /\ \A fn : Recorded(fn) => Recorded(fn)'
      BY <1>2, FunctionsStay, RecordsStay
    <2>4. \A c : FunctionsCounted(c) => FunctionsCounted(c)'
      BY <2>1 DEF FunctionsCounted, FirstOf
    <2>5. CASE pc' = pc /\ pc \in {"ecam", "walk"}
      BY <2>1, <2>3, <2>4, <2>5 DEF WalkedInv, Enumerating, BarPlaces, Finished
    <2>6. CASE pc \in BarPlaces /\ pc' \in BarPlaces
      BY <2>1, <2>2, <2>3, <2>4, <2>6 DEF WalkedInv, Enumerating, BarPlaces, Finished
    <2>7. CASE pc \notin BarPlaces \cup {"walk", "ecam"} /\ pc' \notin BarPlaces \cup {"walk", "ecam"}
      <3>1. segment > 0 => pc \in {"segment", "mmio"} \cup Finished
        <4>1. pc \in BeforePaging \cup Booted => segment = 0
          BY DEF EcamInv
        <4> QED BY <2>7, <4>1 DEF Places, BeforeAcpi, Booted, Enumerating, BarPlaces
      <3>2. pc' \notin Enumerating
        BY <2>7 DEF Enumerating, BarPlaces
      <3> QED BY <2>1, <2>3, <2>7, <3>1, <3>2 DEF WalkedInv
    <2> QED BY <2>1, <2>5, <2>6, <2>7
  <1> QED BY <1>1, <1>2, MapEcamWalked, ProbeWalked, VisitWalked, BridgeWalked, ReturnWalked

(* So the table holds, in every state, what the enumeration has been past. *)
LEMMA WalkedKept == OneSegment /\ FunctionsAnnounced => (Spec => []WalkedInv)
  <1>1. Init => WalkedInv
    BY DEF Init, WalkedInv, Enumerating, BarPlaces, Finished
  <1> SUFFICES ASSUME OneSegment, FunctionsAnnounced PROVE Spec => []WalkedInv
    OBVIOUS
  <1>2. /\ pc \in Places /\ LoopInv /\ VmInv /\ EnumInv /\ EcamInv /\ WalkedInv /\ [Next]_vars
        => WalkedInv'
    BY WalkedStep DEF EnumInv
  <1> QED BY <1>1, <1>2, EcamKept, BarsKept, WalksKept, TablesKept, EnumerationKept, PTL DEF Spec

-----------------------------------------------------------------------------
(*----------------------- the capability of MSI-X -------------------------*)

(* The pointers that pcie_find_capability follows, as many as N: a         *)
(* recursive function, of which it takes some proof that there is one.     *)
Pointer(caps, p, n)  == IF n = 0 THEN caps.start ELSE IF p[n - 1] = 0 THEN 0 ELSE caps.next[p[n - 1]]
Pointers(caps, N, p) == p = [n \in 0..N |-> Pointer(caps, p, n)]

LEMMA PointersExist ==
    ASSUME NEW caps, NEW N \in Nat
    PROVE  \E p : Pointers(caps, N, p)
  <1> DEFINE Bad == {n \in Nat : ~\E p : Pointers(caps, n, p)}
  <1>1. Bad = {}
    <2> SUFFICES ASSUME Bad # {} PROVE FALSE
      OBVIOUS
    <2>1. PICK n \in Bad : \A k \in Bad : n <= k
      BY LeastNumber
    <2>2. n \in Nat
      BY <2>1
    <2>3. CASE n = 0
      <3> DEFINE p == [k \in 0..0 |-> caps.start]
      <3>1. p = [k \in 0..0 |-> Pointer(caps, p, k)]
        BY DEF Pointer
      <3> QED BY <2>1, <2>3, <3>1 DEF Pointers
    <2>4. CASE n # 0
      <3>1. n - 1 \in Nat /\ n - 1 \notin Bad
        <4> HIDE DEF Bad
        <4> QED BY <2>1, <2>2, <2>4
      <3>2. PICK q : Pointers(caps, n - 1, q)
        BY <3>1
      <3> DEFINE p == [k \in 0..n |-> Pointer(caps, q, k)]
      <3>3. \A k \in 0..(n - 1) : p[k] = q[k]
        BY <2>2, <3>2 DEF Pointers
      <3>4. \A k \in 0..n : Pointer(caps, q, k) = Pointer(caps, p, k)
        <4> TAKE k \in 0..n
        <4>1. k # 0 => k - 1 \in 0..(n - 1)
          BY <2>2
        <4> HIDE DEF p
        <4> QED BY <3>3, <4>1 DEF Pointer
      <3>5. Pointers(caps, n, p)
        BY <3>4, Zenon DEF Pointers
      <3> QED BY <2>1, <3>5
    <2> QED BY <2>3, <2>4
  <1> QED BY <1>1

(* What pcie_find_capability returns, by those pointers.                   *)
Hits(caps, p, id) == {n \in 0..(MAX_CAPABILITIES - 1) : p[n] # 0 /\ caps.id[p[n]] = id}

LEMMA FindIs ==
    ASSUME NEW caps, NEW id
    PROVE  \E p : /\ Pointers(caps, MAX_CAPABILITIES, p)
                  /\ pcie_find_capability(caps, id) =
                        IF Hits(caps, p, id) = {} THEN 0
                        ELSE p[CHOOSE n \in Hits(caps, p, id) : \A m \in Hits(caps, p, id) : n <= m]
  <1>1. MAX_CAPABILITIES \in Nat
    BY PcieAssumption
  <1> DEFINE P == CHOOSE p : Pointers(caps, MAX_CAPABILITIES, p)
  <1>2. Pointers(caps, MAX_CAPABILITIES, P)
    BY <1>1, PointersExist
  <1>3. pcie_find_capability(caps, id) =
            IF Hits(caps, P, id) = {} THEN 0
            ELSE P[CHOOSE n \in Hits(caps, P, id) : \A m \in Hits(caps, P, id) : n <= m]
    BY Zenon DEF pcie_find_capability, Pointers, Pointer, Hits
  <1> QED BY <1>2, <1>3

LEMMA FindHits ==
    ASSUME NEW caps, NEW id
    PROVE  \E p : /\ Pointers(caps, MAX_CAPABILITIES, p)
                  /\ pcie_find_capability(caps, id) # 0 <=> Hits(caps, p, id) # {}
  <1>1. PICK p : /\ Pointers(caps, MAX_CAPABILITIES, p)
                 /\ pcie_find_capability(caps, id) =
                        IF Hits(caps, p, id) = {} THEN 0
                        ELSE p[CHOOSE n \in Hits(caps, p, id) : \A m \in Hits(caps, p, id) : n <= m]
    BY FindIs
  <1> DEFINE S == Hits(caps, p, id)
             h == CHOOSE n \in S : \A m \in S : n <= m
  <1>2. ASSUME S # {} PROVE p[h] # 0
    <2>1. S \in SUBSET Nat
      BY PcieAssumption DEF Hits
    <2>2. \E n \in S : \A m \in S : n <= m
      <3> HIDE DEF S
      <3> QED BY <1>2, <2>1, LeastNumber
    <2>3. h \in S
      <3> HIDE DEF S
      <3> QED BY <2>2
    <2> QED BY <2>3 DEF Hits
  <1> HIDE DEF h, S
  <1>3. pcie_find_capability(caps, id) = IF S = {} THEN 0 ELSE p[h]
    BY <1>1 DEF h, S
  <1> QED BY <1>1, <1>2, <1>3 DEF S

(* A function that has the capability.                                     *)
Capable(fn) ==
    \E p \in DOMAIN machine.functions[fn].caps.id : machine.functions[fn].caps.id[p] = MSIX

(* It is found where it is, however the list comes to it.                  *)
LEMMA FoundIfCapable ==
    ASSUME MsixReachable, machine \in Machines, NEW fn \in DOMAIN machine.functions
    PROVE  pcie_find_capability(machine.functions[fn].caps, MSIX) # 0 <=> Capable(fn)
  <1> DEFINE c     == machine.functions[fn].caps
             Slots == DOMAIN c.id
             N     == MAX_CAPABILITIES
  <1>1. /\ 0 \notin Slots /\ c.start \in Slots \cup {0}
        /\ \A p \in Slots : c.next[p] \in Slots \cup {0}
        /\ Capable(fn) =>
              \E n \in 0..(N - 1) : \E path \in [0..n -> Slots] :
                 /\ path[0] = c.start /\ c.id[path[n]] = MSIX
                 /\ \A k \in 1..n : path[k] = c.next[path[k - 1]]
    BY DEF MsixReachable, Capable
  <1>2. Capable(fn) <=> \E s \in Slots : c.id[s] = MSIX
    BY DEF Capable
  <1>3. N \in Nat
    BY PcieAssumption
  <1>4. PICK p : /\ Pointers(c, N, p)
                 /\ pcie_find_capability(c, MSIX) # 0 <=> Hits(c, p, MSIX) # {}
    BY FindHits
  <1> HIDE DEF c, N
  <1>5. \A n \in 0..N : p[n] = Pointer(c, p, n)
    BY <1>4 DEF Pointers
  <1>6. \A n \in 0..N : p[n] \in Slots \cup {0}
    <2> DEFINE Bad == {n \in 0..N : p[n] \notin Slots \cup {0}}
    <2> SUFFICES ASSUME Bad # {} PROVE FALSE
      OBVIOUS
    <2>1. Bad \in SUBSET Nat
      BY <1>3
    <2>2. PICK n \in Bad : \A k \in Bad : n <= k
      <3> HIDE DEF Bad
      <3> QED BY <2>1, LeastNumber
    <2>3. n # 0
      BY <1>1, <1>5, <2>2 DEF Pointer
    <2>4. n - 1 \in 0..N /\ n - 1 \notin Bad
      <3>1. n \in 0..N
        BY <2>2
      <3> HIDE DEF Bad
      <3> QED BY <1>3, <2>2, <2>3, <3>1
    <2>5. p[n] \in Slots \cup {0}
      <3>1. p[n] = Pointer(c, p, n) /\ p[n - 1] \in Slots \cup {0}
        BY <1>5, <2>2, <2>4
      <3> QED BY <1>1, <2>3, <3>1 DEF Pointer
    <2> QED BY <2>2, <2>5
  <1>7. ASSUME Hits(c, p, MSIX) # {} PROVE Capable(fn)
    <2>1. PICK n \in 0..(N - 1) : p[n] # 0 /\ c.id[p[n]] = MSIX
      BY <1>7 DEF Hits, N
    <2>2. p[n] \in Slots
      BY <1>3, <1>6, <2>1
    <2> QED BY <1>2, <2>1, <2>2
  <1>8. ASSUME Capable(fn) PROVE Hits(c, p, MSIX) # {}
    <2>0. PICK n \in 0..(N - 1) : \E path \in [0..n -> Slots] :
                 /\ path[0] = c.start /\ c.id[path[n]] = MSIX
                 /\ \A k \in 1..n : path[k] = c.next[path[k - 1]]
      BY <1>1, <1>8
    <2>1. PICK path \in [0..n -> Slots] :
                 /\ path[0] = c.start /\ c.id[path[n]] = MSIX
                 /\ \A k \in 1..n : path[k] = c.next[path[k - 1]]
      BY <2>0
    <2> DEFINE Bad == {k \in 0..n : p[k] # path[k]}
    <2>2. Bad = {}
      <3> SUFFICES ASSUME Bad # {} PROVE FALSE
        OBVIOUS
      <3>1. Bad \in SUBSET Nat
        BY <1>3
      <3>2. PICK k \in Bad : \A j \in Bad : k <= j
        <4> HIDE DEF Bad
        <4> QED BY <3>1, LeastNumber
      <3>3. k \in 0..N /\ k \in 0..n
        BY <1>3, <3>2
      <3>4. k # 0
        BY <1>5, <2>1, <3>2, <3>3 DEF Pointer
      <3>5. k - 1 \in 0..n /\ k \in 1..n /\ k - 1 \notin Bad
        <4> HIDE DEF Bad
        <4> QED BY <1>3, <3>2, <3>3, <3>4
      <3>6. p[k - 1] = path[k - 1] /\ path[k - 1] \in Slots
        BY <3>5
      <3>7. p[k] = c.next[path[k - 1]]
        BY <1>1, <1>5, <3>3, <3>4, <3>6 DEF Pointer
      <3> QED BY <2>1, <3>2, <3>5, <3>7
    <2>3. p[n] = path[n] /\ path[n] \in Slots
      BY <1>3, <2>2
    <2>4. n \in Hits(c, p, MSIX)
      BY <1>1, <2>1, <2>3 DEF Hits, N
    <2> QED BY <2>4
  <1> QED BY <1>4, <1>7, <1>8 DEF c

BeforeMsix == {"bar", "restore", "map_bar", "program"}

(* MSI-X is on in capable functions only, and in all of them in the table  *)
(* but for the one in hand.                                                *)
MsixInv ==
    /\ \A fn \in DOMAIN config : config[fn].msix => Capable(fn)
    /\ pc = "program" =>
          /\ pcie_devices # <<>> /\ pcie_devices[Len(pcie_devices)].fn = here
          /\ Capable(here)
    /\ \A k \in 1..Len(pcie_devices) :
          k # Len(pcie_devices) \/ pc \notin BeforeMsix =>
             (Capable(pcie_devices[k].fn) => config[pcie_devices[k].fn].msix)

(* Nobody but EnableMsix writes to MSI-X Enable.                           *)
LEMMA MsixStays ==
    ASSUME LoopInv, BarInv, [Next]_vars
    PROVE  \/ EnableMsix
           \/ /\ DOMAIN config' = DOMAIN config
              /\ \A fn \in DOMAIN config : config'[fn].msix = config[fn].msix
  <1>1. /\ DOMAIN config = DOMAIN machine.functions
        /\ \A fn \in DOMAIN config :
              config[fn] = [bar |-> config[fn].bar, enabled |-> config[fn].enabled, msix |-> config[fn].msix]
    BY DEF BarInv, ConfigShape
  <1>2. CASE UNCHANGED config
    BY <1>2
  <1>3. CASE SizeBar \/ Restore
    <2>1. PICK i, wide, v, w : config' = BarsWritten(i, wide, v, w)
      BY <1>3 DEF SizeBar, Restore
    <2> DEFINE bars == [j \in 0..6 |->
                          CASE j = i              -> written(register(here, i), v)
                            [] wide /\ j = i + 1  -> written(register(here, i + 1), w)
                            [] OTHER              -> config[here].bar[j]]
    <2>2. config' = [config EXCEPT ![here].bar = bars]
      BY <2>1 DEF BarsWritten
    <2> HIDE DEF bars
    <2> QED BY <1>1, <2>2
  <1>4. CASE EnableDevice
    <2>1. PICK fn : pcie_enable_device(fn, "idle")
      BY <1>4 DEF EnableDevice
    <2> DEFINE who == Answers(fn[1], fn[2], fn[3])
    <2>2. config' = [f \in DOMAIN config |->
                        IF f \in who THEN [config[f] EXCEPT !.enabled = TRUE] ELSE config[f]]
      BY <2>1 DEF pcie_enable_device
    <2> HIDE DEF who
    <2>3. \A f \in DOMAIN config : [config[f] EXCEPT !.enabled = TRUE].msix = config[f].msix
      BY <1>1
    <2> QED BY <2>2, <2>3
  <1> QED BY <1>2, <1>3, <1>4, BarFrame DEF pcie_vars

(* Who has a function in hand, up to its MSI-X table.                      *)
LEMMA MsixFrame ==
    ASSUME LoopInv, RootInv, VmInv, [Next]_vars
    PROVE  /\ UNCHANGED machine
           /\ \/ Visit \/ EnableMsix \/ MapMsixTable
              \/ /\ UNCHANGED <<vm, segment, stack>>
                 /\ \/ pc \in {"bar", "restore", "map_bar"} /\ pc' \in {"bar", "restore", "map_bar"}
                    \/ pc' = pc
              \/ pc \notin BeforeMsix /\ pc' \notin BeforeMsix
  <1> USE DEF BeforeMsix
  <1>1. UNCHANGED machine
    BY EcamFrame
  <1>2. CASE NextSegment \/ MapEcam \/ Probe \/ Bridge \/ Return
    BY <1>1, <1>2 DEF NextSegment, MapEcam, Probe, Bridge, Return
  <1>3. CASE SizeBar \/ Restore \/ ProgramEntry
    BY <1>1, <1>3 DEF SizeBar, Restore, ProgramEntry
  <1>4. CASE MapBar
    <2>1. pc = "map_bar" /\ UNCHANGED <<vm, segment, stack>> /\ g_pml4_virt = NULL
      BY <1>4 DEF MapBar, RootInv, Finished
    <2>2. pc' = "bar"
      BY <1>4, <2>1 DEF MapBar, MapRange
    <2> QED BY <1>1, <2>1, <2>2
  <1>5. CASE MapMmio
    <2>1. pc = "mmio" /\ pc' \in {"mmio", "idle"}
      BY <1>5 DEF MapMmio, RootInv
    <2> QED BY <1>1, <2>1
  <1>6. CASE KernelStep /\ ~PcieStep
    BY <1>1, <1>6 DEF KernelStep, Checks, SetupPageTables, GdtInitialize, MemoryInit,
        IdtInitialize, VbeInit, Tags, FindMcfg, InitPcieDone, TestMalloc,
        pcie_set_pml4_and_offset, pcie_vars
  <1>7. CASE EnableDevice \/ MapResource
    <2>1. pc = "idle" /\ pc' \in {"idle", "mmio"}
      BY <1>7 DEF EnableDevice, pcie_enable_device, MapResource, pcie_map_phys_mmio, MapRange
    <2> QED BY <1>1, <2>1
  <1>8. CASE Interrupt
    BY <1>1, <1>8 DEF Interrupt, pcie_vars
  <1>9. CASE UNCHANGED vars
    BY <1>1, <1>9 DEF vars, pcie_vars
  <1> QED BY <1>1, <1>2, <1>3, <1>4, <1>5, <1>6, <1>7, <1>8, <1>9 DEF Next, KernelStep, PcieStep, PcieNext

LEMMA CapableStays ==
    ASSUME UNCHANGED machine
    PROVE  \A fn : Capable(fn)' = Capable(fn)
  BY DEF Capable

(* The function that is visited is the last in the table; those before it  *)
(* are done.                                                               *)
LEMMA VisitMsix ==
    ASSUME BarInv, TableInv, MsixInv, Visit
    PROVE  MsixInv'
  <1>1. /\ pc = "walk" /\ pc' \in {"walk", "bar", "bridge"} /\ UNCHANGED <<machine, config>>
        /\ UNCHANGED pcie_devices \/ (pc' = "bar" /\ \E d : pcie_devices' = Append(pcie_devices, d))
    BY DEF Visit
  <1>2. \A fn : Capable(fn)' = Capable(fn)
    BY <1>1, CapableStays
  <1>3. \A k \in 1..Len(pcie_devices) : Capable(pcie_devices[k].fn) => config[pcie_devices[k].fn].msix
    BY <1>1 DEF MsixInv, BeforeMsix
  <1>4. CASE UNCHANGED pcie_devices
    BY <1>1, <1>2, <1>3, <1>4 DEF MsixInv
  <1>5. CASE pc' = "bar" /\ \E d : pcie_devices' = Append(pcie_devices, d)
    <2>1. PICK d : pcie_devices' = Append(pcie_devices, d)
      BY <1>5
    <2>2. pcie_devices \in Seq(DeviceRecords) /\ Len(pcie_devices) \in Nat
      BY DEF TableInv
    <2>3. /\ Len(pcie_devices') = Len(pcie_devices) + 1
          /\ \A k \in 1..Len(pcie_devices) : pcie_devices'[k] = pcie_devices[k]
      BY <2>1, <2>2
    <2>4. \A k \in 1..Len(pcie_devices') : k # Len(pcie_devices') => k \in 1..Len(pcie_devices)
      BY <2>2, <2>3
    <2> QED BY <1>1, <1>2, <1>3, <1>5, <2>3, <2>4 DEF MsixInv, BeforeMsix
  <1> QED BY <1>1, <1>4, <1>5

(* A capable function has its table programmed; one that is not is done.   *)
LEMMA MapMsixTableMsix ==
    ASSUME NEW largest \in Nat, MsixReachable, LoopInv, RootInv, VmInv, BarInv, StackInv, TableInv,
           RightInv, RangesInv(largest), MsixInv, MapMsixTable
    PROVE  MsixInv'
  <1> DEFINE T     == pcie_devices
             f     == machine.functions[here]
             d     == Last(T)
             cap   == pcie_find_capability(f.caps, MSIX)
             table == IF f.msix.bir < 6 THEN d.bars[f.msix.bir] ELSE 0
             next  == IF g_mmio_next = 0 THEN "bridge" ELSE "program"
  <1>1. /\ pc = "bar" /\ loop.i = 6 /\ g_pml4_virt = NULL /\ T # <<>>
        /\ UNCHANGED <<machine, vm, segment, stack, pcie_devices, config>>
        /\ machine \in Machines /\ here \in DOMAIN machine.functions
    BY HereAnswers DEF MapMsixTable, RootInv, Finished, TableInv, VmInv, BarPlaces
  <1>2. UNCHANGED here /\ \A fn : Capable(fn)' = Capable(fn)
    BY <1>1, SameHere, CapableStays
  <1>3. T[Len(T)].fn = here /\ Last(T) = T[Len(T)] /\ Len(T) \in 1..Len(T) /\ RightRecord(T[Len(T)], 6, 6)
    BY <1>1, LastRecord DEF TableInv, RightInv, InHand, RightTable
  <1>4. next = "program"
    <2>1. window <= g_mmio_next
      BY DEF RangesInv, Windowed
    <2>2. window \in Nat \ {0}
      <3>1. GIB \in Nat \ {0}
        BY Spans
      <3> QED BY <3>1, WindowStart
    <2>3. g_mmio_next \in Int
      BY DEF TableInv
    <2> QED BY <2>1, <2>2, <2>3
  <1>5. Capable(here) <=> cap # 0
    BY <1>1, FoundIfCapable
  <1>6. ASSUME Capable(here) PROVE table # 0
    <2>1. f.msix.bir \in DOMAIN f.bars /\ f.bars[f.msix.bir].base # 0
      BY <1>1, <1>6 DEF MsixReachable, Capable
    <2>2. f.msix.bir \in 0..5
      BY <1>1, <2>1, BarsBelowSix
    <2>3. d.bars[f.msix.bir] = f.bars[f.msix.bir].base
      BY <1>3, <2>1, <2>2 DEF RightRecord
    <2> QED BY <2>1, <2>2, <2>3
  <1>7. pc' = IF cap = 0 \/ table = 0 THEN "bridge" ELSE "program"
    <2>1. CASE cap = 0 \/ table = 0
      BY <2>1 DEF MapMsixTable
    <2>2. CASE ~(cap = 0 \/ table = 0)
      <3>1. MapRange(table + f.msix.offset, f.msix.entries * MSIX_ENTRY, 0, next)
        BY <2>2 DEF MapMsixTable
      <3> HIDE DEF next, table, cap, f
      <3> QED BY <1>1, <1>4, <2>2, <3>1 DEF MapRange
    <2> QED BY <2>1, <2>2
  <1> HIDE DEF cap, table, next, f, d
  <1>8. CASE pc' = "program"
    <2>1. Capable(here)
      BY <1>5, <1>7, <1>8
    <2>2. \A fn \in DOMAIN config : config[fn].msix => Capable(fn)
      BY DEF MsixInv
    <2>3. \A k \in 1..Len(T) : k # Len(T) => (Capable(T[k].fn) => config[T[k].fn].msix)
      BY DEF MsixInv
    <2> QED BY <1>1, <1>2, <1>3, <1>8, <2>1, <2>2, <2>3 DEF MsixInv, BeforeMsix
  <1>9. CASE pc' = "bridge"
    <2>1. ~Capable(here)
      BY <1>5, <1>6, <1>7, <1>9
    <2>2. \A fn \in DOMAIN config : config[fn].msix => Capable(fn)
      BY DEF MsixInv
    <2>3. \A k \in 1..Len(T) : Capable(T[k].fn) => config[T[k].fn].msix
      <3>1. \A k \in 1..Len(T) : k # Len(T) => (Capable(T[k].fn) => config[T[k].fn].msix)
        BY DEF MsixInv
      <3> QED BY <1>3, <2>1, <3>1
    <2> QED BY <1>1, <1>2, <1>9, <2>2, <2>3 DEF MsixInv
  <1> QED BY <1>7, <1>8, <1>9

(* MSI-X is switched on in a function that has it, the last in the table.  *)
LEMMA EnableMsixMsix ==
    ASSUME BarInv, StackInv, TableInv, RightInv, MsixInv, EnableMsix
    PROVE  MsixInv'
  <1> DEFINE T == pcie_devices
  <1>1. /\ pc = "program" /\ pc' = "bridge" /\ UNCHANGED <<machine, pcie_devices>>
        /\ config' = [config EXCEPT ![here].msix = TRUE]
        /\ DOMAIN config = DOMAIN machine.functions /\ here \in DOMAIN config
    BY HereAnswers DEF EnableMsix, BarInv, ConfigShape, BarPlaces
  <1>2. \A fn : Capable(fn)' = Capable(fn)
    BY <1>1, CapableStays
  <1>3. /\ DOMAIN config' = DOMAIN config /\ config'[here].msix = TRUE
        /\ \A fn \in DOMAIN config : fn # here => config'[fn] = config[fn]
    <2>1. config[here] = [bar |-> config[here].bar, enabled |-> config[here].enabled, msix |-> config[here].msix]
      BY <1>1 DEF BarInv, ConfigShape
    <2> QED BY <1>1, <2>1
  <1>4. T # <<>> /\ T[Len(T)].fn = here /\ Capable(here)
    BY <1>1 DEF MsixInv
  <1>5. \A fn \in DOMAIN config' : config'[fn].msix => Capable(fn)
    BY <1>3, <1>4 DEF MsixInv
  <1>6. ASSUME NEW k \in 1..Len(T), Capable(T[k].fn) PROVE config'[T[k].fn].msix
    <2>1. CASE T[k].fn = here
      BY <1>3, <2>1
    <2>2. CASE T[k].fn # here
      <3>1. k # Len(T) /\ config[T[k].fn].msix
        BY <1>4, <1>6, <2>2 DEF MsixInv
      <3>2. T[k].fn \in DOMAIN config
        BY <1>1 DEF RightInv, RightTable, RightRecord
      <3> QED BY <1>3, <2>2, <3>1, <3>2
    <2> QED BY <2>1, <2>2
  <1> QED BY <1>1, <1>2, <1>5, <1>6 DEF MsixInv

(* The other steps leave MSI-X Enable and the functions in the table.      *)
LEMMA MsixStep ==
    ASSUME NEW largest \in Nat, MsixReachable, LoopInv, RootInv, VmInv, BarInv, StackInv, SizingInv,
           TableInv, RightInv, RangesInv(largest), MsixInv, [Next]_vars
    PROVE  MsixInv'
  <1> DEFINE T == pcie_devices
  <1>1. CASE ~(Visit \/ EnableMsix \/ MapMsixTable)
    <2>1. /\ UNCHANGED machine
          /\ \/ /\ UNCHANGED <<vm, segment, stack>>
                /\ \/ pc \in {"bar", "restore", "map_bar"} /\ pc' \in {"bar", "restore", "map_bar"}
                   \/ pc' = pc
             \/ pc \notin BeforeMsix /\ pc' \notin BeforeMsix
      BY <1>1, MsixFrame
    <2>2. \A fn : Capable(fn)' = Capable(fn)
      BY <2>1, CapableStays
    <2>3. DOMAIN config' = DOMAIN config /\ \A fn \in DOMAIN config : config'[fn].msix = config[fn].msix
      BY <1>1, MsixStays
    <2>4. Len(T') = Len(T) /\ \A k \in 1..Len(T) : T'[k].fn = T[k].fn
      BY <1>1, FunctionsStay
    <2>5. \A k \in 1..Len(T) : T[k].fn \in DOMAIN config
      BY DEF RightInv, InHand, RightTable, RightRecord, BarInv, ConfigShape
    <2>6. \A fn \in DOMAIN config' : config'[fn].msix => Capable(fn)'
      BY <2>2, <2>3 DEF MsixInv
    <2>7. ASSUME pc' = "program"
          PROVE  T' # <<>> /\ T'[Len(T')].fn = here' /\ Capable(here)'
      <3>1. pc = "program" /\ UNCHANGED <<machine, vm, segment, stack>>
        BY <2>1, <2>7 DEF BeforeMsix
      <3>2. UNCHANGED here
        BY <3>1, SameHere
      <3>3. T # <<>> /\ T[Len(T)].fn = here /\ Capable(here)
        BY <3>1 DEF MsixInv
      <3>4. Len(T) \in 1..Len(T)
        BY <3>3, LastRecord DEF TableInv
      <3>5. Len(T') # 0
        BY <2>4, <3>4
      <3>6. T' # <<>>
        BY <3>5
      <3>7. Capable(here)'
        BY <3>1, <3>2, <3>3 DEF Capable
      <3> QED BY <2>4, <3>2, <3>3, <3>4, <3>6, <3>7
    <2>8. ASSUME NEW k \in 1..Len(T'), k # Len(T') \/ pc' \notin BeforeMsix, Capable(T[k].fn)'
          PROVE  config'[T'[k].fn].msix
      <3>1. k \in 1..Len(T) /\ T'[k].fn = T[k].fn
        BY <2>4
      <3>2. Capable(T[k].fn)
        BY <2>1, <2>8, <3>1 DEF Capable
      <3>3. k # Len(T) \/ pc \notin BeforeMsix
        BY <2>1, <2>4, <2>8 DEF BeforeMsix
      <3>4. config[T[k].fn].msix
        BY <3>1, <3>2, <3>3 DEF MsixInv
      <3> QED BY <2>3, <2>5, <3>1, <3>4
    <2> QED BY <2>6, <2>7, <2>8 DEF MsixInv
  <1> QED BY <1>1, VisitMsix, EnableMsixMsix, MapMsixTableMsix

(***************************************************************************)
(* When the kernel goes on after initPcie, every function there is, behind *)
(* bridges too, is in the table, unless the table is full; and MSI-X is on *)
(* in those in the table that have it, wherever in their list, and in no   *)
(* others.  It is so where functions announce themselves as PCI has it,    *)
(* and the window has room.                                                *)
(***************************************************************************)
THEOREM KernelRecordsFunctions ==
    ASSUME NEW largest \in Nat, OneSegment, FunctionsAnnounced, MsixReachable
    PROVE  Spec /\ RoomFor(largest) => []EveryFunctionRecorded
  <1>1. Init /\ RoomFor(largest) => RangesInv(largest)
    BY RangesInit
  <1>2. LoopInv /\ BarInv /\ VmInv /\ EnumInv /\ EnumInv' /\ RangesInv(largest) /\ [Next]_vars
           => RangesInv(largest)'
    BY RangesStep DEF EnumInv
  <1>3. Init => MsixInv
    <2> SUFFICES ASSUME Init PROVE MsixInv
      OBVIOUS
    <2>1. pc = "start" /\ pcie_devices = <<>> /\ \A fn \in DOMAIN config : config[fn].msix = FALSE
      BY DEF Init, InitPcieState, InitMachine
    <2>2. Len(pcie_devices) = 0
      BY <2>1
    <2> QED BY <2>1, <2>2 DEF MsixInv
  <1>4. LoopInv /\ BarInv /\ VmInv /\ EnumInv /\ RightInv /\ RangesInv(largest) /\ MsixInv /\ [Next]_vars
           => MsixInv'
    <2> SUFFICES ASSUME LoopInv, BarInv, VmInv, EnumInv, RightInv, RangesInv(largest), MsixInv, [Next]_vars
                 PROVE  MsixInv'
      OBVIOUS
    <2>1. RootInv /\ StackInv /\ SizingInv /\ TableInv
      BY DEF EnumInv
    <2> QED BY <2>1, MsixStep
  <1>5. EnumInv /\ BarInv /\ WalkedInv /\ MsixInv => EveryFunctionRecorded
    <2> SUFFICES ASSUME EnumInv, BarInv, WalkedInv, MsixInv PROVE EveryFunctionRecorded
      OBVIOUS
    <2>1. ASSUME pc \in Finished, segment > 0, Len(pcie_devices) < PCIE_MAX_DEVICES,
                 NEW fn \in DOMAIN machine.functions
          PROVE  \E d \in ToSet(pcie_devices) : d.fn = fn
      <3>1. PICK k \in 1..Len(pcie_devices) : pcie_devices[k].fn = fn
        BY <2>1 DEF WalkedInv, HasRoom, Recorded
      <3>2. pcie_devices[k] \in ToSet(pcie_devices)
        BY DEF EnumInv, TableInv, ToSet
      <3> QED BY <3>1, <3>2
    <2>2. ASSUME NEW fn \in DOMAIN config, pc \in Finished, Capable(fn),
                 NEW d \in ToSet(pcie_devices), d.fn = fn
          PROVE  config[fn].msix
      <3>1. PICK k \in 1..Len(pcie_devices) : d = pcie_devices[k]
        BY DEF EnumInv, TableInv, ToSet
      <3> QED BY <2>2, <3>1 DEF MsixInv, BeforeMsix, Finished
    <2>3. MsixWhereCapable
      BY <2>2 DEF MsixWhereCapable, MsixInv, Capable
    <2> QED BY <2>1, <2>3 DEF EveryFunctionRecorded
  <1>6. Spec => []WalkedInv
    BY WalkedKept
  <1>7. Spec => []RightInv
    BY RightKept
  <1> QED BY <1>1, <1>2, <1>3, <1>4, <1>5, <1>6, <1>7, BarsKept, TablesKept, EnumerationKept, PTL DEF Spec

=============================================================================
