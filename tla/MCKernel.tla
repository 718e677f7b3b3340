------------------------------ MODULE MCKernel ------------------------------
(* Tables of eight entries, two devices of two functions on a bus, bytes   *)
(* of eight values: 1 GiB is 1024, 4 GiB are 4096, a bus has 64 addresses. *)
EXTENDS Kernel

NoCaps == [start |-> 0, id |-> [p \in {} |-> 0], next |-> [p \in {} |-> 0]]
NoMsix == [entries |-> 1, bir |-> 0, offset |-> 0]
Caps(start, id, next) == [start |-> start, id |-> id, next |-> next]
(* Power management, MSI-X, PCI Express; and a list that comes back to its *)
(* first entry.                                                            *)
Three == Caps(64, [p \in {64, 72, 80} |-> CASE p = 64 -> 1 [] p = 72 -> 17 [] OTHER -> 16],
                  [p \in {64, 72, 80} |-> (p + 8) % 88])
LastOfThree == Caps(64, [p \in {64, 72, 80} |-> IF p = 80 THEN 17 ELSE 1],
                        [p \in {64, 72, 80} |-> (p + 8) % 88])
Circle == Caps(64, [p \in {64, 72} |-> 1], [p \in {64, 72} |-> 136 - p])

NoBars == [i \in {} |-> 0]
Mem32(base, size) == [kind |-> "mem32", base |-> base, size |-> size]
Mem64(base, size) == [kind |-> "mem64", base |-> base, size |-> size]
Io(base, size)    == [kind |-> "io", base |-> base, size |-> size]
Io16(base, size)  == [kind |-> "io16", base |-> base, size |-> size]

Device(bars, caps, msix, multi) ==
    [multi |-> multi, bridge |-> FALSE, registers |-> NoBars,
     bars |-> bars, caps |-> caps, msix |-> msix]
(* A bridge has bus numbers, beside which the latency timer may be wired   *)
(* to 0, and a window for memory: a base and a limit, whose lower bits are.*)
Timed   == 4095
Untimed == 511
BridgeTo(primary, secondary, subordinate, numbers, window) ==
    [multi |-> FALSE, bridge |-> TRUE,
     registers |-> [i \in 2..5 |->
         CASE i = 2 -> Register(primary + 8 * secondary + 64 * subordinate, numbers)
           [] i = 4 -> Register(64 * window + window, 64 * 56 + 56)
           [] OTHER -> Register(0, 0)],
     bars |-> NoBars, caps |-> NoCaps, msix |-> NoMsix]
Simple == Device(NoBars, NoCaps, NoMsix, FALSE)

Segments(end) == <<[base |-> 3328, start |-> 0, end |-> end]>>

(* One bus, one device with ports and memory; its list of capabilities is  *)
(* a circle.                                                               *)
Small == [mcfg |-> Segments(0),
          functions |-> [f \in {<<0, 1, 0>>} |->
              Device([i \in {0, 1} |-> IF i = 0 THEN Io(96, 8) ELSE Mem32(3600, 48 - 32)],
                     Circle, NoMsix, FALSE)]]
(* A device with two functions: 64 bit BARs, one of more than 4 GiB, and   *)
(* MSI-X with more entries than there are vectors.                         *)
Wide == [mcfg |-> Segments(0),
         functions |-> [f \in {<<0, 0, 0>>, <<0, 0, 1>>} |->
             IF f[3] = 0
             THEN Device([i \in {0, 2} |-> IF i = 0 THEN Mem64(5 * 4096 + 256, 32) ELSE Mem32(3584, 8 + 8)],
                         Three, [entries |-> 5, bir |-> 0, offset |-> 16], TRUE)
             ELSE Device([i \in {4} |-> Mem64(4 * 4096, 2 * 4096)], NoCaps, NoMsix, FALSE)]]
(* Ports of 16 bits and 8 GiB of memory, and behind them an MSI-X table.   *)
Crowded == [mcfg |-> Segments(0),
            functions |-> [f \in {<<0, 0, 0>>, <<0, 0, 1>>} |->
                IF f[3] = 0
                THEN Device([i \in {0, 2} |-> IF i = 0 THEN Io16(32, 8) ELSE Mem64(4 * 4096, 2 * 4096)],
                            NoCaps, NoMsix, TRUE)
                ELSE Device([i \in {1} |-> Mem32(3584, 16)], Three,
                            [entries |-> 2, bir |-> 1, offset |-> 0], FALSE)]]
(* A bridge, and what is behind it.                                        *)
Bridged == [mcfg |-> Segments(1),
            functions |-> [f \in {<<0, 0, 0>>, <<1, 1, 0>>} |->
                IF f[1] = 0 THEN BridgeTo(0, 1, 1, Untimed, 16)
                ELSE Device([i \in {1} |-> Mem32(3840, 64)], LastOfThree,
                            [entries |-> 2, bir |-> 1, offset |-> 32], FALSE)]]
(* Bridges behind a bridge, and one the firmware has not set up.           *)
Nested == [mcfg |-> Segments(3),
           functions |-> [f \in {<<0, 0, 0>>, <<0, 1, 0>>, <<1, 0, 0>>, <<1, 1, 0>>,
                                 <<2, 0, 0>>, <<3, 1, 0>>} |->
               CASE f = <<0, 0, 0>> -> BridgeTo(0, 1, 3, Timed, 16)
                 [] f = <<0, 1, 0>> -> BridgeTo(0, 0, 0, Timed, 0)
                 [] f = <<1, 0, 0>> -> BridgeTo(1, 2, 2, Timed, 0)
                 [] f = <<1, 1, 0>> -> BridgeTo(1, 3, 3, Timed, 40)
                 [] OTHER -> Simple]]
(* One bridge behind another.                                              *)
Deep == [mcfg |-> Segments(2),
         functions |-> [f \in {<<0, 1, 0>>, <<1, 0, 0>>, <<2, 1, 0>>} |->
             CASE f[1] = 0 -> BridgeTo(0, 1, 2, Timed, 0) [] f[1] = 1 -> BridgeTo(1, 2, 2, Timed, 0) [] OTHER -> Simple]]
Empty == [mcfg |-> <<>>, functions |-> [f \in {} |-> Simple]]

MCMachines == {Small, Wide, Crowded, Bridged, Nested, Deep, Empty}

(* These are machines that the theorems about mapped functions are about.  *)
ASSUME SegmentsAssumption ==
    Machines = MCMachines => OneSegment /\ FunctionsAnnounced /\ MsixReachable

Rsdp(revision, xsdt) == [revision |-> revision, xsdt |-> xsdt]
Tag(type, size, rsdp) == [type |-> type, size |-> size, rsdp |-> rsdp]
None == Rsdp(0, <<>>)
End  == Tag(0, 8, None)
Old  == Tag(14, 28, Rsdp(0, <<>>))
New  == Tag(15, 44, Rsdp(2, <<"FACP", "MCFG">>))
NewBare == Tag(15, 44, Rsdp(2, <<"FACP">>))
Screen  == Tag(8, 32, None)
Other   == Tag(1, 13, None)

(* A list of tags as the boot loader leaves it in memory.                  *)
Place(tags) ==
    LET at[k \in 1..Len(tags)] ==
            IF k = 1 THEN multiboot_addr + 8
            ELSE at[k - 1] + ((tags[k - 1].size + 7) \div 8) * 8
    IN  [a \in {at[k] : k \in 1..Len(tags)} |-> tags[CHOOSE k \in 1..Len(tags) : at[k] = a]]

MCInfos == {Place(<<Other, Screen, Old, New, End>>), Place(<<New, Old, End>>),
            Place(<<Old, Screen, End>>), Place(<<NewBare, End>>)}

Cpu(leaf, long_mode) == [multiboot |-> TRUE, cpuid |-> TRUE, leaf |-> leaf, long_mode |-> long_mode]
MCCpus == {Cpu("80000008", TRUE), Cpu("80000008", FALSE), Cpu("80000001", TRUE)}

MCStrikes == {2, 14, 21}
MCInterrupts == 0..31 \cup {128}
MCStubs == [v \in MCInterrupts |-> 5000 + 5 * v]
MCResources == {[phys |-> 4032, size |-> 16], [phys |-> 4000, size |-> 40]}
=============================================================================
