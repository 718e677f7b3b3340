# MM8-R, specified

TLA+ specifications of the MM8-R kernel (`src/src`), TLC models of them, and
proofs checked by TLAPS. Paths below are relative to the kernel's source tree,
`src/src/`, unless they start elsewhere.

## The system

MM8-R is a 64-bit kernel for one x86 processor, loaded by GRUB. Assembly code
builds page tables and enters long mode; `kernel_main` then sets up, in this
order: the GDT, the page pool, the IDT, the frame buffer, ACPI, PCI Express;
it tries `malloc` and `free`, draws, and loops. There are no threads, and
interrupts are never enabled (`kernel_main` has no `sti`); only exceptions and
non-maskable interrupts strike. The hard behaviours are therefore not
interleavings of threads. They are

* long sequences of legal calls on linked data (the allocators' lists),
* one step of several failing (an allocation in the middle of `realloc`, of
  `console_set_font_scale`, of enabling double buffering),
* state that survives a call and is stale in the next one (scrollback view,
  page table root set after its first use),
* limits of pools, windows, counters and fixed tables that nobody tests,
* loops over data from outside (boot tags, capability lists, list links).

### Components

| component | state | operations | what makes it correct |
|---|---|---|---|
| page pool, `kernel/mem/memory.c` | `g_next_page`, `g_page_limit` | `memory_init`, `memory_alloc_pages`, `memory_free_pages`, `allocate_physical_frame`, the `liballoc_*` hooks | ranges never overlap and lie behind the kernel; no page is lost; halts only when used up |
| kernel heap, `kernel/mem/heap.c` | `heap_start`, the block headers in the heap's page | `heap_initialize`, `kmalloc`, `kmalloc_aligned`, `kfree`, `kfree_aligned`, `krealloc`, `heap_get_stats` | blocks tile the page; every pointer owns a large enough block; full coalescing; a failed `krealloc` keeps the old block |
| liballoc, `kernel/mem/liballoc.c` | `l_freePages`, `l_completePages`, boundary tags | `malloc`, `free`, `calloc`, `realloc` | tags tile the chunks; free lists doubly linked and complete; chunk count exact |
| kernel entry, `kernel/main.c` | the tag a walk is at, the ACPI root pointer found | `kernel_main` | everything is used after it is set up and before its memory is reused; the tag walks end |
| console, `kernel/libs/stdio.c` | three shadow buffers, a scrollback ring, cursor, view | `kputc`, `clrscr`, `scrollback`, `view_scrollback_*`, `console_set_font_scale` | cursor in the buffers, the ring holds the last lines, the view restores what was shown |
| formatted output, `kernel/libs/stdio.c` | none between calls | `kprintf`, `sprintf`, `vsprintf` | prints the argument it is given; every format ends |
| graphics, `kernel/libs/graphics.c` | the back buffer | `graphics_*` | draws inside the buffer; lines reach their end |
| frame buffer, `kernel/drivers/vbe.c` | `vbe_screen` | `vbe_init`, `vbe_put_pixel` | no pixel outside the screen |
| PCI Express, `kernel/drivers/pcie.c` | device table, page table root, MMIO window, vector counter | MCFG search, ECAM mapping, enumeration, BAR and MSI-X mapping | a configuration access reaches its function; every function is found; sizing a BAR leaves it as it was; ranges do not overlap; vectors are unique |
| strings, `kernel/libs/string.c` | none | `memcpy`, `memmove`, `strcmp`, ... | equal to their definitions on overlapping ranges too |
| APICs, `arch/x86_64/interrupts/apic.c` | local and I/O APIC registers | `enable_apic`, `ioapic_*` | a vector is unmasked only when it is complete |
| interrupts, `idt.c`, `isrs_gen.c` | the IDT | `IDT_Initialize`, handlers | every vector has its handler and a balanced stack |
| segments, `gdt.c` | GDT, TSS | `GDT_Initialize` | selectors name the descriptors they are used for |
| boot, `boot/*.asm` | page tables, stack | `start` | long mode is entered with all of the kernel mapped |
| AHCI, splash | (empty files, code that is commented out) | | |
| build | | | |

### How they interact

```
boot/main.asm --> page tables -------------------+
   |                                             | map_pcie_ecam_2mb,
kernel_main --> memory_init                      | map_mmio_region
   |                 |                           |
   |          page pool (bump allocator, never shrinks)
   |            ^        ^                       ^
   |   1 page, once   n pages                1 page at a time
   |            |        |                       |
   |      kernel heap  liballoc         pcie.c: new page tables
   |      (kmalloc)    (malloc)                  |
   |                     ^              configuration space, BARs, MSI-X
   |                     |                       ^
   |                     +--- console and        |
   |                     |    graphics           |
   +---------------------+-----------------------+
```

All arrows are calls. The page pool and the page tables are what several
components share. The allocators' models therefore include the pool and an
action for what its other users take between two calls, and `Kernel` composes
boot code, pool, page tables, PCI Express and descriptors in the order of
`kernel_main`. What the kernel reads through an address of the configuration
space goes through the page tables that the model has built so far.

## The modules

| module | what it is | code |
|---|---|---|
| `Memory` | the pool's two globals as a record, its functions as operators | `memory.c` |
| `PagePool` | the pool as a state machine with all its callers | `memory.c` |
| `MemoryLemmas` | what `memory_alloc_pages` and `align_up` return, proved | |
| `PagePoolProofs` | theorems about `PagePool` | |
| `Allocator` | the abstract specification of an allocator | |
| `Heap` | the kernel heap, one action per loop iteration | `heap.c` |
| `HeapProofs` | the heap's inductive invariant, what follows from it, the refinement of `Allocator` included | |
| `Liballoc` | `malloc` and `free`, one action per loop iteration | `liballoc.c` |
| `LiballocProofs` | what the operators on boundary tags and free lists do, liballoc's inductive invariant, what follows from it, the refinement of `Allocator` included | |
| `Console` | the console's buffers, ring and view, and what is drawn and shown | `stdio.c`, `graphics.c` |
| `ConsoleProofs` | what each function of the console keeps, and theorems about `Console` | |
| `Printf` | the two format state machines side by side, next to what C prints | `stdio.c` |
| `PrintfProofs` | what the loops over digits print, and theorems about `Printf` | |
| `Strings` | every function of the string library on a small memory | `string.c` |
| `StringsProofs` | theorems about every function of the string library | |
| `Paging` | page tables: those of the boot code, the loops that add to them, the processor's walk | `main.asm`, `pcie.c` |
| `Pcie` | ECAM mapping, enumeration, BARs, the MMIO window, MSI-X | `pcie.c` |
| `Interrupts` | segment and interrupt descriptors, the stubs | `gdt.c`, `idt.c`, `isrs_gen.c` |
| `Kernel` | boot code and `kernel_main`, composing the three before | `main.asm`, `main.c`, `vbe.c` |
| `KernelProofs` | theorems about `Kernel` | |
| `MC...` | constants for TLC | |

### How state and actions correspond to the code

**Memory, PagePool.** `pool` is `[next |-> g_next_page, limit |-> g_page_limit]`.
`memory_alloc_pages(g, n)` returns the new globals and the pointer; it contains
the lazy call of `memory_init`. Addresses are numbers and their arithmetic is
modulo `UINTPTR_MOD`. The actions `MemoryInit`, `AllocPages`, `AllocFrame` and
`FreePages` are the functions with these names, seen by a caller; `halted` is
the `cli; hlt` loop of `allocate_physical_frame`. `grants`, `granted`, `held`
and `refused` are histories the code does not have: they record what it
returned, so that the properties can speak of it.

**Heap.** `hdr` maps the address of each header that is on the list to its
`size`, `is_free` and `next`. The loop of `kmalloc` is `KmallocSkip`,
`KmallocTake` (with `cut`, the split) and `KmallocFail`; the loop of `kfree` is
`CoalesceMerge`, `CoalesceAdvance` and `CoalesceDone`; `Krealloc` covers the
early returns of `krealloc` and the start of its `kmalloc`, `KreallocCopy` what
follows that. `current` is the loop
variable and `req` the call's arguments. `heap_initialize`, which every call of
`kmalloc` makes, is part of the action that starts it. A header that has been
merged is not in `DOMAIN hdr` any more, so a loop that followed a stale `next`
pointer would leave the domain: `TypeOK` says it never does. `live` is what
callers hold, and remembers for each pointer the raw pointer in the word in
front of an aligned one.

**Liballoc.** `arena.tags` maps the address of each boundary tag to its fields,
`arena.l_freePages` is the array of list heads. `class` is the code's `index`
computation with `getexp`. `insert_tag`, `remove_tag`, `melt_left`,
`absorb_right`, `split_tag` and `allocate_new_tag` are the functions of the
same name, as operators on the arena. The search of `malloc` is `SearchSkip`,
`SearchTake` and `SearchEnd`; `free` is `Free`, then `MeltLeft` until
`MeltLeftDone`, then `AbsorbRight`, and ends in `FreeList` (the block goes on a
list) or `FreeChunk` (the chunk goes back). `realloc` is `Realloc`, then the
search, then `ReallocCopy`, which is followed by the loops of `free`; `calloc`
is `Calloc`, the search, and `CallocClear`.

**Console.** `con` is a record of the globals of `stdio.c` and `graphics.c`:
the cursor, the size, the three buffers (each with a pointer that is null, live
or freed), the ring's `start`, `count` and `view`, and the pictures `drawn` (in
the back buffer if there is one) and `shown` (in the frame buffer), kept per
character cell with the two palette entries a cell is painted with. Functions
of `stdio.c` are operators on this record, named alike. `kputc` of anything but
a tab is one step (`Put` is its switch, `Settle` what follows it); a tab is a
loop, `TabStep` and `TabDone`, because its bound moves with the cursor. `Kputs`,
`KputsChar` and `KputsEnd` are `kputs`, and `kprintf` as far as it is `kputc`
with `g_ConsoleAutoSwap` off. `console_initialize` is `AllocShadow`,
`AllocBackup`, `AllocScrollback` and `FillBuffers`: between them the messages
for failed allocations are written (`MessageStep`), while some globals are new
and some old. `malloc` is abstracted to succeed, with junk in the memory, or to
fail. `wild` records an access to a buffer that is freed, missing or too small;
after one the console is not followed further. `lines`, `entry`, `mixed`,
`synced` and `raw` are histories: the lines that scrolled off, the picture when
the view was entered, whether text was written into the view, whether all of
the screen was drawn since the buffers changed (and every cell since where it
is stored), and whether a caller drew something and has not swapped. Left out are single pixels, the
rest of the screen beside the last whole cell (it stays black), the software
cursor (`setcursor` does nothing) and calls of `scrollback` for more than one
line, which the kernel does not make.

**Paging.** `vm.tables` maps the physical address of each page table to the
entries that are present. `map_large` and `map_small` are one iteration of
`map_pcie_ecam_2mb` and of `map_mmio_region`; the three "if not present,
allocate" blocks of each are `table_below`. A page comes from the pool of
`Memory`. `translate` is the processor's walk, not code of the kernel. The
second loop takes whatever entry it finds at level 2 for a page table; when the
entry maps a large page its write lands in that page, recorded in `stray`.

**Pcie.** A machine (MCFG entries, functions with their BARs, capabilities and
bridge registers) is chosen in `Init`. `config` holds the registers that the
driver writes. The recursion of `pcie_enumerate_devices` is `stack`, a call
being the record of its loop variables; `Probe` and `Visit` are the heads of its
inner loops, `Bridge` the recursive call and `Return` its end. A loop over six
BARs is `SizeBar` (all ones written), `Restore` and `MapBar` per BAR, so that
interrupts strike while a BAR is overwritten. `MapRange` is what
`pcie_map_bar_for_device` and `pcie_map_phys_mmio` share, `MapMmio` an
iteration of `map_mmio_region`. MSI-X is `MapMsixTable`, `ProgramEntry` per
entry and `EnableMsix`. An access to an address that is not mapped has no step:
the processor faults, the stub of the page fault takes the error code off the
stack into `rax`, which it does not save, and returns to the instruction. What
the kernel does from there on is not modelled. So `BootEnds` also says that every
access is mapped, with the one exception it names: `BeyondIdentity`, an MSI-X
table whose address in the window is behind the memory that boot mapped (finding
3). The machine `Crowded` gets there.

Bits of a BAR below its size are wired to its flags, so a register is the value
the firmware left and what it reads after all ones (`Register`). A BAR for ports
may have a register of 16 bits, the upper half being wired to 0 (`io16`): PCI
allows that, and the driver takes such a BAR for one of nearly 4 GiB
(`size_found`). What is wired in the bus numbers and windows of a bridge is left
to the machine. Left out are the status bits beside a window, which a write of
all ones clears.

**Interrupts.** Gates keep the split of an address into 16, 16 and 32 bits, the
descriptor of the TSS that into 16, 8, 8 and 32; a number of 16 bits is a number
below `HALF`, which is `OCTET` squared. `Strike` is the processor delivering an
interrupt between two kernel steps: it pushes a frame, and an error code for some
vectors. `Pop` and `Iretq` are a stub's instructions. `DescriptorsServe` is about
the stack, not about registers: `Pop` loses the `rax` of what was interrupted,
after which the model goes on as if nothing had been in it.

**Kernel.** `pc` is where the kernel is. `Checks` and `SetupPageTables` are the
boot code; then one action per call of `kernel_main`, one per tag for the two
walks, and `PcieStep` for each step of `initPcie`. In `"idle"` the actions
`EnableDevice`, `MapResource` and `SwitchGate` are what drivers may call, which
this kernel does not have yet. `malloc` is what it takes from the pool.

**Printf.** `k` and `v` are the locals of `kprintf` and of `vsprintf` (and so
of `sprintf`); a step feeds both the next character of one format, which is made
up on the way, with an argument of 64 bits at the end of each conversion that
takes one. `conversion` is the part of the format since its `%`. A step gives a
text, `kout` or `vout`: both printers print a conversion when they reach its
last character, so texts can be compared step by step. C's side is written from
place values and type widths, not from the printers' loops.

**Strings.** One step per turn of a loop; eight bytes at once are `CHUNK`
bytes. `call` is the function called, `job` the `memset`, `memcpy` or `memmove`
that works for it. `old` and `start` are the memory when these began, the
histories that the properties need. A caller keeps C's rules: ranges lie in
memory, strings end, and only `memmove` gets overlapping ranges.

**Allocator.** A caller of any allocator sees only `live`: which pointers it
holds and how many bytes each has. `Heap!ImplementsAllocator` maps `live` to
the sizes callers asked for, `Liballoc!ImplementsAllocator` likewise. The
abstract steps are `Allocate`, `Release`, `Resize` and `Move`; all steps inside
a call are stutters. A double allocation, an overlap, a pointer outside the
pool, or a lost block is a step that `Allocator` does not have. It does have
`Release` at any time, so a `realloc` that fails and takes the old block with it,
as liballoc's does, is allowed; that the heap's `krealloc` keeps the old block is
`LiveOwnBlocks`, since the caller still holds its pointer.

### Data left out

Payload bytes, the magic number in a boundary tag (it never changes in a legal
sequence of calls), the text of messages, and the debugging code that the build
does not compile. Callers are modelled as correct: they free what they hold,
the way they got it. Sizes are bounded (`SizeAssumption` in both modules) so
that no 32-bit sum wraps. The pool has 4 MiB, so a larger request should fail.
Those of nearly 2^32 bytes and more are left out, and they need not: of their
rounded size only the lower 32 bits are kept (`heap.c:53` masks with an `unsigned
int`, `liballoc.c:237` takes one), so a block far too small may be handed out.
Integers keep their width all the same: the masks and sums are taken modulo
`UINT_MOD` and `UINTPTR_MOD`, and the proofs have to show that nothing is lost,
from those assumptions.

Also left out are calls of `heap_get_stats` with a NULL pointer for a result
(`heap.c:157-189` tests for it at each use but the last, `heap.c:187`), and a
screen of other than 32 bits per pixel, on which nothing is painted
(`graphics.c:91-94`).

## What is checked

| run | checks | bounds |
|---|---|---|
| `mc_page_pool` | grants are disjoint, refusals mean shortage | six pages, requests for zero to seven pages: the exact fit, one too many, and nothing |
| `mc_heap` | `Heap`'s safety properties, termination of every call, refinement | a page of 256 bytes, up to four pointers; sizes on both sides of every split and fit decision: nothing, one byte, a size that is rounded, a size that leaves less than a header and 16 bytes, one that fills most of the page; alignments zero, a power of two, no power of two; the other page of the pool may go to somebody else first, so `heap_initialize` fails too |
| `mc_liballoc` | `Liballoc`'s safety properties, refinement, the loops of `malloc` and `free` end | four pages of 512 bytes in chunks of two, four classes (256 bytes and up), one free chunk kept per class instead of five; up to two pointers; sizes 0 and 40 (several in a chunk), 300 (two in a chunk, and a rest) and 560 (a class of its own, more than half a chunk), and a `calloc` of more than a chunk; somebody else may take two pages |
| `mc_liballoc_null` | finds the first disagreement below | as above |
| `mc_console` | the console stays in its buffers; ring and view show what was written | a screen of 2 x 2 cells, or 1 x 1 at the larger scale, and 80 x 25 as 3 x 2; a ring of two lines; five characters in all: a letter, newline, backspace, tab, carriage return; the back buffer's allocation may fail |
| `mc_console_drawing` | picture and shadow buffer agree, all that is drawn is shown, whatever fails | three characters, cells or calls of `console_initialize` in all, with `kputchr`, `kputcolor`, refreshes, double buffering on and off; each of the four allocations may fail each time |
| `mc_console_freed` | finds the second disagreement below | three characters |
| `mc_kernel` | `Kernel`'s properties, from the boot checks to idle and the drivers after | tables of eight entries (so 1 GiB is 1024 and a bus has 64 addresses), two devices of two functions on a bus, a byte of eight values, five vectors' worth of entries for four vectors; seven machines, named in `MCKernel`: ports and memory, 64-bit BARs of less and more than 4 GiB, 16-bit ports and 8 GiB of memory ahead of an MSI-X table, a bridge, bridges behind a bridge side by side and in a row, one the firmware left unset (with memory windows and without, with and without a latency timer), no segment; capability lists that end, and one that is a circle; tags in four orders; three processors; one interrupt, with or without an error code |
| `mc_kernel_returned` | finds the third disagreement below | as above |
| `mc_kernel_slots` | finds the fourth | as `mc_kernel` |
| `mc_printf` | both printers print what C prints | all formats over 15 characters with two width digits, ten argument values at the edges of the types (16, 64, 256 and 4096 values instead of 2^8 to 2^64), two texts, four doubles |
| `mc_strings` | every function of `string.c` does what C says and ends | 12 bytes, chunks of 4, six pointers on all alignments, seven lengths with up to two chunks; three memories of distinct bytes and all short strings over a terminator, a letter and a byte above 127 |

A page of 256 bytes holds up to six blocks, so three neighbours can be merged
from either side, in any order of the frees, and a split can leave each
kind of rest; a larger page repeats these. Two chunks of liballoc are enough for
a list with blocks of different chunks, and one chunk kept is enough for both
outcomes of the decision to give a chunk back.

Five characters scroll a screen of two lines more often than its ring of two
lines can hold, so that the ring wraps; on one line and one column every
character wraps and scrolls. What depends on the width is only the wrapping and
the index of a cell, and a width of three before initialisation, two and one
are all there.

The machines of `mc_kernel` are the smallest with the case in question: an odd
number of buses leaves half a large page over, three levels of bridges bring
the recursion back twice in a row, five MSI-X entries make a counter of four
vectors start over. Six ranges let drivers map after a boot that mapped some.
All its machines' segments start at bus 0; `MCKernel` has TLC evaluate that.

The state of the printers' locals is all that one conversion can leave to the
next, and every reachable state is met with every character, so formats are not
bounded in length; only a width is.

Deadlock is checked in the runs of the allocators, the printers and the
strings. It is not in that of the page pool and of the kernel, where the
machine may halt, and of the console, where text is bounded and a console that
left its buffers is not followed.

**Fairness.** The allocators' and the string library's `FairSpec` adds weak
fairness of the steps inside a call, nothing else: the kernel has one processor,
so a call that has begun runs until it returns, and nothing forces a caller to
make another. `Kernel!FairSpec` has weak fairness of the kernel's own steps and
of the stub that serves an interrupt: while one is served the kernel waits,
`MaxStrikes` bounds how often one strikes, and drivers are under no obligation.

**Findings.** Four are shown by runs:

1. `malloc` looks only at the list for the class of the size it was asked for,
   so it returns NULL (or takes another chunk) while a block of a larger class
   is free. With the build's constants every `malloc(32)` takes 16 pages.
2. When `console_set_font_scale` cannot allocate the new shadow buffer, the
   message about it is written into the freed one.
3. `pcie_map_phys_mmio` and `pcie_map_bar_for_device` return addresses that do
   not lead to the resource. During `initPcie` the root table is not known, so
   nothing is mapped, and MSI-X entries are programmed in memory at the address
   returned - or, when BARs that were found before take more than the 5 GiB from
   there to the end of what boot mapped, at an address that is not mapped
   (`pcie.c:499`), where boot does not get on. A BAR of 8 GiB is enough for that,
   and so are two that are taken for nearly 4 GiB: ports of 16 bits, or the bus
   numbers of a bridge whose latency timer is wired to 0. The window's start, `PCIE_VIRTUAL_BASE` + 4 GiB, wraps to
   3 GiB, which boot has mapped to itself in large pages; a mapping made later
   takes such a page for a page table and writes into it.
4. All six slots of a function are read, sized and mapped, so the upper register
   of a 64-bit BAR, or a bridge's bus numbers and windows, are taken for BARs. They
   get addresses of the window; one whose low bits say 64-bit memory is given a size
   near that of the address space, after which the window's counter has wrapped
   and ranges overlap. This came out of the proof that ranges do not.

Others were seen while modelling, each plain from one line or shown by one test,
and no run is spent on them:

* For a segment whose start bus is not 0 the start bus is counted twice, once
  in `ecam_virt_base` (`pcie.c:112`) and once by `get_pcie_config_addr`
  (`pcie.c:137`). The first access misses the mapping and faults.
* The size of a BAR for ports whose upper 16 bits are wired to 0, as PCI allows,
  comes out nearly 4 GiB too large, because `pcie.c:316-324` complements all 32
  bits; the plan at `pcie.c:335` is to "Read and size every BAR correctly".
  `BarsRight` says which size is found, for these too.
* `ISR_ERRORCODE` pops the error code into `rax`, so an exception that pushes one
  comes back with another `rax` than it struck at (`isrs_gen_asm.inc:7`).
* `kmalloc` of 2^32 - 15 bytes and more loses the upper bits of the rounded size
  (`heap.c:53`) and may succeed; so may `malloc` (`liballoc.c:237`).
* `memory_free_pages` does nothing, while `liballoc_free` reports success and
  `memory.h` says it frees: what liballoc gives back is lost.
* `realloc` does not check `malloc`'s result: it copies to address 0 and then
  frees the caller's only copy. `calloc` clears address 0 likewise.
* A failed allocation of the scrollback buffer is only warned about, but then
  `scrollback` leaves the cursor below the screen, and text is stored behind
  the shadow buffer (`Failures` of `mc_console` has the back buffer only).
* `console_initialize` leaves the cursor where it is. On a screen that has become
  narrower or lower than that, the next character is stored in a cell of another
  line, or behind the shadow buffer, and drawn nowhere. `main.c:80` has its only
  call from outside in a comment; `console_set_font_scale` goes on to `clrscr`.
* After `console_initialize` the colours in the shadow buffer are 0, and
  `kputc` keeps a cell's colour: text is black on black until a line scrolls or
  `clrscr` is called. A change of the font scale inside the scrollback view
  keeps the view while its backup is new and never filled.
* `kprintf` reads 32 bits with their sign for every length but `ll`: `%u` of
  2^31 and more, `%x` and `%p` of such values, and `%ld` of large ones print
  something else. `%h` values are not cut to their type. `KprintfTells` names the
  values that do print right.
* `vsprintf` never leaves the state after an `h` or an `l`, has no `%o` and
  `%p`, reads 64 bits for every number, and puts spaces between sign and digits
  (`VsprintfTells`, `handled`).
* Buses behind a bridge that the caller's range includes are enumerated twice,
  and their functions are in the table as often.
* `gdt.h` gives 0x28 for the TSS, where ring 2 code is; the code loads 0x48.
* `check_long_mode` refuses a processor whose highest extended leaf is the one
  that it goes on to read.
* `kprint_buffer` does not end for 65536 bytes and more.

## What is proved

For every page size, pool size, end of the kernel, set of requests and bound
on the pointers held that satisfy the modules' named assumptions:

* `PagePoolProofs`: the pool's types, `GrantsDisjoint`, `RefusedOnlyWhenShort`,
  `HaltOnlyWhenExhausted`. That grants are disjoint is not inductive: a new
  grant starts at `g_next_page`, so the invariant says that all earlier ones
  end at or before it, and that it counts exactly the pages granted
  (`PoolInv`), which is also why a refusal means shortage.
* `HeapProofs`: the invariant `IndInv` of the heap. The invariants that are
  checked (`BlocksTile`, `LiveOwnBlocks`, `NoFreeNeighbours`, `FirstFit`) are
  not inductive by themselves. `PoolOK` says where the heap's page is, so that
  other users of the pool cannot touch it and no address wraps; `HeapFresh`
  covers the time before `heap_initialize`; `ReqOK` says what a call relies on
  between its steps: that `krealloc`'s old block is still in use, smaller than
  what is asked for and not the block it just got. `NoFreeNeighbours` speaks of
  the blocks before `current` while `kfree`'s loop runs; that the free made at
  most the block's own neighbours mergeable is what makes one pass enough.
  Each of those invariants is a theorem of `Spec`; so are
  `HeapAllFreedIsFresh`, from the tiling and the absence of free neighbours;
  `HeapOwnedBlocksUntouched`, an action property; and
  `HeapImplementsAllocator`, the refinement: `LiveChanges` says what a step
  does to the pointers held, `LiveSeparate` that two pointers' bytes never
  overlap, `TakenIsNew` that a block just taken belonged to nobody, and
  `StepImplements` puts each action against an abstract step or a stutter.
  `HeapStatsAddUp` is about sums over sets, which the community modules add up
  recursively: `SmallestSet` replaces an induction, and from it follow that the
  order does not matter (`SumRemove`), that disjoint parts add up (`SumParts`)
  and that what goes into larger things one by one is no more than they are
  (`SumInto`); the blocks in front of an address fill what is there (`Filled`).
* `StringsProofs`: `CopiesRight`, for every memory, chunk size and length.
  `IInv` follows the loops: what is behind the pointers has its new value and
  everything else the old one (`ForwardInv`, `BackwardInv`), and a job that goes
  forward does not write what it has yet to read (`JobSound`). `ScanInv` and
  `FillInv` say why the copy after a scan, and the zeros after a copy, still
  lie in what the caller gave; `TypeCorrect` then says that no loop leaves it.
  `CallsRight` needs `CallInv`: which part of its call the running loop serves
  (all of it, the copy of a string that was scanned, or the zeros behind it),
  so that what the last loop leaves is what the call is for. `LooksRight` needs
  `LookInv`: what a comparison or a search has passed does not decide its
  answer. A string's length is unique (`LengthFound`), so a loop that stops at a
  terminator has seen all of it.
* `ConsoleProofs`: all properties of `Console` that runs find true. Most of the
  work is about the operators, each of which keeps a record `Sound` and changes
  only the fields it names (`Same`): types and sizes (`Shape`, `Buffers`), the
  backup as the view was entered (`Saved`), the ring (`Newest`), the picture
  (`Picture`). What needs care is arithmetic: a row and a column have an index
  of their own in the buffer, and a ring's entries have rows of their own.
  - `Inv` gives `PictureMatches`, `DrawnShown`, `RingKeeps` and `ViewRestores` for
    all constants, allocations that fail included. Beside `Sound` it says what
    the steps of `console_initialize` rely on: which buffers have been replaced
    (`Owned`), and that while they are, the sizes are new and no picture counts
    as drawn (`Unfinished`); and where screen and picture agree (`Displayed`).
  - `Whole` gives `WithinBuffers`: the console has all its buffers and the cursor
    on a cell, or no buffers yet.
  - `Remembered` gives `HistoryShown`: rows of the ring below the lines that
    scrolled off are blank (`RowsBlank`), which is why a new ring with the
    count of the old one shows nothing wrong, and the shadow buffer holds what
    the view is to show (`Viewed`), in whatever colour it is drawn again.
* `LiballocProofs`: all safety invariants of `Liballoc` and its
  refinement. The inductive invariant `IndInv` is `Types`; `Pooled` (the pool has
  given out whole pages, from the kernel's end on); `Good(arena)`: the tags tile
  the chunks and their split links lead to the neighbours (`Sound`, which also
  ranks the tags of a list so that none goes in a circle), every free block is
  on the list of its size (`Classed`), and no two free blocks touch (`Apart`);
  `Counted` (a list's count of whole chunks is the number it has); `Owned` (who
  owns each block in use); and `Calls`, what a call in progress relies on. `TagsTile`,
  `ListsSound` and `NoFreeNeighbours` depend on each other: a block can be melted
  only since the tags on both sides are tags, and taken off its list only since
  it is on the one for its size. The lemmas say of each operator (`insert_tag`,
  `remove_tag`, `melt_left`, `absorb_right`, `split_tag`) that it leads from one
  good arena to the next; between two turns of `free`'s loops the block in hand
  is on no list, and is the only one whose neighbours may be free.
  `LiballocImplementsAllocator` is the refinement; `realloc` is a step `Move` of
  the abstract allocator at `ReallocCopy`, where the old pointer is given up, not
  at the return - or a step `Release`, when `malloc` gave NULL.
* `PrintfProofs`: both properties of `Printf`, for every size of the C types with
  CHAR, SHORT, INT and LONG each a multiple of the one before, every set of
  arguments, any number of digits in a width and one decimal or more. Two parts:
  - `FormatsKept` has the inductive invariant `IInv`. For `kprintf` it is an
    equation: its locals are `fresh` between conversions, and in one what the
    characters so far set (`LocalsOf`), whatever was converted before. `vsprintf`
    resets nothing but what a `%` resets, so its locals are only bounded, but for
    those that matter in the conversion in hand (`InStep`), or it is `Stuck` in a
    length, which it has no case for. `Spelling` is the grammar of a conversion:
    one kind of length, and a width that has not outgrown its digits.
  - What a conversion prints is a matter of operators, since a step of the model
    prints a whole number. `DigitsRight`: storing the remainders of a division by
    the radix until nothing is left, and reversing them, gives the place values
    of the number, as many as it has places. `FloatPrinted`: the decimals cut
    off one after the other are those of the quotient by a power of ten.
    `KprintfValue`: the casts of an argument of 64 bits give its value in C
    as far as `KprintfTells` says. Padding is compared as text.
  These are inductions over numbers. The library's theorems for that take an
  operator as a parameter, so they go by the least number for which a recursive
  function would be wrong, or not defined (`LeastNumber`, `PowersExist`,
  `LowsExist`, `WidthsExist`). `Printf` has recursive functions over finite
  domains for this, and `Power` for `^`, of which the provers know only the name.
* `KernelProofs`: all safety invariants of `Kernel`.
  Each rests on invariants of its own, in layers, the later using the earlier:
  - `LoopInv` says where the inner loops return to and what their locals hold,
    `VectorInv` counts vectors back from the counter (`VectorsSound` alone says
    nothing of the next one), `BootPoolInv` and `InterruptInv` give
    `InfoReadBeforeReused` and `DescriptorsServe`.
  - `WalkInv` gives `TagsFound`: what has been found, in terms of the tags
    behind the current one.
  - `BarInv` gives `BarsRestored`: every register holds what the firmware
    assigned, except those of the BAR in hand between the ones written to it and
    the write that restores it; what they held is then in the locals.
  - `VmInv` gives `IdentityKept`: every table has a level and one parent, none is
    above the pool's next page, and the entries of boot are in it. A new table
    is a page that nothing leads to, and no entry of boot is replaced. Large
    pages are boot's, or hang below the root's entry for the configuration space
    (`LargeApart`), which is the root's last.
  - `EnumInv` is what enumerating relies on: the root table's pointer is null
    during `initPcie` (`RootInv`), the calls on the stack are in their ranges
    and a function in hand is mapped (`StackInv`), the slot in hand is being
    sized (`SizingInv`), and the table has records of the right shape
    (`TableInv`).
  - `EcamInv` gives `EcamTranslates`: after `n` turns of `map_pcie_ecam_2mb`
    exactly the first `n` large pages of the space are mapped, by one table at
    each of two levels; nothing else is mapped until `initPcie` returns.
  - `RightInv` gives `BarsRight`: bases and sizes are what they should be up to
    the slot in hand. That the arithmetic of `pcie_get_bar_size` gives back the
    size, and by how much it is off for ports of 16 bits, is a lemma about all
    powers of two (`BarAnswered`).
  - `RangesInv` gives `RangesDisjoint`: ranges lie behind one another and are at
    most seven per device and `MaxRanges` from drivers, so the counter does not
    come back to the configuration space.
  - `WindowInv` gives `WritesMissKernel`: the loops that write through the window
    are inside it. An address of the window below the root's last entry that
    meets a large page meets one of boot's, so the access goes to the page of
    that very number, from 3 GiB on, where the kernel and its pool have long
    ended. This is why the model need not say what a write that went astray
    changes: `vm.stray` and `bus_memory` only record it, and the theorem says
    that none of it was a page table.
  - `WalkedInv` and `MsixInv` give `EveryFunctionRecorded`. The first call of
    `pcie_enumerate_devices` goes through all buses of the segment by itself, so
    `WalkedInv` is about where that call is, whatever calls for bridges are on
    top of it: it has recorded all it has been past, and what bridges lead to
    comes on top of that (nobody looks whether a function is in the table already,
    so such a function may be in it twice). `MsixInv` has MSI-X on in every function in the
    table that has it, but the last one while that is in hand; that
    `pcie_find_capability` finds the entry wherever in the list it is goes by
    the least entry at which the search and the list would part (`LeastNumber`).

What these assume is in the modules as named assumptions, each as the hardware
or the loader has it: `WellFormed` and `BlockOf` what the PCI specification says
of a function's registers (a BAR is a power of two, aligned to its size, smaller
than what its registers address; ports may have 16 bits; the bus numbers and the
windows of a bridge are not all ones), `LaidOut` how a multiboot2 loader lays out
tags, `KernelAssumption`, `PcieAssumption` and `PagingAssumption` the relations
between the sizes (a table fills a page, a bus is a whole number of pages and at
most all buses fit one entry of the third level; kernel and pool end below
3 GiB, the pool being 4 MiB behind a kernel linked at 1 MiB).
Seven theorems have hypotheses beside the specification, five about `Kernel` and
two about `Console`:

* `KernelReachesFunctions` and `KernelSizesBars` have `OneSegment`: at most one
  MCFG entry, from bus 0, at an address a large page can have. The code takes
  that for granted, and without it the properties are false (the start bus is counted
  twice, as noted above).
* `KernelRecordsFunctions` has `OneSegment` too, and what PCI asks of functions
  that are to be found: `FunctionsAnnounced` (they are on a bus of the segment;
  function 0 of their device is there and says if there are more, which is what
  the code asks it for) and `MsixReachable` (a list of capabilities leads to its
  own entries, and to MSI-X within the 64 the code follows; the BAR that MSI-X
  names has been assigned). Every machine of `mc_kernel` has all three, which TLC
  evaluates there (`SegmentsAssumption`). It also has `RoomFor(largest)`, as next:
  without room for the table of MSI-X the code gives up before it switches it on.
* `KernelKeepsRangesApart` has `RoomFor(largest)`: every slot that is mapped,
  every MSI-X table and every resource is at most `largest` long, and the window
  has room for all of them at that length. It is about slots, not BARs, because
  of finding 4. With `largest` 8192 it holds in every state of `mc_kernel`.
* `KernelWritesMiss` has that, and that the window so filled ends below the
  root's last entry (`LowEnd`), which is at 255.5 TiB. With `largest` 512 both hold
  on every machine of `mc_kernel` but three, on which a slot is larger than that
  and the small instance has too few addresses: the two with a BAR of 8 GiB and the
  one with a bridge whose latency timer is wired to 0. There only the run shows it.
* `WithinBuffers` has `Reliable`: no allocation fails but that of the back
  buffer, and nobody calls `console_initialize` but `console_set_font_scale`, as
  in the kernel. Without the first it is false by finding 2 and by what was
  noted of the scrollback buffer, without the second by what was noted of the
  cursor. `mc_console` has the same two restrictions.
* `HistoryShown` has that the allocation of the ring does not fail: a view with no
  ring shows nothing. The others may fail.

Some theorems no run checks: the pool's types and `HaltOnlyWhenExhausted`, the
heap's `TypeOK` (with which the cursors of `kmalloc` and `kfree` are on the list
whenever they read a header), `AllFreedIsFresh` and `OwnedBlocksUntouched`, and
the types of `Strings`, `Liballoc` and `Console`. They say more than a run would.

Only model-checked:

* that calls return (`CallsReturn`) and that boot ends (`BootEnds`): liveness is
  beyond the proof system.

## What is not modelled, and the plan

1. `KernelMemory`: heap and liballoc drawing on one pool, from the two modules.
   Each has the other's requests as an action of its own already.
2. `draw_line`, as an algorithm: that its error term leads to the end point.

Not modelled: `vbe_put_pixel` and `draw_pixel` beyond the console's cells (a
bounds check and a store); `apic.c` and `x86_64_TSS_SetStacks`, which nothing
calls; `kprint_buffer`, which is calls of functions that are modelled, and the
`sscanf` stub; the mode switches of the boot code and its printing of an error
letter; the empty AHCI driver, the commented-out splash screen, the font table,
build files, and the wording of messages. Vendor, device and class codes,
checksums and signatures of ACPI tables are left out: nothing but a bridge's
class changes what the code does, and tables are the firmware's own.
