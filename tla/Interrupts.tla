----------------------------- MODULE Interrupts -----------------------------
(***************************************************************************)
(* The segment and interrupt descriptors of src/arch/x86_64/interrupts     *)
(* (gdt.c, idt.c, and isrs_gen.c with the stubs of isrs_gen_asm.inc, which *)
(* build_scripts/generate_isrs.sh generates), and the processor as far as  *)
(* it uses them: an interrupt pushes a frame and enters the stub its gate  *)
(* names; the stub takes the error code off the stack and returns.         *)
(*                                                                         *)
(* An address of 64 bits is four fields of 16 bits, digits below HALF, and *)
(* one of these is two of 8, digits below OCTET.                           *)
(***************************************************************************)
EXTENDS Naturals, Sequences

CONSTANTS
    OCTET,          \* 2^8
    INTERRUPTS,     \* 0..255
    x86_64_ISR_ASM, \* the addresses of the stubs, by vector
    g_TSS,          \* the address of the task state segment
    Strikes,        \* the vectors that may strike
    MaxStrikes      \* bound: how often one strikes

HALF == OCTET * OCTET     \* 2^16

ASSUME InterruptsAssumption ==
    /\ OCTET \in Nat \ {0, 1} /\ INTERRUPTS \subseteq Nat /\ Strikes \subseteq INTERRUPTS
    /\ g_TSS \in Nat
    /\ x86_64_ISR_ASM \in [INTERRUPTS -> 0..(HALF * HALF * HALF * HALF - 1)]
    /\ \A v, w \in INTERRUPTS : x86_64_ISR_ASM[v] = x86_64_ISR_ASM[w] => v = w
    /\ MaxStrikes \in Nat

VARIABLES
    gdt,     \* the descriptor table loaded, by selector
    tr,      \* the selector in the task register
    idt,     \* the gates loaded, by vector
    cpu,     \* "none" or the stub running, and the words on its stack
    strikes  \* how often an interrupt has struck

interrupt_vars == <<gdt, tr, idt, cpu, strikes>>

Low(a)  == a % HALF
Mid(a)  == (a \div HALF) % HALF
High(a) == a \div (HALF * HALF)

(*---------------------------- global descriptors -------------------------*)

Segment(kind, ring) == [kind |-> kind, ring |-> ring]

(* g_GDT: code and data of each ring, and the TSS in two slots, with its   *)
(* base in four fields of 16, 8, 8 and 32 bits.                            *)
g_GDT(base) ==
    [s \in {8 * k : k \in 0..9} |->
        CASE s = 0      -> Segment("null", 0)
          [] s = 72     -> [kind |-> "tss", ring |-> 0, BaseLow |-> Low(base),
                            BaseMiddle |-> (base \div HALF) % OCTET,
                            BaseHigh |-> (base \div (HALF * OCTET)) % OCTET,
                            BaseUpper |-> High(base)]
          [] s # 72 /\ s % 16 = 8 -> Segment("code", (s - 8) \div 16)
          [] OTHER      -> Segment("data", (s - 16) \div 16)]

(* x86_64_GDT_Initialize: ltr takes the selector of the TSS.               *)
GDT_Initialize ==
    /\ gdt' = g_GDT(g_TSS)
    /\ tr' = 72
    /\ UNCHANGED <<idt, cpu, strikes>>

(*--------------------------- interrupt descriptors -----------------------*)

(* x86_64_IDT_SetGate: the gate for a stub at address base.                *)
SetGate(base, selector, ring) ==
    [BaseLow |-> Low(base), SegmentSelector |-> selector, BaseMid |-> Mid(base),
     BaseHigh |-> High(base), ring |-> ring, present |-> TRUE]

(* x86_64_ISR_InitializeGates: programs may raise vector 128 themselves.   *)
Gates == [v \in INTERRUPTS |-> SetGate(x86_64_ISR_ASM[v], 8, IF v = 128 THEN 3 ELSE 0)]

IDT_Initialize ==
    /\ idt' = Gates
    /\ UNCHANGED <<gdt, tr, cpu, strikes>>

(* x86_64_IDT_EnableGate and x86_64_IDT_DisableGate.                       *)
SwitchGate(v, on) ==
    /\ v \in DOMAIN idt
    /\ idt' = [idt EXCEPT ![v].present = on]
    /\ UNCHANGED <<gdt, tr, cpu, strikes>>

(*-------------------------------- the stubs ------------------------------*)

(* The exceptions for which the processor pushes an error code.            *)
PushesErrorCode == {8, 10, 11, 12, 13, 14, 17, 21, 29, 30}

(* Mutant: the list of an older processor.                                 *)
ISR_ERRORCODE_OF_386 == {8, 10, 11, 12, 13, 14}

(* The vectors whose stub is ISR_ERRORCODE.                                *)
ISR_ERRORCODE == {8, 10, 11, 12, 13, 14, 17, 21, 29, 30}

Frame == <<"ss", "rsp", "rflags", "cs", "rip">>
Running == [at |-> "none", stub |-> {}, words |-> <<>>]

Target(gate) == gate.BaseLow + gate.BaseMid * HALF + gate.BaseHigh * HALF * HALF
Stub(gate) == {v \in INTERRUPTS : x86_64_ISR_ASM[v] = Target(gate)}

(* An exception or interrupt strikes between two steps of the kernel.      *)
Strike(v) ==
    /\ v \in DOMAIN idt /\ idt[v].present
    /\ cpu = Running /\ strikes < MaxStrikes
    /\ cpu' = [at |-> "stub", stub |-> Stub(idt[v]),
               words |-> Frame \o (IF v \in PushesErrorCode THEN <<"error">> ELSE <<>>)]
    /\ strikes' = strikes + 1
    /\ UNCHANGED <<gdt, tr, idt>>

(* The stub's first instruction: pop rax in ISR_ERRORCODE.  The error code *)
(* replaces what the interrupted code had in rax, and nobody restores it.  *)
(* The model follows the stack only, and the kernel goes on as if it had   *)
(* nothing in rax.                                                         *)
Pop ==
    /\ cpu.at = "stub"
    /\ cpu' = [cpu EXCEPT !.at = "iretq",
                          !.words = IF cpu.stub \subseteq ISR_ERRORCODE
                                    THEN SubSeq(@, 1, Len(@) - 1) ELSE @]
    /\ UNCHANGED <<gdt, tr, idt, strikes>>

Iretq ==
    /\ cpu.at = "iretq"
    /\ cpu' = Running
    /\ UNCHANGED <<gdt, tr, idt, strikes>>

InitInterrupts ==
    /\ gdt = [s \in {} |-> Segment("null", 0)] /\ tr = 0
    /\ idt = [v \in {} |-> SetGate(0, 0, 0)]
    /\ cpu = Running /\ strikes = 0

(* Where the processor finds the TSS that a descriptor is for.             *)
TssBase(d) ==
    d.BaseLow + d.BaseMiddle * HALF + d.BaseHigh * (HALF * OCTET) + d.BaseUpper * (HALF * HALF)

(***************************************************************************)
(* Once descriptors are loaded, selectors name what they are used for: the *)
(* code segment of every gate is ring 0 code, and the task register names  *)
(* the TSS, whose address is put together again from its fields.           *)
(***************************************************************************)
SelectorsFit ==
    /\ tr # 0 =>
          /\ tr \in DOMAIN gdt /\ gdt[tr].kind = "tss"
          /\ TssBase(gdt[tr]) = g_TSS
    /\ \A v \in DOMAIN idt :
          /\ idt[v].SegmentSelector \in DOMAIN gdt
          /\ gdt[idt[v].SegmentSelector] = Segment("code", 0)

(***************************************************************************)
(* When a stub returns, the frame the processor pushed is on top of the    *)
(* stack, all of it and nothing else, whichever interrupt it was: the      *)
(* gate's address, cut into three fields, leads to the vector's own stub,  *)
(* and the stub pops an error code exactly if there is one.  The selectors *)
(* that gates and task register hold name what they are used for.  This is *)
(* not about registers: a stub that pops an error code loses rax.          *)
(***************************************************************************)
DescriptorsServe ==
    /\ cpu.at = "iretq" => cpu.stub # {} /\ cpu.words = Frame
    /\ SelectorsFit
=============================================================================
