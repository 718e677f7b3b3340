------------------------------- MODULE Strings -------------------------------
(***************************************************************************)
(* src/kernel/libs/string.c, and pcie_strncmp of pcie.c, on a small memory *)
(* of bytes.  A caller calls one function at a time; every turn of every   *)
(* loop is a step.  memset, memcpy and memmove move CHUNK bytes at once    *)
(* where they can, so what they leave in memory depends on alignment,      *)
(* overlap and length; strcpy and strncpy call them.                       *)
(***************************************************************************)
EXTENDS Integers, FiniteSetsExt

CONSTANTS
    CHUNK,        \* 8: the bytes of a uint64_t
    FIRST, LAST,  \* the addresses of the memory
    Memories,     \* what callers may have put into it
    Pointers,     \* the addresses that they pass
    Counts,       \* the lengths that they pass
    Values        \* the characters that they pass, as ints

Addr == FIRST .. LAST
Byte == 0 .. 255

ASSUME MemoryAssumption ==
    /\ CHUNK \in Nat \ {0} /\ FIRST \in Nat \ {0} /\ LAST \in Nat /\ FIRST <= LAST
    /\ Memories \subseteq [Addr -> Byte]
ASSUME CallAssumption ==
    Pointers \subseteq Addr /\ Counts \subseteq Nat /\ Values \subseteq Nat

VARIABLES
    mem,       \* the memory
    call,      \* the call that is running or has returned: fn, dest, src, n, c
    old,       \* the memory when it began
    job,       \* the memset, memcpy or memmove that works for it, likewise
    start,     \* the memory when the job began
    pc,        \* the loop that runs
    d, s, len, \* its pointers and its count
    result     \* what a function that only looks has returned

vars == <<mem, call, old, job, start, pc, d, s, len, result>>

NULL == 0
byte(value) == value % 256

(* The caller's obligations in C: the ranges lie in the memory, strings    *)
(* end, and all functions but memmove get ranges that do not overlap.      *)
Inside(at, n)   == at + n <= LAST + 1
Disjoint(p, q, n) == p + n <= q \/ q + n <= p
Ends(at)        == \E i \in at .. LAST : mem[i] = 0
IsLength(at, n) == mem[at + n] = 0 /\ \A i \in at .. at + n - 1 : mem[i] # 0

Request(fn, dest, src, n, c) ==
    [fn |-> fn, dest |-> dest, src |-> src, n |-> n, c |-> c]

---------------------------------------------------------------------------
(* The byte that a job puts at address i of its destination: it reads      *)
(* through s what is in memory when it does.                               *)
Source(i) == IF job.fn = "memset" THEN byte(job.c) ELSE mem[s + (i - d)]
Write(at, n) ==
    mem' = [i \in Addr |-> IF at <= i /\ i < at + n THEN Source(i) ELSE mem[i]]

(* memcpy uses chunks if the pointers can be aligned together.             *)
first_loop(fn, dest, src) ==
    IF fn = "memset" \/ dest % CHUNK = src % CHUNK THEN "align" ELSE "bytes"

Forward(fn, dest, src, n, c) ==
    /\ job' = Request(fn, dest, src, n, c) /\ start' = mem
    /\ pc' = first_loop(fn, dest, src) /\ d' = dest /\ s' = src /\ len' = n

to_align(at, n) == n > 0 /\ at % CHUNK # 0

Align ==
    /\ pc = "align"
    /\ IF to_align(d, len)
       THEN /\ Write(d, 1) /\ d' = d + 1 /\ s' = s + 1 /\ len' = len - 1 /\ pc' = pc
       ELSE pc' = "chunks" /\ UNCHANGED <<mem, d, s, len>>
    /\ UNCHANGED <<call, old, job, start, result>>

Chunks ==
    /\ pc = "chunks"
    /\ IF len >= CHUNK
       THEN /\ Write(d, CHUNK) /\ d' = d + CHUNK /\ s' = s + CHUNK
            /\ len' = len - CHUNK /\ pc' = pc
       ELSE pc' = "bytes" /\ UNCHANGED <<mem, d, s, len>>
    /\ UNCHANGED <<call, old, job, start, result>>

Bytes ==
    /\ pc = "bytes"
    /\ IF len > 0
       THEN /\ Write(d, 1) /\ d' = d + 1 /\ s' = s + 1 /\ len' = len - 1 /\ pc' = pc
       ELSE pc' = "done" /\ UNCHANGED <<mem, d, s, len>>
    /\ UNCHANGED <<call, old, job, start, result>>

(* memmove towards higher addresses, from the end; the chunks need not be  *)
(* aligned.                                                                *)
WriteBelow(n) ==
    /\ mem' = [i \in Addr |-> IF d - n <= i /\ i < d THEN mem[s - (d - i)] ELSE mem[i]]
    /\ d' = d - n /\ s' = s - n /\ len' = len - n

BackChunks ==
    /\ pc = "back_chunks"
    /\ IF len >= CHUNK THEN WriteBelow(CHUNK) /\ pc' = pc
       ELSE pc' = "back_bytes" /\ UNCHANGED <<mem, d, s, len>>
    /\ UNCHANGED <<call, old, job, start, result>>

BackBytes ==
    /\ pc = "back_bytes"
    /\ IF len > 0 THEN WriteBelow(1) /\ pc' = pc
       ELSE pc' = "done" /\ UNCHANGED <<mem, d, s, len>>
    /\ UNCHANGED <<call, old, job, start, result>>

(* The job is done: strncpy fills the rest of its destination with zeros   *)
(* if it copied less than n, and the call returns.                         *)
Done ==
    /\ pc = "done"
    /\ IF call.fn = "strncpy" /\ job.fn = "memcpy" /\ job.n < call.n
       THEN Forward("memset", call.dest + job.n, call.dest + job.n, call.n - job.n, 0)
       ELSE pc' = "idle" /\ UNCHANGED <<job, start, d, s, len>>
    /\ UNCHANGED <<mem, call, old, result>>

---------------------------------------------------------------------------
(* The calls.  A call begins on any of the memories: the functions keep    *)
(* nothing from one call to the next.                                      *)
Ready == pc = "idle" /\ call.fn = "none"

Calls(fn, dest, src, n, c) ==
    call' = Request(fn, dest, src, n, c) /\ old' = mem /\ UNCHANGED <<mem, result>>

Memset == Ready /\ \E dest \in Pointers, n \in Counts, c \in Values :
    /\ Inside(dest, n)
    /\ Calls("memset", dest, dest, n, c) /\ Forward("memset", dest, dest, n, c)

Memcpy == Ready /\ \E dest, src \in Pointers, n \in Counts :
    /\ Inside(dest, n) /\ Inside(src, n) /\ Disjoint(dest, src, n)
    /\ Calls("memcpy", dest, src, n, 0) /\ Forward("memcpy", dest, src, n, 0)

(* A mutant: memmove always copies forward.                                *)
Ahead_never(dest, src, n) == FALSE

Ahead(dest, src, n) == dest > src /\ dest < src + n

Memmove == Ready /\ \E dest, src \in Pointers, n \in Counts :
    /\ Inside(dest, n) /\ Inside(src, n)
    /\ Calls("memmove", dest, src, n, 0)
    /\ CASE n = 0 \/ dest = src ->
              /\ pc' = "done" /\ job' = Request("memmove", dest, src, n, 0)
              /\ start' = mem /\ d' = dest /\ s' = src /\ len' = 0
         [] ~ (n = 0 \/ dest = src) /\ Ahead(dest, src, n) ->
              /\ pc' = "back_chunks" /\ job' = Request("memmove", dest, src, n, 0)
              /\ start' = mem /\ d' = dest + n /\ s' = src + n /\ len' = n
         [] OTHER -> Forward("memcpy", dest, src, n, 0)

(* strcpy and strncpy look for the end of the source first.                *)
ScanString(dest, src, n) ==
    /\ pc' = "scan" /\ d' = dest /\ s' = src /\ len' = 0
    /\ UNCHANGED <<job, start>>

Strcpy == Ready /\ \E dest, src \in Pointers :
    /\ Ends(src)
    /\ \E n \in 0 .. LAST - src :
         IsLength(src, n) /\ Inside(dest, n + 1) /\ Disjoint(dest, src, n + 1)
    /\ Calls("strcpy", dest, src, 0, 0) /\ ScanString(dest, src, 0)

Strncpy == Ready /\ \E dest, src \in Pointers, n \in Counts :
    /\ Inside(dest, n) /\ (Ends(src) \/ Inside(src, n)) /\ Disjoint(dest, src, n)
    /\ Calls("strncpy", dest, src, n, 0) /\ ScanString(dest, src, n)

(* A mutant: strcpy copies the characters only.                            *)
copy_length_bare(length) == length

copy_length(length) == IF call.fn = "strcpy" THEN length + 1 ELSE length

Scan ==
    /\ pc = "scan"
    /\ IF (call.fn = "strncpy" => len < call.n) /\ mem[s + len] # 0
       THEN len' = len + 1 /\ UNCHANGED <<job, start, pc, d, s>>
       ELSE Forward("memcpy", call.dest, call.src, copy_length(len), 0)
    /\ UNCHANGED <<mem, call, old, result>>

---------------------------------------------------------------------------
(* The functions that only look; d and s run along their strings.          *)
Looks(fn, s1, s2, n, c) ==
    /\ Calls(fn, s1, s2, n, c)
    /\ pc' = fn /\ d' = s1 /\ s' = s2 /\ len' = n /\ UNCHANGED <<job, start>>

Look == Ready /\
  ( \/ \E s1, s2 \in Pointers, n \in Counts :
         Inside(s1, n) /\ Inside(s2, n) /\ Looks("memcmp", s1, s2, n, 0)
    \/ \E s1, s2 \in Pointers : Ends(s1) /\ Ends(s2) /\ Looks("strcmp", s1, s2, 0, 0)
    \/ \E s1, s2 \in Pointers, n \in Counts, fn \in {"strncmp", "pcie_strncmp"} :
         /\ Ends(s1) \/ Inside(s1, n)
         /\ Ends(s2) \/ Inside(s2, n)
         /\ Looks(fn, s1, s2, n, 0)
    \/ \E s1 \in Pointers : Ends(s1) /\ Looks("strlen", s1, s1, 0, 0)
    \/ \E s1 \in Pointers, c \in Values, fn \in {"strchr", "strrchr"} :
         Ends(s1) /\ Looks(fn, s1, s1, 0, c) )

Answer(value) ==
    pc' = "idle" /\ result' = value /\ UNCHANGED <<mem, call, old, job, start, d, s, len>>
Advance(n) ==
    /\ d' = d + 1 /\ s' = s + 1 /\ len' = len - n
    /\ UNCHANGED <<mem, call, old, job, start, pc, result>>

MemcmpStep ==
    /\ pc = "memcmp"
    /\ CASE len = 0 -> Answer(0)
         [] len > 0 /\ mem[d] # mem[s] -> Answer(IF mem[d] < mem[s] THEN -1 ELSE 1)
         [] OTHER -> Advance(1)

StrcmpStep ==
    /\ pc = "strcmp"
    /\ IF mem[d] # 0 /\ mem[d] = mem[s] THEN Advance(0) ELSE Answer(mem[d] - mem[s])

(* A mutant: strncmp compares one character too many.                      *)
more_counted(n) == n > 0

more(n) == n > 1

StrncmpStep ==
    /\ pc = "strncmp"
    /\ CASE call.n = 0 -> Answer(0)
         [] call.n > 0 /\ more(len) /\ mem[d] # 0 /\ mem[d] = mem[s] -> Advance(1)
         [] OTHER -> Answer(mem[d] - mem[s])

PcieStrncmpStep ==
    /\ pc = "pcie_strncmp"
    /\ CASE len = 0 -> Answer(0)
         [] len > 0 /\ mem[d] # mem[s] -> Answer(mem[d] - mem[s])
         [] len > 0 /\ mem[d] = mem[s] /\ mem[d] = 0 -> Answer(0)
         [] OTHER -> Advance(1)

(* A mutant: the pointer is not advanced.                                  *)
StrlenStay ==
    /\ pc = "strlen"
    /\ IF mem[d] # 0 THEN UNCHANGED vars ELSE Answer(d - call.dest)

StrlenStep ==
    /\ pc = "strlen"
    /\ IF mem[d] # 0 THEN Advance(0) ELSE Answer(d - call.dest)

StrchrStep ==
    /\ pc = "strchr"
    /\ CASE mem[d] = byte(call.c) -> Answer(d)
         [] mem[d] # byte(call.c) /\ mem[d] = 0 -> Answer(NULL)
         [] OTHER -> Advance(0)

(* strrchr runs to the terminator, then back from it.                      *)
StrrchrStep ==
    \/ /\ pc = "strrchr"
       /\ IF mem[d] # 0 THEN Advance(0)
          ELSE pc' = "strrchr_back" /\ UNCHANGED <<mem, call, old, job, start, d, s, len, result>>
    \/ /\ pc = "strrchr_back"
       /\ CASE mem[d] = byte(call.c) -> Answer(d)
            [] mem[d] # byte(call.c) /\ d = call.dest -> Answer(NULL)
            [] OTHER -> /\ d' = d - 1
                        /\ UNCHANGED <<mem, call, old, job, start, pc, s, len, result>>

---------------------------------------------------------------------------
NoCall == Request("none", FIRST, FIRST, 0, 0)

(* Between two calls the callers put into memory what they like; the       *)
(* locals of the last call are gone.                                       *)
Caller ==
    /\ pc = "idle" /\ pc' = pc
    /\ mem' \in Memories /\ old' = mem' /\ start' = mem'
    /\ call' = NoCall /\ job' = NoCall /\ d' = FIRST /\ s' = FIRST /\ len' = 0 /\ result' = 0

Init ==
    /\ mem \in Memories /\ old = mem /\ start = mem
    /\ call = NoCall /\ job = NoCall
    /\ pc = "idle" /\ d = FIRST /\ s = FIRST /\ len = 0 /\ result = 0

Step ==
    \/ Align \/ Chunks \/ Bytes \/ BackChunks \/ BackBytes \/ Done \/ Scan
    \/ MemcmpStep \/ StrcmpStep \/ StrncmpStep \/ PcieStrncmpStep
    \/ StrlenStep \/ StrchrStep \/ StrrchrStep
Next == Step \/ Memset \/ Memcpy \/ Memmove \/ Strcpy \/ Strncpy \/ Look \/ Caller

Spec     == Init /\ [][Next]_vars
FairSpec == Spec /\ WF_vars(Step)

---------------------------------------------------------------------------
(* What the functions are to do, as C defines them.                        *)
JobResult ==
    [i \in Addr |->
        IF job.dest <= i /\ i < job.dest + job.n
        THEN IF job.fn = "memset" THEN byte(job.c) ELSE start[job.src + (i - job.dest)]
        ELSE start[i]]

LengthIn(m, at) == CHOOSE n \in 0 .. LAST - at : m[at + n] = 0 /\ \A i \in 0 .. n - 1 : m[at + i] # 0

CallResult ==
    LET within(i, n) == call.dest <= i /\ i < call.dest + n
        from(i) == call.src + (i - call.dest)
        ended(i) == \E j \in call.src .. from(i) - 1 : old[j] = 0
    IN  [i \in Addr |->
           CASE call.fn = "memset" /\ within(i, call.n) -> byte(call.c)
             [] call.fn \in {"memcpy", "memmove"} /\ within(i, call.n) -> old[from(i)]
             [] call.fn = "strcpy" /\ within(i, LengthIn(old, call.src) + 1) -> old[from(i)]
             [] call.fn = "strncpy" /\ within(i, call.n) -> IF ended(i) THEN 0 ELSE old[from(i)]
             [] OTHER -> old[i]]

(* The first place where two memory ranges differ decides; strings end at  *)
(* their terminators.                                                      *)
Difference(m, p, q, n, strings) ==
    LET same(k) == \A i \in 0 .. k - 1 : m[p + i] = m[q + i] /\ (strings => m[p + i] # 0)
        differ  == {k \in 0 .. n - 1 : same(k) /\ m[p + k] # m[q + k]}
    IN  IF differ = {} THEN 0 ELSE m[p + Min(differ)] - m[q + Min(differ)]
Sign(x) == CASE x < 0 -> -1 [] x = 0 -> 0 [] x > 0 -> 1

Occurrences(m, at, c) == {i \in at .. at + LengthIn(m, at) : m[i] = c}
Expected ==
    LET difference(n, strings) == Difference(mem, call.dest, call.src, n, strings)
        occurrences == Occurrences(mem, call.dest, byte(call.c))
    IN  CASE call.fn = "memcmp" -> Sign(difference(call.n, FALSE))
          [] call.fn = "strcmp" -> Sign(difference(LAST + 1, TRUE))
          [] call.fn \in {"strncmp", "pcie_strncmp"} -> Sign(difference(call.n, TRUE))
          [] call.fn = "strlen" -> LengthIn(mem, call.dest)
          [] call.fn = "strchr" -> IF occurrences = {} THEN NULL ELSE Min(occurrences)
          [] call.fn = "strrchr" -> IF occurrences = {} THEN NULL ELSE Max(occurrences)
Compares == {"memcmp", "strcmp", "strncmp", "pcie_strncmp"}

(***************************************************************************)
(* Properties.                                                             *)
(***************************************************************************)

(* The memory holds bytes and the loops stay within the range they were    *)
(* given.                                                                  *)
TypeOK ==
    /\ mem \in [Addr -> Byte] /\ start \in [Addr -> Byte]
    /\ len \in Nat
    /\ pc \in {"align", "chunks", "bytes", "back_chunks", "back_bytes"} =>
         /\ job.dest <= d /\ d <= job.dest + job.n
         /\ job.dest + job.n <= LAST + 1 /\ job.src + job.n <= LAST + 1

(* However memset, memcpy and memmove go about it - bytes up to an aligned *)
(* address, chunks, the rest, or chunks and bytes from the end - every     *)
(* byte of the destination has its value, for memmove the one that its     *)
(* source had before the ranges overwrote each other, and no other byte    *)
(* has changed (string.c:84 and :103).                                     *)
JobRight == pc = "done" => mem = JobResult

(* The same for every call: strcpy copies the terminator, strncpy fills    *)
(* with zeros and does not write beyond n.                                 *)
CallRight == pc = "idle" => mem = CallResult

(* Comparisons tell the order of the first difference, within their count  *)
(* and no further than a terminator; searches find the first or the last.  *)
AnswersRight ==
    pc = "idle" /\ call.fn \in Compares \cup {"strlen", "strchr", "strrchr"} =>
        (IF call.fn \in Compares THEN Sign(result) ELSE result) = Expected

(* Every loop ends.                                                        *)
CallsReturn == pc # "idle" ~> pc = "idle"
===============================================================================
