----------------------------- MODULE StringsProofs -----------------------------
(***************************************************************************)
(* For every chunk size, memory, alignment and length: what the functions  *)
(* that write leave in memory, and what the ones that look answer, is what *)
(* C says.  IInv follows the loops that write: what lies behind the        *)
(* pointers has its new value, and everything else still has its old one,  *)
(* in particular all that is yet to be read.  CallInv says which part of   *)
(* its call the running loop serves; LookInv, that what a comparison or a  *)
(* search has passed does not decide its answer.                           *)
(***************************************************************************)
EXTENDS Strings, WellFoundedInduction, TLAPS

Forwards  == pc \in {"align", "chunks", "bytes"}
Backwards == pc \in {"back_chunks", "back_bytes"}
Running   == Forwards \/ Backwards \/ pc = "done"

Typed ==
    /\ mem \in [Addr -> Byte] /\ start \in [Addr -> Byte]
    /\ call.dest \in Addr /\ call.src \in Addr /\ call.n \in Nat /\ call.c \in Nat
    /\ job.dest \in Nat /\ job.src \in Nat /\ job.n \in Nat /\ job.c \in Nat
    /\ len \in Nat

(* A job that runs lies in the memory; one that copies forward does not    *)
(* write what it reads later.                                              *)
JobSound ==
    Running =>
        /\ job.fn \in {"memset", "memcpy", "memmove"}
        /\ FIRST <= job.dest /\ FIRST <= job.src
        /\ Inside(job.dest, job.n) /\ Inside(job.src, job.n)
        /\ job.fn = "memcpy" => job.dest <= job.src \/ job.src + job.n <= job.dest

Wanted(i) == IF job.fn = "memset" THEN byte(job.c) ELSE start[job.src + (i - job.dest)]

ForwardInv ==
    Forwards =>
        /\ job.fn # "memmove" /\ 0 <= len /\ len <= job.n
        /\ d = job.dest + (job.n - len) /\ s = job.src + (job.n - len)
        /\ \A i \in Addr : mem[i] = IF job.dest <= i /\ i < d THEN Wanted(i) ELSE start[i]

BackwardInv ==
    Backwards =>
        /\ job.fn = "memmove" /\ job.src < job.dest /\ 0 <= len /\ len <= job.n
        /\ d = job.dest + len /\ s = job.src + len
        /\ \A i \in Addr :
             mem[i] = IF d <= i /\ i < job.dest + job.n THEN Wanted(i) ELSE start[i]

DoneInv ==
    pc = "done" =>
        \A i \in Addr : mem[i] = IF job.dest <= i /\ i < job.dest + job.n THEN Wanted(i) ELSE start[i]

(* The scans of strcpy and strncpy have not passed the end of the string,  *)
(* and the copy that follows them will fit.                                *)
ScanInv ==
    pc = "scan" =>
        /\ d = call.dest /\ s = call.src /\ 0 <= len
        /\ call.fn \in {"strcpy", "strncpy"}
        /\ call.fn = "strcpy" =>
             \E n \in 0 .. LAST - call.src :
                 /\ IsLength(call.src, n) /\ len <= n
                 /\ Inside(call.dest, n + 1) /\ Disjoint(call.dest, call.src, n + 1)
        /\ call.fn = "strncpy" =>
             /\ len <= call.n /\ Inside(call.dest, call.n)
             /\ Disjoint(call.dest, call.src, call.n)
             /\ Inside(call.src, call.n) \/ \E i \in call.src + len .. LAST : mem[i] = 0

(* What is left for strncpy to fill with zeros lies in the memory.         *)
FillInv ==
    Running /\ call.fn = "strncpy" =>
        /\ Inside(call.dest, call.n)
        /\ job.fn = "memcpy" => job.dest = call.dest /\ job.n <= call.n

IInv == Typed /\ JobSound /\ ForwardInv /\ BackwardInv /\ DoneInv /\ ScanInv /\ FillInv

---------------------------------------------------------------------------
(* A job that begins going forward satisfies the invariant.                *)
LEMMA ForwardBegins ==
    ASSUME Typed, mem' = mem,
           NEW fn \in {"memset", "memcpy"}, NEW dest \in Nat, NEW src \in Nat,
           NEW n \in Nat, NEW c \in Nat,
           FIRST <= dest, FIRST <= src, Inside(dest, n), Inside(src, n),
           fn = "memcpy" => dest <= src \/ src + n <= dest,
           Forward(fn, dest, src, n, c),
           call'.dest \in Addr, call'.src \in Addr, call'.n \in Nat, call'.c \in Nat,
           call'.fn = "strncpy" =>
               /\ Inside(call'.dest, call'.n)
               /\ fn = "memcpy" => dest = call'.dest /\ n <= call'.n
    PROVE  IInv'
<1> USE MemoryAssumption DEF MemoryAssumption
<1>1. /\ job'.fn = fn /\ job'.dest = dest /\ job'.src = src /\ job'.n = n /\ job'.c = c
      /\ d' = dest /\ s' = src /\ len' = n /\ start' = mem
      /\ pc' \in {"align", "bytes"}
  BY DEF Forward, Request, first_loop
<1>2. Typed'
  BY <1>1 DEF Typed
<1>3. JobSound'
  BY <1>1 DEF JobSound, Inside
<1>4. ForwardInv'
  BY <1>1 DEF ForwardInv, Addr, Typed
<1>5. BackwardInv' /\ DoneInv' /\ ScanInv'
  BY <1>1 DEF BackwardInv, Backwards, DoneInv, ScanInv
<1>6. FillInv'
  BY <1>1 DEF FillInv, Running, Inside
<1> QED
  BY <1>2, <1>3, <1>4, <1>5, <1>6 DEF IInv

(* A turn of a forward loop that moves n bytes.                            *)
LEMMA ForwardMoves ==
    ASSUME IInv, Forwards, NEW n \in Nat, n <= len,
           Write(d, n), d' = d + n, s' = s + n, len' = len - n, pc' = pc,
           UNCHANGED <<call, job, start>>
    PROVE  IInv'
<1> USE MemoryAssumption DEF MemoryAssumption
<1>1. /\ job.dest \in Nat /\ job.src \in Nat /\ job.n \in Nat /\ job.c \in Nat
      /\ FIRST <= job.dest /\ FIRST <= job.src
      /\ job.dest + job.n <= LAST + 1 /\ job.src + job.n <= LAST + 1
      /\ job.fn \in {"memset", "memcpy"} /\ len \in Nat /\ len <= job.n
      /\ d = job.dest + (job.n - len) /\ s = job.src + (job.n - len)
      /\ job.fn = "memcpy" => job.dest <= job.src \/ job.src + job.n <= job.dest
      /\ mem \in [Addr -> Byte] /\ start \in [Addr -> Byte]
  BY DEF IInv, Typed, JobSound, ForwardInv, Running, Inside
<1>0. d \in Int /\ s \in Int /\ job.dest <= d
  BY <1>1
<1>2. \A i \in Addr : mem[i] = IF job.dest <= i /\ i < d THEN Wanted(i) ELSE start[i]
  BY DEF IInv, ForwardInv
<1>3. ASSUME NEW i \in Addr, d <= i, i < d + n
      PROVE  Source(i) = Wanted(i) /\ Source(i) \in Byte
  <2>0. i \in Int
    BY DEF Addr
  <2>1. CASE job.fn = "memset"
    BY <1>1, <2>1 DEF Source, Wanted, byte, Byte
  <2>2. CASE job.fn = "memcpy"
    <3>0. s + (i - d) = job.src + (i - job.dest)
      BY <1>0, <1>1, <2>0
    <3>1. FIRST <= s + (i - d) /\ s + (i - d) <= LAST /\ s + (i - d) \in Int
      BY <1>0, <1>1, <1>3, <2>0, <3>0
    <3>2. ~ (job.dest <= s + (i - d) /\ s + (i - d) < d)
      BY <1>0, <1>1, <1>3, <2>0, <2>2, <3>0
    <3>3. mem[s + (i - d)] = start[s + (i - d)]
      BY <1>2, <3>1, <3>2 DEF Addr
    <3> QED
      BY <1>1, <2>2, <3>0, <3>1, <3>3 DEF Source, Wanted, Addr
  <2> QED
    BY <1>1, <2>1, <2>2
<1>4. mem' = [i \in Addr |-> IF d <= i /\ i < d + n THEN Source(i) ELSE mem[i]]
  BY DEF Write
<1>5. mem' \in [Addr -> Byte]
  BY <1>1, <1>3, <1>4
<1>6. Typed'
  BY <1>1, <1>5 DEF IInv, Typed
<1>7. ASSUME NEW i \in Addr
      PROVE  mem'[i] = IF job.dest <= i /\ i < d + n THEN Wanted(i) ELSE start[i]
  <2>1. i \in Int
    BY DEF Addr
  <2>2. CASE d <= i /\ i < d + n
    <3>1. job.dest <= i
      BY <1>0, <1>1, <2>1, <2>2
    <3> QED
      BY <1>3, <1>4, <2>2, <3>1
  <2>3. CASE ~ (d <= i /\ i < d + n)
    <3>1. (job.dest <= i /\ i < d + n) <=> (job.dest <= i /\ i < d)
      BY <1>0, <1>1, <2>1, <2>3
    <3> QED
      BY <1>2, <1>4, <2>3, <3>1
  <2> QED
    BY <2>2, <2>3
<1>8. ForwardInv'
  BY <1>1, <1>7 DEF ForwardInv, Wanted
<1>9. JobSound' /\ BackwardInv' /\ DoneInv' /\ ScanInv' /\ FillInv'
  BY DEF IInv, JobSound, BackwardInv, DoneInv, ScanInv, FillInv, Forwards, Backwards, Running, Inside
<1> QED
  BY <1>6, <1>8, <1>9 DEF IInv

(* A turn of a backward loop of memmove that moves n bytes.                *)
LEMMA BackwardMoves ==
    ASSUME IInv, Backwards, NEW n \in Nat, n <= len, WriteBelow(n), pc' = pc,
           UNCHANGED <<call, job, start>>
    PROVE  IInv'
<1> USE MemoryAssumption DEF MemoryAssumption
<1>1. /\ job.dest \in Nat /\ job.src \in Nat /\ job.n \in Nat
      /\ FIRST <= job.dest /\ FIRST <= job.src
      /\ job.dest + job.n <= LAST + 1 /\ job.src + job.n <= LAST + 1
      /\ job.fn = "memmove" /\ job.src < job.dest /\ len \in Nat /\ len <= job.n
      /\ d = job.dest + len /\ s = job.src + len
      /\ mem \in [Addr -> Byte] /\ start \in [Addr -> Byte]
  BY DEF IInv, Typed, JobSound, BackwardInv, Running, Inside
<1>0. d \in Int /\ s \in Int /\ d <= job.dest + job.n
  BY <1>1
<1>2. \A i \in Addr : mem[i] = IF d <= i /\ i < job.dest + job.n THEN Wanted(i) ELSE start[i]
  BY DEF IInv, BackwardInv
<1>3. ASSUME NEW i \in Addr, d - n <= i, i < d
      PROVE  mem[s - (d - i)] = Wanted(i) /\ mem[s - (d - i)] \in Byte
  <2>0. i \in Int
    BY DEF Addr
  <2>1. s - (d - i) = job.src + (i - job.dest) /\ s - (d - i) < d
    BY <1>0, <1>1, <1>3, <2>0
  <2>2. FIRST <= s - (d - i) /\ s - (d - i) <= LAST /\ s - (d - i) \in Int
    BY <1>0, <1>1, <1>3, <2>0, <2>1
  <2>3. s - (d - i) \in Addr
    BY <2>2 DEF Addr
  <2>4. mem[s - (d - i)] = start[s - (d - i)]
    BY <1>0, <1>2, <2>1, <2>2, <2>3
  <2> QED
    BY <1>1, <2>1, <2>3, <2>4 DEF Wanted
<1>4. /\ mem' = [i \in Addr |-> IF d - n <= i /\ i < d THEN mem[s - (d - i)] ELSE mem[i]]
      /\ d' = d - n /\ s' = s - n /\ len' = len - n
  BY DEF WriteBelow
<1>5. mem' \in [Addr -> Byte]
  BY <1>1, <1>3, <1>4
<1>6. Typed'
  BY <1>1, <1>4, <1>5 DEF IInv, Typed
<1>7. ASSUME NEW i \in Addr
      PROVE  mem'[i] = IF d - n <= i /\ i < job.dest + job.n THEN Wanted(i) ELSE start[i]
  <2>1. i \in Int
    BY DEF Addr
  <2>2. CASE d - n <= i /\ i < d
    BY <1>0, <1>1, <1>3, <1>4, <2>1, <2>2
  <2>3. CASE ~ (d - n <= i /\ i < d)
    <3>1. (d - n <= i /\ i < job.dest + job.n) <=> (d <= i /\ i < job.dest + job.n)
      BY <1>0, <1>1, <2>1, <2>3
    <3> QED
      BY <1>2, <1>4, <2>3, <3>1
  <2> QED
    BY <2>2, <2>3
<1>8. BackwardInv'
  BY <1>1, <1>4, <1>7 DEF BackwardInv, Wanted
<1>9. JobSound' /\ ForwardInv' /\ DoneInv' /\ ScanInv' /\ FillInv'
  BY DEF IInv, JobSound, ForwardInv, DoneInv, ScanInv, FillInv, Forwards, Backwards, Running, Inside
<1> QED
  BY <1>6, <1>8, <1>9 DEF IInv
(* The last turn of a loop leaves all bytes moved.                         *)
LEMMA LoopEnds ==
    ASSUME IInv, Running, len = 0 \/ pc \in {"align", "chunks", "back_chunks"},
           \/ pc = "align" /\ pc' = "chunks"
           \/ pc = "chunks" /\ pc' = "bytes"
           \/ pc = "bytes" /\ pc' = "done"
           \/ pc = "back_chunks" /\ pc' = "back_bytes"
           \/ pc = "back_bytes" /\ pc' = "done",
           UNCHANGED <<mem, call, job, start, d, s, len>>
    PROVE  IInv'
<1>1. Typed' /\ JobSound' /\ ScanInv' /\ FillInv'
  BY DEF IInv, Typed, JobSound, ScanInv, FillInv, Running, Forwards, Backwards, Inside
<1>2. ForwardInv' /\ BackwardInv'
  BY DEF IInv, ForwardInv, BackwardInv, Forwards, Backwards, Wanted
<1>3. CASE pc = "bytes"
  <2>1. len = 0 /\ job.n \in Nat /\ job.dest \in Nat
    BY <1>3 DEF IInv, Typed
  <2>2. d = job.dest + job.n
    BY <1>3, <2>1 DEF IInv, ForwardInv, Forwards
  <2> QED
    BY <1>1, <1>2, <1>3, <2>2 DEF IInv, ForwardInv, Forwards, DoneInv, Wanted
<1>4. CASE pc = "back_bytes"
  <2>1. len = 0 /\ job.n \in Nat /\ job.dest \in Nat
    BY <1>4 DEF IInv, Typed
  <2>2. d = job.dest
    BY <1>4, <2>1 DEF IInv, BackwardInv, Backwards
  <2> QED
    BY <1>1, <1>2, <1>4, <2>2 DEF IInv, BackwardInv, Backwards, DoneInv, Wanted
<1>5. CASE pc \notin {"bytes", "back_bytes"}
  BY <1>1, <1>2, <1>5 DEF IInv, DoneInv
<1> QED
  BY <1>3, <1>4, <1>5

(* Outside the loops that write there is nothing to keep but types.        *)
LEMMA NothingRuns ==
    ASSUME IInv, UNCHANGED <<mem, job, start>>, len' \in Nat,
           call'.dest \in Addr, call'.src \in Addr, call'.n \in Nat, call'.c \in Nat,
           pc' \notin {"align", "chunks", "bytes", "back_chunks", "back_bytes", "done", "scan"}
    PROVE  IInv'
BY DEF IInv, Typed, JobSound, ForwardInv, BackwardInv, DoneInv, ScanInv, FillInv,
       Forwards, Backwards, Running

(* The steps of the loops that write.                                      *)
LEMMA LoopSteps ==
    ASSUME IInv, Align \/ Chunks \/ Bytes \/ BackChunks \/ BackBytes
    PROVE  IInv'
<1> USE MemoryAssumption DEF MemoryAssumption
<1>0. len \in Int
  BY DEF IInv, Typed
<1>1. CASE Align
  <2>1. CASE to_align(d, len)
    BY <1>0, <1>1, <2>1, ForwardMoves DEF Align, to_align, Forwards
  <2>2. CASE ~ to_align(d, len)
    BY <1>1, <2>2, LoopEnds DEF Align, Running, Forwards
  <2> QED
    BY <2>1, <2>2
<1>2. CASE Chunks
  <2>1. CASE len >= CHUNK
    <3>1. CHUNK \in Nat /\ CHUNK <= len
      BY <1>0, <2>1
    <3> QED
      BY <1>2, <2>1, <3>1, ForwardMoves DEF Chunks, Forwards
  <2>2. CASE ~ (len >= CHUNK)
    BY <1>2, <2>2, LoopEnds DEF Chunks, Running, Forwards
  <2> QED
    BY <2>1, <2>2
<1>3. CASE Bytes
  <2>1. CASE len > 0
    BY <1>0, <1>3, <2>1, ForwardMoves DEF Bytes, Forwards
  <2>2. CASE ~ (len > 0)
    <3>1. len = 0
      BY <1>0, <1>3, <2>2 DEF Bytes, IInv, ForwardInv, Forwards
    <3> QED
      BY <1>3, <2>2, <3>1, LoopEnds DEF Bytes, Running, Forwards
  <2> QED
    BY <2>1, <2>2
<1>4. CASE BackChunks
  <2>1. CASE len >= CHUNK
    <3>1. CHUNK \in Nat /\ CHUNK <= len
      BY <1>0, <2>1
    <3> QED
      BY <1>4, <2>1, <3>1, BackwardMoves DEF BackChunks, Backwards
  <2>2. CASE ~ (len >= CHUNK)
    BY <1>4, <2>2, LoopEnds DEF BackChunks, Running, Backwards
  <2> QED
    BY <2>1, <2>2
<1>5. CASE BackBytes
  <2>1. CASE len > 0
    BY <1>0, <1>5, <2>1, BackwardMoves DEF BackBytes, Backwards
  <2>2. CASE ~ (len > 0)
    <3>1. len = 0
      BY <1>0, <1>5, <2>2 DEF BackBytes, IInv, BackwardInv, Backwards
    <3> QED
      BY <1>5, <2>2, <3>1, LoopEnds DEF BackBytes, Running, Backwards
  <2> QED
    BY <2>1, <2>2
<1> QED
  BY <1>1, <1>2, <1>3, <1>4, <1>5

(* What follows a job: zeros after the copy of strncpy, or the return.     *)
LEMMA DoneStep ==
    ASSUME IInv, Done
    PROVE  IInv'
<1> USE MemoryAssumption DEF MemoryAssumption
<1>1. CASE call.fn = "strncpy" /\ job.fn = "memcpy" /\ job.n < call.n
  <2>1. /\ job.n \in Nat /\ call.n \in Nat /\ call.dest \in Addr /\ job.dest = call.dest
        /\ call.dest + call.n <= LAST + 1
    BY <1>1 DEF Done, IInv, Typed, FillInv, Running, Inside
  <2>2. call.dest \in Nat /\ FIRST <= call.dest
    BY <2>1 DEF Addr
  <2> DEFINE at == call.dest + job.n
             n  == call.n - job.n
  <2>3. at \in Nat /\ n \in Nat /\ FIRST <= at /\ Inside(at, n) /\ Inside(call.dest, call.n)
    BY <1>1, <2>1, <2>2 DEF Inside
  <2>4. Forward("memset", at, at, n, 0) /\ mem' = mem /\ call' = call
    BY <1>1 DEF Done
  <2>5. Typed
    BY DEF IInv
  <2>6. call.src \in Addr /\ call.c \in Nat
    BY <2>5 DEF Typed
  <2> HIDE DEF at, n
  <2> QED
    BY <2>1, <2>3, <2>4, <2>5, <2>6, ForwardBegins
<1>2. CASE ~ (call.fn = "strncpy" /\ job.fn = "memcpy" /\ job.n < call.n)
  <2>1. pc' = "idle" /\ UNCHANGED <<job, start, len, mem, call>>
    BY <1>2 DEF Done
  <2> QED
    BY <2>1, NothingRuns DEF IInv, Typed
<1> QED
  BY <1>1, <1>2

(* A step of a scan, and the copy that follows the last.                   *)
LEMMA ScanStep ==
    ASSUME IInv, Scan
    PROVE  IInv'
<1> USE MemoryAssumption DEF MemoryAssumption
<1>1. /\ pc = "scan" /\ d = call.dest /\ s = call.src /\ len \in Nat
      /\ call.dest \in Addr /\ call.src \in Addr /\ call.n \in Nat /\ call.c \in Nat
      /\ call.fn \in {"strcpy", "strncpy"} /\ mem' = mem /\ call' = call
      /\ Typed
  BY DEF Scan, IInv, Typed, ScanInv
<1>2. /\ call.dest \in Nat /\ call.src \in Nat /\ FIRST <= call.dest /\ FIRST <= call.src
      /\ call.src <= LAST
  BY <1>1 DEF Addr
<1>3. CASE call.fn = "strcpy"
  <2>1. PICK n \in 0 .. LAST - call.src :
           /\ IsLength(call.src, n) /\ len <= n
           /\ Inside(call.dest, n + 1) /\ Disjoint(call.dest, call.src, n + 1)
    BY <1>1, <1>3 DEF IInv, ScanInv
  <2>2. CASE mem[s + len] # 0
    <3>1. len' = len + 1 /\ UNCHANGED <<job, start, pc, d, s>>
      BY <1>3, <2>2 DEF Scan
    <3>2. len # n
      BY <1>1, <2>1, <2>2 DEF IsLength
    <3>3. len + 1 <= n
      BY <1>1, <2>1, <3>2
    <3>4. IsLength(call.src, n)'
      BY <1>1, <2>1 DEF IsLength
    <3>5. ScanInv'
      BY <1>1, <1>3, <2>1, <3>1, <3>3, <3>4 DEF ScanInv, Inside, Disjoint
    <3> QED
      BY <1>1, <3>1, <3>5
      DEF IInv, Typed, JobSound, ForwardInv, BackwardInv, DoneInv, FillInv, Forwards, Backwards, Running
  <2>3. CASE mem[s + len] = 0
    <3>1. Forward("memcpy", call.dest, call.src, len + 1, 0)
      BY <1>3, <2>3 DEF Scan, copy_length
    <3>2. /\ len + 1 \in Nat /\ Inside(call.dest, len + 1) /\ Inside(call.src, len + 1)
          /\ call.dest <= call.src \/ call.src + (len + 1) <= call.dest
      BY <1>1, <1>2, <2>1 DEF Inside, Disjoint
    <3> QED
      BY <1>1, <1>2, <1>3, <3>1, <3>2, ForwardBegins
  <2> QED
    BY <2>2, <2>3
<1>4. CASE call.fn = "strncpy"
  <2>1. /\ len <= call.n /\ Inside(call.dest, call.n) /\ Disjoint(call.dest, call.src, call.n)
        /\ Inside(call.src, call.n) \/ \E i \in call.src + len .. LAST : mem[i] = 0
    BY <1>1, <1>4 DEF IInv, ScanInv
  <2>2. CASE len < call.n /\ mem[s + len] # 0
    <3>1. len' = len + 1 /\ UNCHANGED <<job, start, pc, d, s>>
      BY <1>4, <2>2 DEF Scan
    <3>2. Inside(call.src, call.n) \/ \E i \in call.src + len' .. LAST : mem[i] = 0
      <4>1. CASE Inside(call.src, call.n)
        BY <4>1
      <4>2. CASE \E i \in call.src + len .. LAST : mem[i] = 0
        <5>1. PICK i \in call.src + len .. LAST : mem[i] = 0
          BY <4>2
        <5>2. i # call.src + len
          BY <1>1, <2>2, <5>1
        <5>3. i \in call.src + len' .. LAST
          BY <1>1, <1>2, <3>1, <5>1, <5>2
        <5> QED
          BY <5>1, <5>3
      <4> QED
        BY <2>1, <4>1, <4>2
    <3>3. ScanInv'
      BY <1>1, <1>4, <2>1, <2>2, <3>1, <3>2 DEF ScanInv, Inside, Disjoint
    <3> QED
      BY <1>1, <3>1, <3>3
      DEF IInv, Typed, JobSound, ForwardInv, BackwardInv, DoneInv, FillInv, Forwards, Backwards, Running
  <2>3. CASE ~ (len < call.n /\ mem[s + len] # 0)
    <3>1. Forward("memcpy", call.dest, call.src, len, 0)
      BY <1>4, <2>3 DEF Scan, copy_length
    <3>2. Inside(call.dest, len) /\ (call.dest <= call.src \/ call.src + len <= call.dest)
      BY <1>1, <1>2, <2>1 DEF Inside, Disjoint
    <3>3. Inside(call.src, len)
      BY <1>1, <1>2, <2>1 DEF Inside
    <3> QED
      BY <1>1, <1>2, <1>4, <2>1, <3>1, <3>2, <3>3, ForwardBegins
  <2> QED
    BY <2>2, <2>3
<1> QED
  BY <1>1, <1>3, <1>4

(* The calls of functions that write.                                      *)
LEMMA WritingCalls ==
    ASSUME IInv, Memset \/ Memcpy \/ Memmove \/ Strcpy \/ Strncpy
    PROVE  IInv'
<1> USE MemoryAssumption, CallAssumption DEF MemoryAssumption, CallAssumption
<1>0. Typed /\ \A p \in Pointers : p \in Addr /\ p \in Nat /\ FIRST <= p /\ p <= LAST
  BY DEF IInv, Addr
<1>1. CASE Memset
  <2>1. PICK dest \in Pointers, n \in Counts, c \in Values :
           /\ Inside(dest, n)
           /\ Calls("memset", dest, dest, n, c) /\ Forward("memset", dest, dest, n, c)
    BY <1>1 DEF Memset
  <2>2. mem' = mem /\ call' = Request("memset", dest, dest, n, c) /\ n \in Nat /\ c \in Nat
    BY <2>1 DEF Calls
  <2> QED
    BY <1>0, <2>1, <2>2, ForwardBegins DEF Request
<1>2. CASE Memcpy
  <2>1. PICK dest \in Pointers, src \in Pointers, n \in Counts :
           /\ Inside(dest, n) /\ Inside(src, n) /\ Disjoint(dest, src, n)
           /\ Calls("memcpy", dest, src, n, 0) /\ Forward("memcpy", dest, src, n, 0)
    BY <1>2 DEF Memcpy
  <2>2. mem' = mem /\ call' = Request("memcpy", dest, src, n, 0) /\ n \in Nat
    BY <2>1 DEF Calls
  <2>3. dest <= src \/ src + n <= dest
    BY <1>0, <2>1, <2>2 DEF Disjoint
  <2> QED
    BY <1>0, <2>1, <2>2, <2>3, ForwardBegins DEF Request
<1>3. CASE Memmove
  <2>1. PICK dest \in Pointers, src \in Pointers, n \in Counts :
           /\ Inside(dest, n) /\ Inside(src, n) /\ Calls("memmove", dest, src, n, 0)
           /\ CASE n = 0 \/ dest = src ->
                     /\ pc' = "done" /\ job' = Request("memmove", dest, src, n, 0)
                     /\ start' = mem /\ d' = dest /\ s' = src /\ len' = 0
                [] ~ (n = 0 \/ dest = src) /\ Ahead(dest, src, n) ->
                     /\ pc' = "back_chunks" /\ job' = Request("memmove", dest, src, n, 0)
                     /\ start' = mem /\ d' = dest + n /\ s' = src + n /\ len' = n
                [] OTHER -> Forward("memcpy", dest, src, n, 0)
    BY <1>3 DEF Memmove
  <2>2. mem' = mem /\ call' = Request("memmove", dest, src, n, 0) /\ n \in Nat
    BY <2>1 DEF Calls
  <2>3. /\ dest \in Addr /\ dest \in Nat /\ FIRST <= dest /\ src \in Addr /\ src \in Nat
        /\ FIRST <= src
    BY <1>0
  <2>4. CASE n = 0 \/ dest = src
    <3>1. /\ pc' = "done" /\ job' = Request("memmove", dest, src, n, 0)
          /\ start' = mem /\ len' = 0
      BY <2>1, <2>4
    <3>2. Typed'
      BY <1>0, <2>2, <2>3, <3>1 DEF Typed, Request
    <3>3. ASSUME NEW i \in Addr
          PROVE  mem[i] = IF dest <= i /\ i < dest + n THEN mem[src + (i - dest)] ELSE mem[i]
      <4>1. i \in Int
        BY DEF Addr
      <4>2. CASE n = 0
        BY <2>3, <4>1, <4>2
      <4>3. CASE dest = src
        <5>1. src + (i - dest) = i
          BY <2>3, <4>1, <4>3
        <5> QED
          BY <5>1
      <4> QED
        BY <2>4, <4>2, <4>3
    <3>4. DoneInv'
      BY <2>2, <3>1, <3>3 DEF DoneInv, Wanted, Request
    <3> QED
      BY <2>1, <2>2, <2>3, <3>1, <3>2, <3>4
      DEF IInv, JobSound, ForwardInv, BackwardInv, ScanInv, FillInv, Forwards, Backwards, Running,
          Request, Inside
  <2>5. CASE ~ (n = 0 \/ dest = src) /\ Ahead(dest, src, n)
    <3>1. /\ pc' = "back_chunks" /\ job' = Request("memmove", dest, src, n, 0)
          /\ start' = mem /\ d' = dest + n /\ s' = src + n /\ len' = n
      BY <2>1, <2>5
    <3>2. Typed'
      BY <1>0, <2>2, <2>3, <3>1 DEF Typed, Request
    <3>3. BackwardInv'
      BY <2>2, <2>3, <2>5, <3>1 DEF BackwardInv, Wanted, Request, Ahead, Addr
    <3> QED
      BY <2>1, <2>2, <2>3, <3>1, <3>2, <3>3
      DEF IInv, JobSound, ForwardInv, DoneInv, ScanInv, FillInv, Forwards, Backwards, Running,
          Request, Inside
  <2>6. CASE ~ (n = 0 \/ dest = src) /\ ~ Ahead(dest, src, n)
    <3>1. Forward("memcpy", dest, src, n, 0)
      BY <2>1, <2>6
    <3>2. dest <= src \/ src + n <= dest
      BY <2>2, <2>3, <2>6 DEF Ahead
    <3> QED
      BY <1>0, <2>1, <2>2, <2>3, <3>1, <3>2, ForwardBegins DEF Request
  <2> QED
    BY <2>4, <2>5, <2>6
<1>4. CASE Strcpy
  <2>1. PICK dest \in Pointers, src \in Pointers :
           /\ \E n \in 0 .. LAST - src :
                IsLength(src, n) /\ Inside(dest, n + 1) /\ Disjoint(dest, src, n + 1)
           /\ Calls("strcpy", dest, src, 0, 0) /\ ScanString(dest, src, 0)
    BY <1>4 DEF Strcpy
  <2>2. /\ mem' = mem /\ call' = Request("strcpy", dest, src, 0, 0)
        /\ pc' = "scan" /\ d' = dest /\ s' = src /\ len' = 0 /\ UNCHANGED <<job, start>>
    BY <2>1 DEF Calls, ScanString
  <2>3. Typed'
    BY <1>0, <2>2 DEF Typed, Request
  <2>4. PICK n \in 0 .. LAST - src :
           IsLength(src, n) /\ Inside(dest, n + 1) /\ Disjoint(dest, src, n + 1)
    BY <2>1
  <2>5. IsLength(src, n)' /\ len' <= n
    BY <2>2, <2>4 DEF IsLength
  <2>6. ScanInv'
    BY <2>2, <2>4, <2>5 DEF ScanInv, Request, IsLength, Inside, Disjoint
  <2> QED
    BY <2>2, <2>3, <2>6
    DEF IInv, JobSound, ForwardInv, BackwardInv, DoneInv, FillInv, Forwards, Backwards, Running
<1>5. CASE Strncpy
  <2>1. PICK dest \in Pointers, src \in Pointers, n \in Counts :
           /\ Inside(dest, n) /\ (Ends(src) \/ Inside(src, n)) /\ Disjoint(dest, src, n)
           /\ Calls("strncpy", dest, src, n, 0) /\ ScanString(dest, src, n)
    BY <1>5 DEF Strncpy
  <2>2. /\ mem' = mem /\ call' = Request("strncpy", dest, src, n, 0) /\ n \in Nat
        /\ pc' = "scan" /\ d' = dest /\ s' = src /\ len' = 0 /\ UNCHANGED <<job, start>>
    BY <2>1 DEF Calls, ScanString
  <2>3. Typed'
    BY <1>0, <2>2 DEF Typed, Request
  <2>4. Inside(src, n) \/ \E i \in src + 0 .. LAST : mem[i] = 0
    BY <1>0, <2>1 DEF Ends
  <2>5. ScanInv'
    BY <2>1, <2>2, <2>4 DEF ScanInv, Request, Inside, Disjoint
  <2> QED
    BY <2>2, <2>3, <2>5
    DEF IInv, JobSound, ForwardInv, BackwardInv, DoneInv, FillInv, Forwards, Backwards, Running
<1> QED
  BY <1>1, <1>2, <1>3, <1>4, <1>5

(* The functions that only look leave memory and jobs alone.               *)
LEMMA LookingSteps ==
    ASSUME IInv,
           \/ Look \/ MemcmpStep \/ StrcmpStep \/ StrncmpStep \/ PcieStrncmpStep
           \/ StrlenStep \/ StrchrStep \/ StrrchrStep
    PROVE  IInv'
<1> USE MemoryAssumption, CallAssumption DEF MemoryAssumption, CallAssumption
<1> DEFINE Names == {"memcmp", "strcmp", "strncmp", "pcie_strncmp", "strlen", "strchr",
                     "strrchr", "strrchr_back", "idle"}
<1>0. Typed
  BY DEF IInv
<1>1. CASE Look
  <2>1. PICK fn \in Names, s1 \in Pointers, s2 \in Pointers, n \in Nat, c \in Nat :
           Looks(fn, s1, s2, n, c)
    BY <1>1 DEF Look
  <2>2. /\ UNCHANGED <<mem, job, start>> /\ call' = Request(fn, s1, s2, n, c)
        /\ pc' = fn /\ len' = n
    BY <2>1 DEF Looks, Calls
  <2> QED
    BY <2>2, NothingRuns DEF Request
<1>2. CASE ~ Look
  <2>1. UNCHANGED <<mem, job, start, call>> /\ len' \in Nat /\ pc' \in Names
    BY <1>0, <1>2 DEF more, MemcmpStep, StrcmpStep, StrncmpStep, PcieStrncmpStep, StrlenStep,
       StrchrStep, StrrchrStep, Answer, Advance, Typed
  <2> QED
    BY <1>0, <2>1, NothingRuns DEF Typed
<1> QED
  BY <1>1, <1>2

LEMMA InitIInv == Init => IInv
BY MemoryAssumption DEF MemoryAssumption, Init, NoCall, Request, IInv, Typed, JobSound, ForwardInv,
   BackwardInv, DoneInv, ScanInv, FillInv, Forwards, Backwards, Running, Addr

LEMMA NextIInv == IInv /\ [Next]_vars => IInv'
<1> SUFFICES ASSUME IInv, [Next]_vars PROVE IInv'
  OBVIOUS
<1>1. CASE Caller
  <2>1. /\ mem' \in Memories /\ start' = mem' /\ call' = NoCall /\ job' = NoCall
        /\ pc' = "idle" /\ len' = 0
    BY <1>1 DEF Caller
  <2>2. FIRST \in Addr /\ FIRST \in Nat
    BY <2>1, MemoryAssumption DEF MemoryAssumption, IInv, Typed, Addr
  <2> QED
    BY <2>1, <2>2, MemoryAssumption
    DEF MemoryAssumption, NoCall, Request, IInv, Typed, JobSound, ForwardInv, BackwardInv, DoneInv,
        ScanInv, FillInv, Forwards, Backwards, Running
<1>2. CASE UNCHANGED vars
  BY <1>2 DEF vars, IInv, Typed, JobSound, ForwardInv, BackwardInv, DoneInv, ScanInv, FillInv,
     Forwards, Backwards, Running, Wanted, Inside, Disjoint, IsLength
<1> QED
  BY <1>1, <1>2, LoopSteps, DoneStep, ScanStep, WritingCalls, LookingSteps DEF Next, Step

(* The loops stay within the ranges they were given, at every turn.        *)
THEOREM TypeCorrect == Spec => []TypeOK
<1>1. IInv => TypeOK
  <2> SUFFICES ASSUME IInv PROVE TypeOK
    OBVIOUS
  <2>1. CASE Forwards
    BY <2>1 DEF IInv, Typed, ForwardInv, JobSound, Inside, Forwards, Backwards, Running, TypeOK
  <2>2. CASE Backwards
    BY <2>2 DEF IInv, Typed, BackwardInv, JobSound, Inside, Forwards, Backwards, Running, TypeOK
  <2>3. CASE ~ Forwards /\ ~ Backwards
    BY <2>3 DEF IInv, Typed, Forwards, Backwards, TypeOK
  <2> QED
    BY <2>1, <2>2, <2>3
<1> QED
  BY <1>1, InitIInv, NextIInv, PTL DEF Spec

(* Every job of memset, memcpy and memmove ends with the memory that C     *)
(* asks for, whatever the chunk size, the alignment and the overlap        *)
(* (string.c:4-107).                                                       *)
THEOREM CopiesRight == Spec => []JobRight
<1>1. IInv => JobRight
  BY DEF IInv, Typed, DoneInv, JobRight, JobResult, Wanted
<1> QED
  BY <1>1, InitIInv, NextIInv, PTL DEF Spec

---------------------------------------------------------------------------
(* The n characters at an address do not end a string; the string at an    *)
(* address has n characters.                                               *)
Clean(m, at, n)      == \A i \in 0 .. n - 1 : m[at + i] # 0
Terminated(m, at, n) == n \in 0 .. LAST - at /\ m[at + n] = 0 /\ Clean(m, at, n)

(* What strcpy and strncpy hand to memcpy: the string with its terminator, *)
(* or as much of the string as there is room for.                          *)
CopyLength(n) ==
    IF call.fn = "strcpy" THEN \E k \in Nat : Terminated(old, call.src, k) /\ n = k + 1
    ELSE /\ n \in 0 .. call.n /\ Clean(old, call.src, n)
         /\ n = call.n \/ (call.src + n \in Addr /\ old[call.src + n] = 0)

Copied(m, n) ==
    \A i \in Addr : m[i] = IF call.dest <= i /\ i < call.dest + n
                           THEN old[call.src + (i - call.dest)] ELSE old[i]

Same  == start = old /\ job.dest = call.dest /\ job.src = call.src
Whole == /\ call.fn \in {"memset", "memcpy", "memmove"} /\ Same
         /\ job.n = call.n /\ job.c = call.c /\ (job.fn = "memset" <=> call.fn = "memset")
Part  == /\ call.fn \in {"strcpy", "strncpy"} /\ job.fn = "memcpy" /\ Same /\ CopyLength(job.n)
Fill  == /\ call.fn = "strncpy" /\ job.fn = "memset" /\ job.c = 0
         /\ \E k \in 0 .. call.n - 1 :
              /\ CopyLength(k) /\ Copied(start, k)
              /\ job.dest = call.dest + k /\ job.n = call.n - k

(* The running job is the whole of the call, or the copy or the filling of *)
(* strcpy and strncpy; the scan before it has met no terminator.           *)
Looking == Compares \cup {"strlen", "strchr", "strrchr", "strrchr_back"}
CallInv ==
    /\ old \in [Addr -> Byte]
    /\ Running => Whole \/ Part \/ Fill
    /\ pc = "scan" => mem = old /\ Clean(old, call.src, len)
    /\ pc \in Looking =>
         /\ mem = old /\ call.fn = (IF pc = "strrchr_back" THEN "strrchr" ELSE pc)
    /\ pc = "idle" => mem = CallResult

(* The length of a string is unique, and there is one if there is a zero.  *)
LEMMA LengthFound ==
    ASSUME NEW m, NEW at \in Nat, NEW n, Terminated(m, at, n)
    PROVE  LengthIn(m, at) = n
<1> USE MemoryAssumption DEF MemoryAssumption
<1>1. ASSUME NEW k \in 0 .. LAST - at, m[at + k] = 0, \A i \in 0 .. k - 1 : m[at + i] # 0
      PROVE  k = n
  <2>1. ~ (k < n)
    BY <1>1 DEF Terminated, Clean
  <2>2. ~ (n < k)
    BY <1>1 DEF Terminated, Clean
  <2> QED
    BY <2>1, <2>2 DEF Terminated
<1> QED
  BY <1>1 DEF LengthIn, Terminated, Clean

LEMMA LengthExists ==
    ASSUME NEW m, NEW at \in Nat, NEW j \in at .. LAST, m[j] = 0
    PROVE  \E n \in Nat : Terminated(m, at, n) /\ at + n <= j
<1> USE MemoryAssumption DEF MemoryAssumption
<1> DEFINE Zeros == {n \in Nat : n <= LAST - at /\ m[at + n] = 0}
<1>1. j - at \in Zeros
  <2>1. at + (j - at) = j /\ j - at \in Nat /\ j - at <= LAST - at
    OBVIOUS
  <2> QED
    BY <2>1
<1>2. IsWellFoundedOn(OpToRel(<, Nat), Nat)
  BY NatLessThanWellFounded
<1>3. Zeros \in SUBSET Nat /\ Zeros # {}
  BY <1>1
<1>4. PICK n \in Zeros : \A k \in Zeros : <<k, n>> \notin OpToRel(<, Nat)
  <2> HIDE DEF Zeros
  <2> QED
    BY <1>2, <1>3, WFMin
<1>5. ASSUME NEW k \in Zeros PROVE n <= k
  <2>1. <<k, n>> \notin OpToRel(<, Nat)
    BY <1>4, Zenon
  <2>2. ~ (k < n)
    BY <2>1, Zenon DEF OpToRel
  <2> QED
    BY <2>2
<1>6. Clean(m, at, n)
  <2> SUFFICES ASSUME NEW i \in 0 .. n - 1, m[at + i] = 0 PROVE FALSE
    BY DEF Clean
  <2>1. i \in Zeros
    OBVIOUS
  <2> QED
    BY <1>5, <2>1
<1>7. n <= j - at
  BY <1>1, <1>5
<1> QED
  BY <1>6, <1>7 DEF Terminated

(* A job that is done has done what the call was for.                      *)
LEMMA CallDone ==
    ASSUME IInv, CallInv, pc = "done",
           ~ (call.fn = "strncpy" /\ job.fn = "memcpy" /\ job.n < call.n)
    PROVE  mem = CallResult
<1> USE MemoryAssumption DEF MemoryAssumption
<1>1. /\ call.dest \in Nat /\ call.src \in Nat /\ call.n \in Nat /\ call.c \in Nat
      /\ job.dest \in Nat /\ job.src \in Nat /\ job.n \in Nat /\ job.c \in Nat
      /\ mem \in [Addr -> Byte]
  BY DEF IInv, Typed, Addr
<1>2. \A i \in Addr : mem[i] = IF job.dest <= i /\ i < job.dest + job.n THEN Wanted(i) ELSE start[i]
  BY DEF IInv, DoneInv
<1>3. SUFFICES ASSUME NEW i \in Addr PROVE mem[i] = CallResult[i]
  BY <1>1 DEF CallResult
<1>4. i \in Int /\ FIRST <= i /\ i <= LAST
  BY DEF Addr
<1>5. CASE Whole
  BY <1>1, <1>2, <1>4, <1>5 DEF Whole, Same, Wanted, CallResult
<1>6. CASE Part
  <2>1. Copied(mem, job.n)
    BY <1>2, <1>6 DEF Part, Same, Wanted, Copied
  <2>2. CASE call.fn = "strcpy"
    <3>1. PICK k \in Nat : Terminated(old, call.src, k) /\ job.n = k + 1
      BY <1>6, <2>2 DEF Part, CopyLength
    <3>2. LengthIn(old, call.src) = k
      BY <1>1, <3>1, LengthFound
    <3> QED
      BY <2>1, <2>2, <3>1, <3>2 DEF Copied, CallResult
  <2>3. CASE call.fn = "strncpy"
    <3>1. job.n = call.n /\ Clean(old, call.src, call.n)
      BY <1>1, <1>6, <2>3 DEF Part, CopyLength
    <3>2. CASE call.dest <= i /\ i < call.dest + call.n
      <4>1. ASSUME NEW j \in call.src .. (call.src + (i - call.dest)) - 1
            PROVE  old[j] # 0
        <5>1. j - call.src \in 0 .. call.n - 1 /\ call.src + (j - call.src) = j
          BY <1>1, <1>4, <3>2
        <5> QED
          BY <3>1, <5>1 DEF Clean
      <4> QED
        BY <2>1, <2>3, <3>1, <3>2, <4>1 DEF Copied, CallResult
    <3>3. CASE ~ (call.dest <= i /\ i < call.dest + call.n)
      BY <2>1, <2>3, <3>1, <3>3 DEF Copied, CallResult
    <3> QED
      BY <3>2, <3>3
  <2> QED
    BY <1>6, <2>2, <2>3 DEF Part
<1>7. CASE Fill
  <2>1. PICK k \in 0 .. call.n - 1 :
           /\ CopyLength(k) /\ Copied(start, k)
           /\ job.dest = call.dest + k /\ job.n = call.n - k
    BY <1>7 DEF Fill
  <2>2. /\ call.fn = "strncpy" /\ job.fn = "memset" /\ job.c = 0 /\ k \in Nat /\ k < call.n
        /\ Clean(old, call.src, k) /\ old[call.src + k] = 0
    BY <1>1, <1>7, <2>1 DEF Fill, CopyLength
  <2>3. job.dest + job.n = call.dest + call.n
    BY <1>1, <2>1, <2>2
  <2>4. CASE call.dest <= i /\ i < call.dest + k
    <3>1. mem[i] = old[call.src + (i - call.dest)]
      BY <1>1, <1>2, <1>4, <2>1, <2>2, <2>4 DEF Copied
    <3>2. ASSUME NEW j \in call.src .. (call.src + (i - call.dest)) - 1
          PROVE  old[j] # 0
      <4>1. j - call.src \in 0 .. k - 1 /\ call.src + (j - call.src) = j
        BY <1>1, <1>4, <2>2, <2>4
      <4> QED
        BY <2>2, <4>1 DEF Clean
    <3>3. i < call.dest + call.n
      BY <1>1, <1>4, <2>2, <2>4
    <3> QED
      BY <2>2, <2>4, <3>1, <3>2, <3>3 DEF CallResult
  <2>5. CASE call.dest + k <= i /\ i < call.dest + call.n
    <3>1. mem[i] = 0
      BY <1>2, <2>1, <2>2, <2>3, <2>5 DEF Wanted, byte
    <3>2. CASE call.dest + k = i
      <4>1. call.src + (i - call.dest) = call.src + k /\ call.dest <= i
        BY <1>1, <1>4, <2>2, <3>2
      <4> QED
        BY <2>2, <2>5, <3>1, <4>1 DEF CallResult
    <3>3. CASE call.dest + k < i
      <4>1. call.src + k \in call.src .. (call.src + (i - call.dest)) - 1 /\ call.dest <= i
        BY <1>1, <1>4, <2>2, <3>3
      <4> QED
        BY <2>2, <2>5, <3>1, <4>1 DEF CallResult
    <3> QED
      BY <1>1, <1>4, <2>2, <2>5, <3>2, <3>3
  <2>6. CASE ~ (call.dest <= i /\ i < call.dest + call.n)
    <3>1. ~ (call.dest <= i /\ i < call.dest + k) /\ ~ (job.dest <= i /\ i < job.dest + job.n)
      BY <1>1, <1>4, <2>1, <2>2, <2>3, <2>6
    <3>2. mem[i] = old[i]
      BY <1>2, <2>1, <3>1 DEF Copied
    <3> QED
      BY <2>2, <2>6, <3>2 DEF CallResult
  <2> QED
    BY <1>1, <1>4, <2>2, <2>4, <2>5, <2>6
<1> QED
  BY <1>5, <1>6, <1>7 DEF CallInv, Running

(* A forward job that begins: it is the whole call, or a part of it.       *)
LEMMA CallForward ==
    ASSUME CallInv, old' \in [Addr -> Byte], (Whole \/ Part \/ Fill)',
           NEW fn, NEW dest, NEW src, NEW n, NEW c, Forward(fn, dest, src, n, c)
    PROVE  CallInv'
BY DEF CallInv, Forward, first_loop, Looking, Compares

LEMMA CallLoopSteps ==
    ASSUME IInv, CallInv, Align \/ Chunks \/ Bytes \/ BackChunks \/ BackBytes
    PROVE  CallInv'
<1>1. /\ UNCHANGED <<call, old, job, start>> /\ Running
      /\ pc' \in {"align", "chunks", "bytes", "back_chunks", "back_bytes", "done"}
  BY DEF Align, Chunks, Bytes, BackChunks, BackBytes, Running, Forwards, Backwards
<1>2. (Whole \/ Part \/ Fill)'
  BY <1>1 DEF CallInv, Whole, Part, Fill, Same, CopyLength, Copied
<1> QED
  BY <1>1, <1>2 DEF CallInv, Looking, Compares

LEMMA CallDoneStep ==
    ASSUME IInv, CallInv, Done
    PROVE  CallInv'
<1> USE MemoryAssumption DEF MemoryAssumption
<1>0. pc = "done" /\ UNCHANGED <<mem, call, old, result>>
  BY DEF Done
<1>1. CASE call.fn = "strncpy" /\ job.fn = "memcpy" /\ job.n < call.n
  <2>1. Forward("memset", call.dest + job.n, call.dest + job.n, call.n - job.n, 0)
    BY <1>1 DEF Done
  <2>2. /\ job' = Request("memset", call.dest + job.n, call.dest + job.n, call.n - job.n, 0)
        /\ start' = mem
    BY <2>1 DEF Forward
  <2>3. Part
    BY <1>0, <1>1 DEF CallInv, Running, Whole, Fill
  <2>4. PICK k \in 0 .. call.n - 1 : k = job.n
    BY <1>1 DEF IInv, Typed
  <2>5. Copied(mem, k)
    BY <1>0, <2>3, <2>4 DEF IInv, DoneInv, Part, Same, Wanted, Copied
  <2>6. CopyLength(k)' /\ Copied(start, k)'
    BY <1>0, <2>2, <2>3, <2>4, <2>5 DEF Part, CopyLength, Copied
  <2>7. k \in (0 .. call.n - 1)' /\ (job.dest = call.dest + k /\ job.n = call.n - k)'
    BY <1>0, <2>2, <2>4 DEF Request
  <2>8. Fill'
    BY <1>0, <1>1, <2>2, <2>6, <2>7 DEF Fill, Request
  <2> QED
    BY <1>0, <2>1, <2>8, CallForward DEF CallInv
<1>2. CASE ~ (call.fn = "strncpy" /\ job.fn = "memcpy" /\ job.n < call.n)
  <2>1. mem = CallResult
    BY <1>0, <1>2, CallDone
  <2>2. mem' = CallResult' /\ pc' = "idle"
    BY <1>0, <1>2, <2>1 DEF CallResult, Done
  <2> QED
    BY <1>0, <2>2 DEF CallInv, Running, Forwards, Backwards, Looking, Compares
<1> QED
  BY <1>1, <1>2

LEMMA CallScanStep ==
    ASSUME IInv, CallInv, Scan
    PROVE  CallInv'
<1> USE MemoryAssumption DEF MemoryAssumption
<1>1. /\ pc = "scan" /\ mem = old /\ Clean(old, call.src, len) /\ s = call.src
      /\ UNCHANGED <<mem, call, old, result>> /\ call.fn \in {"strcpy", "strncpy"}
      /\ len \in Nat /\ call.src \in Addr /\ call.n \in Nat
  BY DEF Scan, CallInv, IInv, ScanInv, Typed
<1>2. CASE (call.fn = "strncpy" => len < call.n) /\ mem[s + len] # 0
  <2>1. len' = len + 1 /\ UNCHANGED <<job, start, pc, d, s>>
    BY <1>2 DEF Scan
  <2>2. Clean(old, call.src, len + 1)
    <3> SUFFICES ASSUME NEW i \in 0 .. (len + 1) - 1 PROVE old[call.src + i] # 0
      BY DEF Clean
    <3>1. CASE i = len
      BY <1>1, <1>2, <3>1
    <3>2. CASE i # len
      BY <1>1, <3>2 DEF Clean
    <3> QED
      BY <3>1, <3>2
  <2> QED
    BY <1>1, <2>1, <2>2 DEF CallInv, Clean, Running, Forwards, Backwards, Looking, Compares
<1>3. CASE ~ ((call.fn = "strncpy" => len < call.n) /\ mem[s + len] # 0)
  <2>1. Forward("memcpy", call.dest, call.src, copy_length(len), 0)
    BY <1>3 DEF Scan
  <2>2. /\ job' = Request("memcpy", call.dest, call.src, copy_length(len), 0)
        /\ start' = mem
    BY <2>1 DEF Forward
  <2>3. CopyLength(copy_length(len))
    <3>1. CASE call.fn = "strcpy"
      <4>1. PICK n \in 0 .. LAST - call.src : IsLength(call.src, n) /\ len <= n
        BY <1>1, <3>1 DEF IInv, ScanInv
      <4>2. len \in 0 .. LAST - call.src
        BY <1>1, <4>1 DEF Addr
      <4>3. Terminated(old, call.src, len)
        BY <1>1, <1>3, <3>1, <4>2 DEF Terminated
      <4> QED
        BY <1>1, <3>1, <4>3 DEF CopyLength, copy_length
    <3>2. CASE call.fn = "strncpy"
      <4>1. /\ len <= call.n
            /\ call.src + call.n <= LAST + 1 \/ (\E i \in call.src + len .. LAST : mem[i] = 0)
        BY <1>1, <3>2 DEF IInv, ScanInv, Inside
      <4>2. call.src \in Nat /\ FIRST <= call.src
        BY <1>1 DEF Addr
      <4>3. len = call.n \/ (call.src + len \in Addr /\ old[call.src + len] = 0)
        BY <1>1, <1>3, <3>2, <4>1, <4>2 DEF Addr
      <4>4. len \in 0 .. call.n
        BY <1>1, <4>1
      <4> QED
        BY <1>1, <3>2, <4>3, <4>4 DEF CopyLength, copy_length
    <3> QED
      BY <1>1, <3>1, <3>2
  <2>4. Part'
    BY <1>1, <2>2, <2>3 DEF Part, Same, Request, CopyLength
  <2> QED
    BY <1>1, <2>1, <2>4, CallForward DEF CallInv
<1> QED
  BY <1>2, <1>3

LEMMA CallBegins ==
    ASSUME IInv, CallInv, Memset \/ Memcpy \/ Memmove \/ Strcpy \/ Strncpy
    PROVE  CallInv'
<1> USE MemoryAssumption, CallAssumption DEF MemoryAssumption, CallAssumption
<1>0. mem \in [Addr -> Byte]
  BY DEF IInv, Typed
<1>1. CASE Memset
  <2>1. PICK dest \in Pointers, n \in Counts, c \in Values :
           Calls("memset", dest, dest, n, c) /\ Forward("memset", dest, dest, n, c)
    BY <1>1 DEF Memset
  <2>2. Whole'
    BY <2>1 DEF Calls, Forward, Request, Whole, Same
  <2> QED
    BY <1>0, <2>1, <2>2, CallForward DEF Calls
<1>2. CASE Memcpy
  <2>1. PICK dest \in Pointers, src \in Pointers, n \in Counts :
           Calls("memcpy", dest, src, n, 0) /\ Forward("memcpy", dest, src, n, 0)
    BY <1>2 DEF Memcpy
  <2>2. Whole'
    BY <2>1 DEF Calls, Forward, Request, Whole, Same
  <2> QED
    BY <1>0, <2>1, <2>2, CallForward DEF Calls
<1>3. CASE Memmove
  <2>1. PICK dest \in Pointers, src \in Pointers, n \in Counts :
           /\ Calls("memmove", dest, src, n, 0)
           /\ \/ /\ pc' \in {"done", "back_chunks"} /\ start' = mem
                 /\ job' = Request("memmove", dest, src, n, 0)
              \/ Forward("memcpy", dest, src, n, 0)
    BY <1>3 DEF Memmove
  <2>2. Whole'
    BY <2>1 DEF Calls, Forward, Request, Whole, Same
  <2>3. CASE Forward("memcpy", dest, src, n, 0)
    BY <1>0, <2>1, <2>2, <2>3, CallForward DEF Calls
  <2>4. CASE pc' \in {"done", "back_chunks"}
    BY <1>0, <2>1, <2>2, <2>4 DEF CallInv, Calls, Looking, Compares
  <2> QED
    BY <2>1, <2>3, <2>4
<1>4. CASE Strcpy \/ Strncpy
  <2>1. /\ old' = mem /\ mem' = mem /\ pc' = "scan" /\ len' = 0
    BY <1>4 DEF Strcpy, Strncpy, Calls, ScanString
  <2>2. Clean(old, call.src, len)'
    BY <2>1 DEF Clean
  <2> QED
    BY <1>0, <2>1, <2>2 DEF CallInv, Running, Forwards, Backwards, Looking, Compares
<1> QED
  BY <1>1, <1>2, <1>3, <1>4

LEMMA CallLooks ==
    ASSUME IInv, CallInv,
           \/ Look \/ MemcmpStep \/ StrcmpStep \/ StrncmpStep \/ PcieStrncmpStep
           \/ StrlenStep \/ StrchrStep \/ StrrchrStep
    PROVE  CallInv'
<1>0. mem \in [Addr -> Byte]
  BY DEF IInv, Typed
<1>1. CASE Look
  <2>1. /\ old' = mem /\ mem' = mem /\ pc' \in Looking \ {"strrchr_back"} /\ call'.fn = pc'
    BY <1>1 DEF Look, Looks, Calls, Request, Looking, Compares
  <2> QED
    BY <1>0, <2>1 DEF CallInv, Running, Forwards, Backwards, Looking, Compares
<1>2. CASE ~ Look
  <2>1. /\ UNCHANGED <<mem, call, old>> /\ pc \in Looking /\ pc' \in Looking \cup {"idle"}
        /\ pc' \in {pc, "idle"} \/ (pc = "strrchr" /\ pc' = "strrchr_back")
    BY <1>2 DEF MemcmpStep, StrcmpStep, StrncmpStep, PcieStrncmpStep, StrlenStep,
       StrchrStep, StrrchrStep, Answer, Advance, Looking, Compares
  <2>2. mem = CallResult
    <3>1. mem = old /\ call.fn \in Looking
      BY <2>1 DEF CallInv, Looking, Compares
    <3>2. call.fn \notin {"memset", "memcpy", "memmove", "strcpy", "strncpy"}
      BY <3>1 DEF Looking, Compares
    <3> QED
      BY <1>0, <3>1, <3>2 DEF CallResult
  <2>3. CallResult' = CallResult
    BY <2>1 DEF CallResult
  <2> QED
    BY <2>1, <2>2, <2>3 DEF CallInv, Running, Forwards, Backwards, Looking, Compares
<1> QED
  BY <1>1, <1>2

(* A memory that no call has changed is what no call asks for.             *)
LEMMA NothingAsked ==
    ASSUME call = NoCall, mem = old, mem \in [Addr -> Byte], pc = "idle"
    PROVE  CallInv
<1>1. mem = CallResult
  BY DEF NoCall, Request, CallResult
<1> QED
  BY <1>1 DEF CallInv, Running, Forwards, Backwards, Looking, Compares

LEMMA InitCallInv == Init => CallInv
BY NothingAsked, MemoryAssumption DEF MemoryAssumption, Init

LEMMA NextCallInv == IInv /\ CallInv /\ [Next]_vars => CallInv'
<1> SUFFICES ASSUME IInv, CallInv, [Next]_vars PROVE CallInv'
  OBVIOUS
<1>1. CASE Caller
  <2>1. /\ mem' \in [Addr -> Byte] /\ old' = mem' /\ call' = NoCall /\ pc' = "idle"
    BY <1>1, MemoryAssumption DEF MemoryAssumption, Caller
  <2>2. mem' = CallResult'
    BY <2>1 DEF NoCall, Request, CallResult
  <2> QED
    BY <2>1, <2>2 DEF CallInv, Running, Forwards, Backwards, Looking, Compares
<1>2. CASE UNCHANGED vars
  BY <1>2 DEF vars, CallInv, Whole, Part, Fill, Same, CopyLength, Copied, Clean, Terminated,
     Running, Forwards, Backwards, CallResult
<1> QED
  BY <1>1, <1>2, CallLoopSteps, CallDoneStep, CallScanStep, CallBegins, CallLooks DEF Next, Step

(* Whatever the call, memory is afterwards as C asks for: the string that  *)
(* strcpy and strncpy find is copied with its terminator or up to n, the   *)
(* rest of strncpy's destination is zero (string.c:4-107 and :133-155).     *)
THEOREM CallsRight == Spec => []CallRight
<1>1. CallInv => CallRight
  BY DEF CallInv, CallRight
<1> QED
  BY <1>1, InitIInv, NextIInv, InitCallInv, NextCallInv, PTL DEF Spec

---------------------------------------------------------------------------
(* The first k places of two ranges do not decide; what is read next of    *)
(* one of them lies in the memory.                                         *)
Equal(m, p, q, k, strings) ==
    \A i \in 0 .. k - 1 : m[p + i] = m[q + i] /\ (strings => m[p + i] # 0)
Readable(at, k) ==
    \/ pc # "strcmp" /\ Inside(at, call.n)
    \/ pc # "memcmp" /\ \E j \in at + k .. LAST : mem[j] = 0

Comparing ==
    \E k \in Nat :
      /\ d = call.dest + k /\ s = call.src + k /\ Equal(mem, call.dest, call.src, k, pc # "memcmp")
      /\ pc # "strcmp" => len = call.n - k
      /\ pc = "strncmp" => call.n = 0 \/ len > 0
      /\ Readable(call.dest, k) /\ Readable(call.src, k)
Searching ==
    \E k \in Nat :
      /\ d = call.dest + k /\ Clean(mem, call.dest, k)
      /\ pc = "strchr" => \A i \in 0 .. k - 1 : mem[call.dest + i] # byte(call.c)
      /\ \E j \in d .. LAST : mem[j] = 0
SearchingBack ==
    \E n \in Nat :
      /\ Terminated(mem, call.dest, n) /\ d \in call.dest .. call.dest + n
      /\ \A i \in d + 1 .. call.dest + n : mem[i] # byte(call.c)

(* What the functions that look have passed does not decide the answer.    *)
LookInv ==
    /\ pc \in Compares => Comparing
    /\ pc \in {"strlen", "strchr", "strrchr"} => Searching
    /\ pc = "strrchr_back" => SearchingBack
    /\ AnswersRight

(* The first place that decides is the difference, if there is one.        *)
LEMMA DifferenceFound ==
    ASSUME NEW m, NEW p, NEW q, NEW n \in Nat, NEW strings \in BOOLEAN, NEW k \in 0 .. n - 1,
           Equal(m, p, q, k, strings), m[p + k] # m[q + k]
    PROVE  Difference(m, p, q, n, strings) = m[p + k] - m[q + k]
<1> DEFINE differ == {i \in 0 .. n - 1 : Equal(m, p, q, i, strings) /\ m[p + i] # m[q + i]}
<1>1. k \in differ
  OBVIOUS
<1>2. ASSUME NEW i \in differ PROVE i = k
  <2>1. ~ (i < k) /\ ~ (k < i)
    BY DEF Equal
  <2> QED
    BY <2>1
<1>3. differ = {k}
  BY <1>1, <1>2
<1>4. Min(differ) = k
  <2> HIDE DEF differ
  <2> QED
    BY <1>3 DEF Min
<1> QED
  BY <1>3, <1>4 DEF Difference, Equal

LEMMA DifferenceNone ==
    ASSUME NEW m, NEW p, NEW q, NEW n \in Nat, NEW strings \in BOOLEAN, NEW k \in Nat,
           Equal(m, p, q, k, strings),
           \/ n <= k
           \/ m[p + k] = m[q + k] /\ (n <= k + 1 \/ (strings /\ m[p + k] = 0))
    PROVE  Difference(m, p, q, n, strings) = 0
<1>1. ASSUME NEW i \in 0 .. n - 1, Equal(m, p, q, i, strings), m[p + i] # m[q + i]
      PROVE  FALSE
  <2>1. k <= i
    BY <1>1 DEF Equal
  <2>2. k # i /\ k < n /\ m[p + k] = m[q + k]
    BY <1>1, <2>1
  <2>3. k \in 0 .. i - 1
    BY <2>1, <2>2
  <2>4. strings /\ m[p + k] = 0
    BY <2>2, <2>3
  <2> QED
    BY <1>1, <2>3, <2>4 DEF Equal
<1> QED
  BY <1>1 DEF Difference, Equal

(* A comparison goes on where the bytes are the same.                      *)
LEMMA CompareAdvances ==
    ASSUME IInv, LookInv, pc \in Compares, mem[d] = mem[s], pc # "memcmp" => mem[d] # 0,
           Advance(IF pc = "strcmp" THEN 0 ELSE 1), pc = "strncmp" => len > 1
    PROVE  LookInv'
<1> USE MemoryAssumption DEF MemoryAssumption
<1>1. PICK k \in Nat :
        /\ d = call.dest + k /\ s = call.src + k /\ Equal(mem, call.dest, call.src, k, pc # "memcmp")
        /\ pc # "strcmp" => len = call.n - k
        /\ Readable(call.dest, k) /\ Readable(call.src, k)
  BY DEF LookInv, Comparing
<1>2. /\ call.dest \in Nat /\ call.src \in Nat /\ call.n \in Nat
  BY DEF IInv, Typed, Addr
<1>3. /\ UNCHANGED <<mem, call, old, job, start, pc, result>>
      /\ d' = d + 1 /\ s' = s + 1 /\ len' = len - (IF pc = "strcmp" THEN 0 ELSE 1)
  BY DEF Advance
<1>4. \A i \in 0 .. (k + 1) - 1 : mem[call.dest + i] = mem[call.src + i]
                                /\ (pc # "memcmp" => mem[call.dest + i] # 0)
  BY <1>1, <1>2 DEF Equal
<1>5. Equal(mem, call.dest, call.src, k + 1, pc # "memcmp")'
  BY <1>3, <1>4 DEF Equal
<1>6. ASSUME NEW at \in Nat, Readable(at, k), mem[at + k] = mem[d]
      PROVE  Readable(at, k + 1)'
  <2>1. CASE pc # "strcmp" /\ Inside(at, call.n)
    BY <1>3, <2>1 DEF Readable, Inside
  <2>2. CASE pc # "memcmp" /\ \E j \in at + k .. LAST : mem[j] = 0
    <3>1. PICK j \in at + k .. LAST : mem[j] = 0
      BY <2>2
    <3>2. j \in at + (k + 1) .. LAST
      BY <1>6, <2>2, <3>1
    <3> QED
      BY <1>3, <2>2, <3>1, <3>2 DEF Readable
  <2> QED
    BY <1>6, <2>1, <2>2 DEF Readable
<1>7. Readable(call.dest, k + 1)' /\ Readable(call.src, k + 1)'
  BY <1>1, <1>2, <1>3, <1>6
<1>8. (/\ d = call.dest + (k + 1) /\ s = call.src + (k + 1)
       /\ pc # "strcmp" => len = call.n - (k + 1)
       /\ pc = "strncmp" => len > 0)'
  BY <1>1, <1>2, <1>3
<1>9. Comparing'
  <2>1. k + 1 \in Nat
    OBVIOUS
  <2> HIDE <1>1
  <2> QED
    BY <1>5, <1>7, <1>8, <2>1 DEF Comparing
<1> QED
  BY <1>3, <1>9 DEF LookInv, AnswersRight, Compares

(* A comparison answers where it finds out.                                *)
LEMMA CompareAnswers ==
    ASSUME IInv, CallInv, pc \in Compares, NEW value, Answer(value),
           Sign(value) = Expected
    PROVE  LookInv'
<1>1. /\ UNCHANGED <<mem, call>> /\ pc' = "idle" /\ result' = value /\ call.fn \in Compares
  BY DEF Answer, CallInv, Compares, Looking
<1>2. Expected' = Expected
  BY <1>1 DEF Expected
<1> QED
  BY <1>1, <1>2 DEF LookInv, AnswersRight, Compares

(* The bytes that are read next are bytes.                                 *)
LEMMA ReadsBytes ==
    ASSUME IInv, NEW at \in Nat, NEW k \in Nat, FIRST <= at, Readable(at, k),
           pc # "strcmp" => k < call.n
    PROVE  mem[at + k] \in Int
<1> USE MemoryAssumption DEF MemoryAssumption
<1>1. mem \in [Addr -> Byte] /\ call.n \in Nat
  BY DEF IInv, Typed
<1>2. at + k \in Addr
  BY <1>1 DEF Readable, Inside, Addr
<1> QED
  BY <1>1, <1>2 DEF Byte

LEMMA ComparisonSteps ==
    ASSUME IInv, CallInv, LookInv,
           MemcmpStep \/ StrcmpStep \/ StrncmpStep \/ PcieStrncmpStep
    PROVE  LookInv'
<1> USE MemoryAssumption DEF MemoryAssumption
<1>0. pc \in Compares /\ call.fn = pc
  BY DEF MemcmpStep, StrcmpStep, StrncmpStep, PcieStrncmpStep, Compares, CallInv, Looking
<1>1. PICK k \in Nat :
        /\ d = call.dest + k /\ s = call.src + k
        /\ Equal(mem, call.dest, call.src, k, pc # "memcmp")
        /\ pc # "strcmp" => len = call.n - k
        /\ pc = "strncmp" => call.n = 0 \/ len > 0
        /\ Readable(call.dest, k) /\ Readable(call.src, k)
  BY <1>0 DEF LookInv, Comparing
<1>2. /\ call.dest \in Nat /\ call.src \in Nat /\ call.n \in Nat /\ len \in Nat
      /\ FIRST <= call.dest /\ FIRST <= call.src /\ call.dest <= LAST /\ call.src <= LAST
  BY DEF IInv, Typed, Addr
<1>3. ASSUME pc # "strcmp" => k < call.n
      PROVE  mem[d] \in Int /\ mem[s] \in Int
  BY <1>1, <1>2, <1>3, ReadsBytes
<1>4. ASSUME NEW n \in Nat, NEW strings \in BOOLEAN,
             Expected = Sign(Difference(mem, call.dest, call.src, n, strings)),
             Equal(mem, call.dest, call.src, k, strings)
      PROVE  /\ k < n /\ mem[d] # mem[s] => Expected = Sign(mem[d] - mem[s])
             /\ n <= k => Expected = Sign(0)
             /\ mem[d] = mem[s] /\ n <= k + 1 => Expected = Sign(0)
             /\ mem[d] = mem[s] /\ strings /\ mem[d] = 0 => Expected = Sign(0)
  <2>1. ASSUME k < n, mem[d] # mem[s] PROVE Expected = Sign(mem[d] - mem[s])
    <3>1. k \in 0 .. n - 1 /\ mem[call.dest + k] # mem[call.src + k]
      BY <1>1, <2>1
    <3>2. Difference(mem, call.dest, call.src, n, strings) = mem[call.dest + k] - mem[call.src + k]
      BY <1>4, <3>1, DifferenceFound
    <3> QED
      BY <1>1, <1>4, <3>2
  <2>2. ASSUME n <= k \/ (mem[d] = mem[s] /\ (n <= k + 1 \/ (strings /\ mem[d] = 0)))
        PROVE  Expected = Sign(0)
    <3>1. \/ n <= k
          \/ /\ mem[call.dest + k] = mem[call.src + k]
             /\ n <= k + 1 \/ (strings /\ mem[call.dest + k] = 0)
      BY <1>1, <2>2
    <3>2. Difference(mem, call.dest, call.src, n, strings) = 0
      BY <1>4, <3>1, DifferenceNone
    <3> QED
      BY <1>4, <3>2
  <2> QED
    BY <2>1, <2>2
<1>5. ASSUME pc \in {"strncmp", "pcie_strncmp"}
      PROVE  /\ k < call.n /\ mem[d] # mem[s] => Expected = Sign(mem[d] - mem[s])
             /\ call.n <= k => Expected = Sign(0)
             /\ mem[d] = mem[s] /\ call.n <= k + 1 => Expected = Sign(0)
             /\ mem[d] = mem[s] /\ mem[d] = 0 => Expected = Sign(0)
  <2>1. Expected = Sign(Difference(mem, call.dest, call.src, call.n, TRUE))
    BY <1>0, <1>5 DEF Expected
  <2>2. Equal(mem, call.dest, call.src, k, TRUE)
    BY <1>1, <1>5 DEF Equal
  <2> QED
    BY <1>2, <1>4, <2>1, <2>2
<1>7. CASE MemcmpStep
  <2>0. pc = "memcmp" /\ len = call.n - k
    BY <1>1, <1>7 DEF MemcmpStep
  <2>4. /\ k < call.n /\ mem[d] # mem[s] => Expected = Sign(mem[d] - mem[s])
        /\ call.n <= k => Expected = Sign(0)
    <3>1. Expected = Sign(Difference(mem, call.dest, call.src, call.n, FALSE))
      BY <1>0, <2>0 DEF Expected
    <3>2. Equal(mem, call.dest, call.src, k, FALSE)
      BY <1>1, <2>0 DEF Equal
    <3> QED
      BY <1>2, <1>4, <3>1, <3>2
  <2>1. CASE len = 0
    <3>1. Answer(0) /\ call.n <= k
      BY <1>2, <1>7, <2>0, <2>1 DEF MemcmpStep
    <3> QED
      BY <1>0, <2>4, <3>1, CompareAnswers
  <2>2. CASE len > 0 /\ mem[d] # mem[s]
    <3>1. Answer(IF mem[d] < mem[s] THEN -1 ELSE 1)
      BY <1>7, <2>2 DEF MemcmpStep
    <3>2. mem[d] \in Int /\ mem[s] \in Int /\ k < call.n
      BY <1>2, <1>3, <2>0, <2>2
    <3>3. Sign(IF mem[d] < mem[s] THEN -1 ELSE 1) = Expected
      BY <2>2, <2>4, <3>2 DEF Sign
    <3> QED
      BY <1>0, <3>1, <3>3, CompareAnswers
  <2>3. CASE len > 0 /\ mem[d] = mem[s]
    <3>1. Advance(1)
      BY <1>7, <2>3 DEF MemcmpStep
    <3> QED
      BY <1>0, <2>0, <2>3, <3>1, CompareAdvances
  <2> QED
    BY <1>2, <2>1, <2>2, <2>3
<1>8. CASE StrcmpStep
  <2>0. pc = "strcmp"
    BY <1>8 DEF StrcmpStep
  <2>1. CASE mem[d] # 0 /\ mem[d] = mem[s]
    BY <1>0, <1>8, <2>0, <2>1, CompareAdvances DEF StrcmpStep
  <2>2. CASE ~ (mem[d] # 0 /\ mem[d] = mem[s])
    <3>1. Answer(mem[d] - mem[s]) /\ mem[d] \in Int /\ mem[s] \in Int
      BY <1>3, <1>8, <2>0, <2>2 DEF StrcmpStep
    <3>2. k < LAST + 1
      BY <1>1, <1>2, <2>0 DEF Readable
    <3>4. Expected = Sign(Difference(mem, call.dest, call.src, LAST + 1, TRUE))
      BY <1>0, <2>0 DEF Expected
    <3>5. Equal(mem, call.dest, call.src, k, TRUE)
      BY <1>1, <2>0 DEF Equal
    <3>6. LAST + 1 \in Nat
      OBVIOUS
    <3>7. /\ mem[d] # mem[s] => Expected = Sign(mem[d] - mem[s])
          /\ mem[d] = mem[s] /\ mem[d] = 0 => Expected = Sign(0)
      BY <1>4, <3>2, <3>4, <3>5, <3>6
    <3>3. Sign(mem[d] - mem[s]) = Expected
      BY <2>2, <3>1, <3>7
    <3> QED
      BY <1>0, <3>1, <3>3, CompareAnswers
  <2> QED
    BY <2>1, <2>2
<1>9. CASE StrncmpStep
  <2>0. pc = "strncmp" /\ len = call.n - k
    BY <1>1, <1>9 DEF StrncmpStep
  <2>1. CASE call.n = 0
    <3>1. Answer(0) /\ call.n <= k
      BY <1>9, <2>1 DEF StrncmpStep
    <3> QED
      BY <1>0, <1>5, <2>0, <3>1, CompareAnswers
  <2>2. CASE call.n > 0 /\ more(len) /\ mem[d] # 0 /\ mem[d] = mem[s]
    <3>1. Advance(1) /\ len > 1
      BY <1>9, <2>2 DEF StrncmpStep, more
    <3> QED
      BY <1>0, <2>0, <2>2, <3>1, CompareAdvances
  <2>3. CASE call.n > 0 /\ ~ (more(len) /\ mem[d] # 0 /\ mem[d] = mem[s])
    <3>0. k < call.n
      BY <1>1, <1>2, <2>0, <2>3
    <3>1. Answer(mem[d] - mem[s]) /\ mem[d] \in Int /\ mem[s] \in Int
      BY <1>2, <1>3, <1>9, <2>0, <2>3, <3>0 DEF StrncmpStep
    <3>2. CASE mem[d] # mem[s]
      BY <1>0, <1>5, <2>0, <3>0, <3>1, <3>2, CompareAnswers
    <3>3. CASE mem[d] = mem[s]
      <4>1. mem[d] - mem[s] = 0
        BY <3>1, <3>3
      <4>2. call.n <= k + 1 \/ mem[d] = 0
        BY <1>2, <2>0, <2>3, <3>3 DEF more
      <4> QED
        BY <1>0, <1>5, <2>0, <3>1, <3>3, <4>1, <4>2, CompareAnswers
    <3> QED
      BY <3>2, <3>3
  <2> QED
    BY <1>2, <2>1, <2>2, <2>3
<1>10. CASE PcieStrncmpStep
  <2>0. pc = "pcie_strncmp" /\ len = call.n - k
    BY <1>1, <1>10 DEF PcieStrncmpStep
  <2>1. CASE len = 0
    <3>1. Answer(0) /\ call.n <= k
      BY <1>2, <1>10, <2>0, <2>1 DEF PcieStrncmpStep
    <3> QED
      BY <1>0, <1>5, <2>0, <3>1, CompareAnswers
  <2>2. CASE len > 0 /\ mem[d] # mem[s]
    <3>1. Answer(mem[d] - mem[s]) /\ k < call.n
      BY <1>2, <1>10, <2>0, <2>2 DEF PcieStrncmpStep
    <3> QED
      BY <1>0, <1>5, <2>0, <2>2, <3>1, CompareAnswers
  <2>3. CASE len > 0 /\ mem[d] = mem[s] /\ mem[d] = 0
    <3>1. Answer(0)
      BY <1>10, <2>3 DEF PcieStrncmpStep
    <3> QED
      BY <1>0, <1>5, <2>0, <2>3, <3>1, CompareAnswers
  <2>4. CASE len > 0 /\ mem[d] = mem[s] /\ mem[d] # 0
    <3>1. Advance(1)
      BY <1>10, <2>4 DEF PcieStrncmpStep
    <3> QED
      BY <1>0, <2>0, <2>4, <3>1, CompareAdvances
  <2> QED
    BY <1>2, <2>1, <2>2, <2>3, <2>4
<1> QED
  BY <1>7, <1>8, <1>9, <1>10

---------------------------------------------------------------------------
(* A search goes on over characters that it does not look for.             *)
LEMMA SearchAdvances ==
    ASSUME IInv, LookInv, pc \in {"strlen", "strchr", "strrchr"}, mem[d] # 0,
           pc = "strchr" => mem[d] # byte(call.c), Advance(0)
    PROVE  LookInv'
<1>1. PICK k \in Nat :
        /\ d = call.dest + k /\ Clean(mem, call.dest, k)
        /\ pc = "strchr" => \A i \in 0 .. k - 1 : mem[call.dest + i] # byte(call.c)
        /\ \E j \in d .. LAST : mem[j] = 0
  BY DEF LookInv, Searching
<1>2. call.dest \in Nat /\ LAST \in Nat
  BY MemoryAssumption DEF MemoryAssumption, IInv, Typed, Addr
<1>3. UNCHANGED <<mem, call, pc, result>> /\ d' = d + 1
  BY DEF Advance
<1>4. PICK j \in d .. LAST : mem[j] = 0
  BY <1>1
<1>5. j \in d + 1 .. LAST
  BY <1>1, <1>2, <1>4
<1>6. Clean(mem, call.dest, k + 1)
  BY <1>1 DEF Clean
<1>7. pc = "strchr" => \A i \in 0 .. (k + 1) - 1 : mem[call.dest + i] # byte(call.c)
  BY <1>1
<1>8. Searching'
  <2>1. k + 1 \in Nat /\ d' = call'.dest + (k + 1) /\ Clean(mem', call'.dest, k + 1)
    BY <1>1, <1>2, <1>3, <1>6
  <2>2. \E i \in d' .. LAST : mem'[i] = 0
    BY <1>3, <1>4, <1>5
  <2> QED
    BY <1>3, <1>7, <2>1, <2>2 DEF Searching
<1> QED
  BY <1>3, <1>8 DEF LookInv, AnswersRight, Compares

LEMMA SearchAnswers ==
    ASSUME NEW value, Answer(value), value = Expected, call.fn \notin Compares
    PROVE  LookInv'
<1>1. UNCHANGED <<mem, call>> /\ pc' = "idle" /\ result' = value
  BY DEF Answer
<1>2. Expected' = Expected
  BY <1>1 DEF Expected
<1> QED
  BY <1>1, <1>2 DEF LookInv, AnswersRight, Compares

(* Where the searched character occurs, given the length of the string.    *)
LEMMA OccurrencesAre ==
    ASSUME NEW m, NEW at \in Nat, NEW n \in Nat, Terminated(m, at, n), NEW c
    PROVE  Occurrences(m, at, c) = {i \in at .. at + n : m[i] = c}
BY LengthFound DEF Occurrences

LEMMA LeastIs ==
    ASSUME NEW S \in SUBSET Int, NEW x \in S, \A y \in S : x <= y
    PROVE  Min(S) = x
<1>1. \A z \in S : (\A y \in S : z <= y) => z = x
  OBVIOUS
<1> QED
  BY <1>1 DEF Min

LEMMA GreatestIs ==
    ASSUME NEW S \in SUBSET Int, NEW x \in S, \A y \in S : x >= y
    PROVE  Max(S) = x
<1>1. \A z \in S : (\A y \in S : z >= y) => z = x
  OBVIOUS
<1> QED
  BY <1>1 DEF Max

LEMMA SearchSteps ==
    ASSUME IInv, CallInv, LookInv, StrlenStep \/ StrchrStep \/ StrrchrStep
    PROVE  LookInv'
<1> USE MemoryAssumption DEF MemoryAssumption
<1>0. call.dest \in Nat /\ LAST \in Nat /\ FIRST <= call.dest /\ FIRST > 0
  BY DEF IInv, Typed, Addr
<1> DEFINE c == byte(call.c)
<1>1. ASSUME pc \in {"strlen", "strchr", "strrchr"}
      PROVE  \E k \in Nat :
               /\ d = call.dest + k /\ Clean(mem, call.dest, k)
               /\ pc = "strchr" => \A i \in 0 .. k - 1 : mem[call.dest + i] # c
               /\ \E j \in d .. LAST : mem[j] = 0
  BY <1>1 DEF LookInv, Searching
<1>2. ASSUME NEW k \in Nat, d = call.dest + k, Clean(mem, call.dest, k), mem[d] = 0,
             \E j \in d .. LAST : mem[j] = 0
      PROVE  Terminated(mem, call.dest, k)
  BY <1>0, <1>2 DEF Terminated
<1>3. CASE StrlenStep
  <2>0. pc = "strlen" /\ call.fn = "strlen"
    BY <1>3 DEF StrlenStep, CallInv, Looking
  <2>1. CASE mem[d] # 0
    BY <1>3, <2>0, <2>1, SearchAdvances DEF StrlenStep
  <2>2. CASE mem[d] = 0
    <3>1. PICK k \in Nat : /\ d = call.dest + k /\ Clean(mem, call.dest, k)
                           /\ \E j \in d .. LAST : mem[j] = 0
      BY <1>1, <2>0
    <3>2. LengthIn(mem, call.dest) = k
      BY <1>0, <1>2, <2>2, <3>1, LengthFound
    <3>3. Answer(d - call.dest) /\ d - call.dest = k
      BY <1>0, <1>3, <2>2, <3>1 DEF StrlenStep
    <3>4. Expected = k
      BY <2>0, <3>2 DEF Expected
    <3> QED
      BY <2>0, <3>3, <3>4, SearchAnswers DEF Compares
  <2> QED
    BY <2>1, <2>2
<1>4. CASE StrchrStep
  <2>0. pc = "strchr" /\ call.fn = "strchr"
    BY <1>4 DEF StrchrStep, CallInv, Looking
  <2>1. PICK k \in Nat : /\ d = call.dest + k /\ Clean(mem, call.dest, k)
                         /\ \A i \in 0 .. k - 1 : mem[call.dest + i] # c
                         /\ \E j \in d .. LAST : mem[j] = 0
    BY <1>1, <2>0
  <2>2. PICK j \in d .. LAST : mem[j] = 0
    BY <2>1
  <2>3. PICK n \in Nat : Terminated(mem, call.dest, n)
    <3>1. j \in call.dest .. LAST
      BY <1>0, <2>1, <2>2
    <3> QED
      BY <1>0, <2>2, <3>1, LengthExists
  <2>4. Occurrences(mem, call.dest, c) = {i \in call.dest .. call.dest + n : mem[i] = c}
    BY <1>0, <2>3, OccurrencesAre
  <2>5. ASSUME NEW i \in call.dest .. call.dest + n, mem[i] = c
        PROVE  d <= i
    <3>1. i - call.dest \in Nat /\ call.dest + (i - call.dest) = i
      BY <1>0
    <3>2. i - call.dest \notin 0 .. k - 1
      BY <2>1, <2>5, <3>1
    <3> QED
      BY <1>0, <2>1, <3>1, <3>2
  <2>6. Expected = IF Occurrences(mem, call.dest, c) = {} THEN NULL
                   ELSE Min(Occurrences(mem, call.dest, c))
    BY <2>0 DEF Expected
  <2>7. k <= n
    BY <2>1, <2>3 DEF Terminated, Clean
  <2>8. CASE mem[d] = c
    <3>1. Answer(d)
      BY <1>4, <2>8 DEF StrchrStep
    <3>2. d \in call.dest .. call.dest + n
      BY <1>0, <2>1, <2>7
    <3>3. d \in Occurrences(mem, call.dest, c) /\ \A i \in Occurrences(mem, call.dest, c) : d <= i
      BY <2>4, <2>5, <2>8, <3>2
    <3>4. Occurrences(mem, call.dest, c) \in SUBSET Int
      BY <1>0, <2>4
    <3>5. Min(Occurrences(mem, call.dest, c)) = d
      BY <3>3, <3>4, LeastIs
    <3> QED
      BY <2>0, <2>6, <3>1, <3>3, <3>5, SearchAnswers DEF Compares
  <2>9. CASE mem[d] # c /\ mem[d] = 0
    <3>1. Answer(NULL)
      BY <1>4, <2>9 DEF StrchrStep
    <3>2. n = k
      BY <2>1, <2>3, <2>7, <2>9 DEF Terminated, Clean
    <3>3. Occurrences(mem, call.dest, c) = {}
      BY <1>0, <2>1, <2>4, <2>5, <2>9, <3>2
    <3> QED
      BY <2>0, <2>6, <3>1, <3>3, SearchAnswers DEF Compares
  <2>10. CASE mem[d] # c /\ mem[d] # 0
    <3>1. Advance(0)
      BY <1>4, <2>10 DEF StrchrStep
    <3> QED
      BY <2>0, <2>10, <3>1, SearchAdvances
  <2> QED
    BY <2>8, <2>9, <2>10
<1>5. CASE StrrchrStep /\ pc = "strrchr"
  <2>1. CASE mem[d] # 0
    BY <1>5, <2>1, SearchAdvances DEF StrrchrStep
  <2>2. CASE mem[d] = 0
    <3>1. PICK k \in Nat : /\ d = call.dest + k /\ Clean(mem, call.dest, k)
                           /\ \E j \in d .. LAST : mem[j] = 0
      BY <1>1, <1>5
    <3>2. Terminated(mem, call.dest, k)
      BY <1>2, <2>2, <3>1
    <3>3. pc' = "strrchr_back" /\ UNCHANGED <<mem, call, d>>
      BY <1>5, <2>2 DEF StrrchrStep
    <3>4. /\ d \in call.dest .. call.dest + k
          /\ \A i \in d + 1 .. call.dest + k : mem[i] # byte(call.c)
      BY <1>0, <3>1
    <3>5. SearchingBack'
      BY <3>2, <3>3, <3>4 DEF SearchingBack
    <3> QED
      BY <3>3, <3>5 DEF LookInv, AnswersRight, Compares
  <2> QED
    BY <2>1, <2>2
<1>6. CASE StrrchrStep /\ pc = "strrchr_back"
  <2>0. call.fn = "strrchr"
    BY <1>6 DEF CallInv, Looking
  <2>1. PICK n \in Nat :
          /\ Terminated(mem, call.dest, n) /\ d \in call.dest .. call.dest + n
          /\ \A i \in d + 1 .. call.dest + n : mem[i] # c
    BY <1>6 DEF LookInv, SearchingBack
  <2>2. Occurrences(mem, call.dest, c) = {i \in call.dest .. call.dest + n : mem[i] = c}
    BY <1>0, <2>1, OccurrencesAre
  <2>3. ASSUME NEW i \in Occurrences(mem, call.dest, c) PROVE d >= i
    BY <1>0, <2>1, <2>2
  <2>4. Expected = IF Occurrences(mem, call.dest, c) = {} THEN NULL
                   ELSE Max(Occurrences(mem, call.dest, c))
    BY <2>0 DEF Expected
  <2>5. CASE mem[d] = c
    <3>1. Answer(d)
      BY <1>6, <2>5 DEF StrrchrStep
    <3>2. d \in Occurrences(mem, call.dest, c) /\ Occurrences(mem, call.dest, c) \in SUBSET Int
      BY <1>0, <2>1, <2>2, <2>5
    <3>3. Max(Occurrences(mem, call.dest, c)) = d
      BY <2>3, <3>2, GreatestIs
    <3> QED
      BY <2>0, <2>4, <3>1, <3>2, <3>3, SearchAnswers DEF Compares
  <2>6. CASE mem[d] # c /\ d = call.dest
    <3>1. Answer(NULL)
      BY <1>6, <2>6 DEF StrrchrStep
    <3>2. Occurrences(mem, call.dest, c) = {}
      BY <1>0, <2>1, <2>2, <2>6
    <3> QED
      BY <2>0, <2>4, <3>1, <3>2, SearchAnswers DEF Compares
  <2>7. CASE mem[d] # c /\ d # call.dest
    <3>1. d' = d - 1 /\ UNCHANGED <<mem, call, pc>>
      BY <1>6, <2>7 DEF StrrchrStep
    <3>2. /\ d - 1 \in call.dest .. call.dest + n
          /\ \A i \in (d - 1) + 1 .. call.dest + n : mem[i] # c
      BY <1>0, <2>1, <2>7
    <3>3. SearchingBack'
      BY <2>1, <3>1, <3>2 DEF SearchingBack
    <3> QED
      BY <1>6, <3>1, <3>3 DEF LookInv, AnswersRight, Compares
  <2> QED
    BY <2>5, <2>6, <2>7
<1> QED
  BY <1>3, <1>4, <1>5, <1>6 DEF StrrchrStep

(* The calls: nothing has been passed yet.                                 *)
LEMMA LookBegins ==
    ASSUME IInv, Look
    PROVE  LookInv'
<1> USE MemoryAssumption, CallAssumption DEF MemoryAssumption, CallAssumption
<1>0. \A p \in Pointers : p \in Nat
  BY DEF Addr
<1>1. ASSUME NEW fn \in Compares, NEW s1 \in Pointers, NEW s2 \in Pointers, NEW n \in Nat,
             Looks(fn, s1, s2, n, 0),
             (fn # "strcmp" /\ Inside(s1, n)) \/ (fn # "memcmp" /\ Ends(s1)),
             (fn # "strcmp" /\ Inside(s2, n)) \/ (fn # "memcmp" /\ Ends(s2))
      PROVE  LookInv'
  <2>1. /\ mem' = mem /\ call' = Request(fn, s1, s2, n, 0)
        /\ pc' = fn /\ d' = s1 /\ s' = s2 /\ len' = n
    BY <1>1 DEF Looks, Calls
  <2>2. Equal(mem', s1, s2, 0, pc' # "memcmp")
    BY DEF Equal
  <2>3. Readable(call.dest, 0)' /\ Readable(call.src, 0)'
    BY <1>0, <1>1, <2>1 DEF Readable, Request, Ends, Inside
  <2>4. d' = call'.dest + 0 /\ s' = call'.src + 0 /\ len' = call'.n - 0 /\ call'.n = n
    BY <1>0, <2>1 DEF Request
  <2>5. Comparing'
    BY <1>1, <2>1, <2>2, <2>3, <2>4 DEF Comparing, Request
  <2> QED
    BY <1>1, <2>1, <2>5 DEF LookInv, AnswersRight, Compares
<1>2. ASSUME NEW fn \in {"strlen", "strchr", "strrchr"}, NEW s1 \in Pointers, NEW c \in Nat,
             Looks(fn, s1, s1, 0, c), Ends(s1)
      PROVE  LookInv'
  <2>1. /\ mem' = mem /\ call' = Request(fn, s1, s1, 0, c) /\ pc' = fn /\ d' = s1
    BY <1>2 DEF Looks, Calls
  <2>2. Clean(mem', s1, 0) /\ \E j \in s1 .. LAST : mem'[j] = 0
    BY <1>2, <2>1 DEF Clean, Ends
  <2>3. d' = call'.dest + 0 /\ call'.dest = s1
    BY <1>0, <2>1 DEF Request
  <2>4. Searching'
    BY <2>1, <2>2, <2>3 DEF Searching
  <2> QED
    BY <2>1, <2>4 DEF LookInv, AnswersRight, Compares
<1>3. CASE \E s1, s2 \in Pointers, n \in Counts :
             Inside(s1, n) /\ Inside(s2, n) /\ Looks("memcmp", s1, s2, n, 0)
  BY <1>1, <1>3 DEF Compares
<1>4. CASE \E s1, s2 \in Pointers : Ends(s1) /\ Ends(s2) /\ Looks("strcmp", s1, s2, 0, 0)
  BY <1>1, <1>4 DEF Compares
<1>5. CASE \E s1, s2 \in Pointers, n \in Counts, fn \in {"strncmp", "pcie_strncmp"} :
             /\ Ends(s1) \/ Inside(s1, n)
             /\ Ends(s2) \/ Inside(s2, n)
             /\ Looks(fn, s1, s2, n, 0)
  BY <1>1, <1>5 DEF Compares
<1>6. CASE \/ \E s1 \in Pointers : Ends(s1) /\ Looks("strlen", s1, s1, 0, 0)
           \/ \E s1 \in Pointers, c \in Values, fn \in {"strchr", "strrchr"} :
                Ends(s1) /\ Looks(fn, s1, s1, 0, c)
  BY <1>2, <1>6
<1> QED
  BY <1>3, <1>4, <1>5, <1>6 DEF Look

(* Nothing looks, or a function that writes has returned.                  *)
LEMMA NobodyLooks ==
    ASSUME (pc \notin Looking /\ (pc = "idle" => call.fn \notin Looking))'
    PROVE  LookInv'
BY DEF LookInv, AnswersRight, Looking, Compares

LEMMA InitLookInv == Init => LookInv
BY DEF Init, NoCall, Request, LookInv, AnswersRight, Compares

LEMMA NextLookInv == IInv /\ CallInv /\ LookInv /\ [Next]_vars => LookInv'
<1> SUFFICES ASSUME IInv, CallInv, LookInv, [Next]_vars PROVE LookInv'
  OBVIOUS
<1>1. CASE Align \/ Chunks \/ Bytes \/ BackChunks \/ BackBytes
  BY <1>1, NobodyLooks DEF Align, Chunks, Bytes, BackChunks, BackBytes, Looking, Compares
<1>2. CASE Done
  <2>1. call.fn \notin Looking /\ call' = call
    BY <1>2 DEF Done, CallInv, Running, Whole, Part, Fill, Looking, Compares
  <2>2. pc' \notin Looking
    BY <1>2 DEF Done, Forward, first_loop, Looking, Compares
  <2> QED
    BY <2>1, <2>2, NobodyLooks
<1>3. CASE Scan
  BY <1>3, NobodyLooks DEF Scan, Forward, first_loop, Looking, Compares
<1>4. CASE Memset \/ Memcpy \/ Memmove \/ Strcpy \/ Strncpy
  <2>1. pc' \in {"align", "bytes", "back_chunks", "done", "scan"}
    BY <1>4 DEF Memset, Memcpy, Memmove, Strcpy, Strncpy, Forward, ScanString, first_loop
  <2> QED
    BY <2>1, NobodyLooks DEF Looking, Compares
<1>5. CASE Caller
  BY <1>5, NobodyLooks DEF Caller, NoCall, Request, Looking, Compares
<1>6. CASE UNCHANGED vars
  <2>1. UNCHANGED <<mem, call, d, s, len, pc, result>>
    BY <1>6 DEF vars
  <2>2. Expected' = Expected
    BY <2>1 DEF Expected
  <2>3. Comparing' = Comparing /\ Searching' = Searching /\ SearchingBack' = SearchingBack
    BY <2>1 DEF Comparing, Searching, SearchingBack, Readable, Inside
  <2> QED
    BY <2>1, <2>2, <2>3 DEF LookInv, AnswersRight
<1> QED
  BY <1>1, <1>2, <1>3, <1>4, <1>5, <1>6, ComparisonSteps, SearchSteps, LookBegins DEF Next, Step

(* Every comparison and search gives the answer that C defines, whatever   *)
(* the memory, the pointers and the counts (string.c:109-131, :157-235).   *)
THEOREM LooksRight == Spec => []AnswersRight
<1>1. LookInv => AnswersRight
  BY DEF LookInv
<1> QED
  BY <1>1, InitIInv, NextIInv, InitCallInv, NextCallInv, InitLookInv, NextLookInv, PTL DEF Spec

================================================================================
