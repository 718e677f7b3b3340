--------------------------- MODULE LiballocProofs ---------------------------
(***************************************************************************)
(* Liballoc keeps its inductive invariant IndInv, for every size of page,  *)
(* pool, chunk and request, and so has the properties that the runs of     *)
(* MCLiballoc check on small chunks: TypeOK, TagsTile, LiveOwnTags,        *)
(* ListsSound, NoFreeNeighbours; and it implements Allocator.              *)
(*                                                                         *)
(* IndInv adds what the properties leave open: which block the call in     *)
(* progress has for itself (Worker), what it relies on (Calls), and that   *)
(* the lists do not go in circles (Good).                                  *)
(*                                                                         *)
(* First come facts about the operators on the arena m of boundary tags    *)
(* and free lists, for every arena: what each one changes, and that it     *)
(* keeps an arena good (Good), which means that                            *)
(*   - the blocks tile the chunks they were cut from (Tiles);              *)
(*   - the lists are linked both ways and do not go in circles, for which  *)
(*     Ranked asks for numbers that grow along them (Links);               *)
(*   - a free block is in the class of its size, and no two neighbours are *)
(*     both free (Classed, Apart).                                         *)
(* An arena updated with EXCEPT has a name of its own here (Added, Dropped,*)
(* Resized, Cut), and a lemma about its shape comes first.                 *)
(***************************************************************************)
EXTENDS Liballoc, MemoryLemmas, FiniteSetTheorems

Blocks(m) == DOMAIN m.tags

(* What the arena is made of.                                              *)
Arena(m) ==
    /\ m = [tags |-> m.tags, l_freePages |-> m.l_freePages]
    /\ Blocks(m) \subseteq Nat \ {NULL}
    /\ m.tags \in [Blocks(m) -> Tag]
    /\ m.l_freePages \in [Classes -> Blocks(m) \cup {NULL}]

(* The class of a size is one of those in use.                             *)
LEMMA ClassRange ==
    ASSUME NEW s \in Int
    PROVE  class(s) \in MINEXP..(MAXEXP - 1)
  <1>1. CASE s < 2^MINEXP
    <2>1. getexp(s) = -1
      BY <1>1 DEF getexp
    <2> QED BY <2>1, ClassAssumption DEF class
  <1>2. CASE ~(s < 2^MINEXP)
    <2> DEFINE Fit(e) == 2^e <= s /\ (e = MAXEXP - 1 \/ s < 2^(e + 1))
               Over == {e \in MINEXP..(MAXEXP - 1) : s < 2^e} \cup {MAXEXP}
    <2>1. PICK e \in Over : \A k \in Over : e <= k
      <3>1. Over \in SUBSET Nat /\ MAXEXP \in Over
        BY ClassAssumption
      <3> HIDE DEF Over
      <3> QED BY <3>1, LeastNumber
    <2>2. \A k \in Nat : 2^k \in Int
      OBVIOUS
    <2>3. MINEXP \notin Over
      BY <1>2, ClassAssumption
    <2>4. e - 1 \in MINEXP..(MAXEXP - 1) /\ e - 1 \notin Over
      BY <2>1, <2>3, ClassAssumption
    <2>5. Fit(e - 1)
      <3>1. 2^(e - 1) <= s
        BY <2>2, <2>4, ClassAssumption
      <3>2. (e - 1) + 1 = e /\ (e = MAXEXP \/ s < 2^e)
        BY <2>1, <2>4, ClassAssumption
      <3>3. e - 1 = MAXEXP - 1 \/ s < 2^((e - 1) + 1)
        BY <3>2, ClassAssumption
      <3> QED BY <3>1, <3>3
    <2>6. getexp(s) = CHOOSE k \in MINEXP..(MAXEXP - 1) : Fit(k)
      BY <1>2 DEF getexp
    <2>7. getexp(s) \in MINEXP..(MAXEXP - 1)
      BY <2>4, <2>5, <2>6
    <2> QED BY <2>7, ClassAssumption DEF class
  <1>3. s < 2^MINEXP \/ ~(s < 2^MINEXP)
    OBVIOUS
  <1> QED BY <1>1, <1>2, <1>3

(* The fields of a boundary tag.                                           *)
LEMMA ArenaFields ==
    ASSUME NEW m, Arena(m), NEW t \in Blocks(m)
    PROVE  /\ t \in Nat \ {NULL} /\ m.tags[t] \in Tag
           /\ m.tags[t].size \in Nat /\ m.tags[t].real_size \in Nat
           /\ m.tags[t].index \in Int
           /\ m.tags[t].index = -1 \/ m.tags[t].index \in MINEXP..(MAXEXP - 1)
           /\ m.tags[t].index # -1 => m.tags[t].index \in Classes
           /\ m.tags[t].split_left \in Nat /\ m.tags[t].split_right \in Nat
           /\ m.tags[t].next \in Nat /\ m.tags[t].prev \in Nat
  BY ClassAssumption DEF Arena, Tag, Classes

(* A tag stays one when a field gets a value of its type.                  *)
LEMMA TagUpdates ==
    ASSUME NEW g \in Tag, NEW a \in Nat, NEW i \in {-1} \cup (MINEXP..(MAXEXP - 1))
    PROVE  /\ [g EXCEPT !.next = a] \in Tag /\ [g EXCEPT !.prev = a] \in Tag
           /\ [g EXCEPT !.real_size = a] \in Tag /\ [g EXCEPT !.size = a] \in Tag
           /\ [g EXCEPT !.split_left = a] \in Tag /\ [g EXCEPT !.split_right = a] \in Tag
           /\ [g EXCEPT !.index = i] \in Tag
           /\ [g EXCEPT !.next = NULL, !.prev = NULL, !.index = -1] \in Tag
  BY DEF Tag, NULL

(* Where a block's neighbours are and how much room it has.                *)
SameSplit(g, h) ==
    /\ h.real_size = g.real_size
    /\ h.split_left = g.split_left /\ h.split_right = g.split_right

(* remove_tag on a block whose links lead to blocks.                       *)
LEMMA RemoveShape ==
    ASSUME NEW m, Arena(m), NEW t \in Blocks(m), m.tags[t].index # -1,
           m.tags[t].next \in Blocks(m) \cup {NULL},
           m.tags[t].prev \in Blocks(m) \cup {NULL},
           NEW n, n = remove_tag(m, t)
    PROVE  /\ Arena(n) /\ Blocks(n) = Blocks(m)
           /\ \A u \in Blocks(m) :
                 /\ SameSplit(m.tags[u], n.tags[u])
                 /\ n.tags[u].index = IF u = t THEN -1 ELSE m.tags[u].index
                 /\ n.tags[u].next = IF u = t THEN NULL
                                     ELSE IF u = m.tags[t].prev THEN m.tags[t].next
                                     ELSE m.tags[u].next
                 /\ n.tags[u].prev = IF u = t THEN NULL
                                     ELSE IF u = m.tags[t].next THEN m.tags[t].prev
                                     ELSE m.tags[u].prev
           /\ \A i \in Classes :
                 n.l_freePages[i] = IF i = m.tags[t].index /\ m.l_freePages[i] = t
                                    THEN m.tags[t].next ELSE m.l_freePages[i]
  <1> DEFINE g == m.tags[t]
             head == IF m.l_freePages[g.index] # t THEN m
                     ELSE [m EXCEPT !.l_freePages[g.index] = g.next]
             left == IF g.prev = NULL THEN head
                     ELSE [head EXCEPT !.tags[g.prev].next = g.next]
             both == IF g.next = NULL THEN left
                     ELSE [left EXCEPT !.tags[g.next].prev = g.prev]
             bare == [g EXCEPT !.next = NULL, !.prev = NULL, !.index = -1]
  <1>0. n = [both EXCEPT !.tags[t] = bare]
    BY DEF remove_tag
  <1>1. /\ g \in Tag /\ g.index \in Classes /\ bare \in Tag
        /\ g.next \in Nat /\ g.prev \in Nat
    BY ArenaFields, TagUpdates
  <1>2. /\ head = [tags |-> m.tags, l_freePages |-> head.l_freePages]
        /\ head.l_freePages \in [Classes -> Blocks(m) \cup {NULL}]
        /\ \A i \in Classes :
              head.l_freePages[i] = IF i = g.index /\ m.l_freePages[i] = t
                                    THEN g.next ELSE m.l_freePages[i]
    BY <1>1 DEF Arena, Blocks
  <1> HIDE DEF head
  <1>3. /\ left = [tags |-> left.tags, l_freePages |-> head.l_freePages]
        /\ left.tags \in [Blocks(m) -> Tag]
        /\ \A u \in Blocks(m) :
              left.tags[u] = IF u = g.prev THEN [m.tags[u] EXCEPT !.next = g.next] ELSE m.tags[u]
    <2>1. CASE g.prev = NULL
      BY <1>2, <2>1 DEF Arena, Blocks
    <2>2. CASE g.prev # NULL
      <3>1. left = [tags |-> [m.tags EXCEPT ![g.prev] = [@ EXCEPT !.next = g.next]],
                    l_freePages |-> head.l_freePages]
        BY <1>2, <2>2 DEF Arena, Blocks
      <3>2. [m.tags[g.prev] EXCEPT !.next = g.next] \in Tag
        BY <1>1, <2>2, ArenaFields, TagUpdates
      <3> HIDE DEF left
      <3> QED BY <3>1, <3>2, <2>2 DEF Arena, Blocks
    <2> QED BY <2>1, <2>2
  <1> HIDE DEF left
  <1>4. /\ both = [tags |-> both.tags, l_freePages |-> head.l_freePages]
        /\ both.tags \in [Blocks(m) -> Tag]
        /\ \A u \in Blocks(m) :
              both.tags[u] = IF u = g.next THEN [left.tags[u] EXCEPT !.prev = g.prev] ELSE left.tags[u]
    <2>1. CASE g.next = NULL
      BY <1>3, <2>1 DEF Arena, Blocks
    <2>2. CASE g.next # NULL
      <3>1. both = [tags |-> [left.tags EXCEPT ![g.next] = [@ EXCEPT !.prev = g.prev]],
                    l_freePages |-> head.l_freePages]
        BY <1>3, <2>2 DEF Arena, Blocks
      <3>2. [left.tags[g.next] EXCEPT !.prev = g.prev] \in Tag
        BY <1>1, <1>3, <2>2, TagUpdates
      <3> HIDE DEF both
      <3> QED BY <1>3, <3>1, <3>2, <2>2 DEF Arena, Blocks
    <2> QED BY <2>1, <2>2
  <1> HIDE DEF both
  <1>5. n = [tags |-> [both.tags EXCEPT ![t] = bare], l_freePages |-> head.l_freePages]
    BY <1>0, <1>4
  <1>6. /\ n.tags \in [Blocks(m) -> Tag] /\ Blocks(n) = Blocks(m)
        /\ n.l_freePages = head.l_freePages
        /\ n.tags[t] = bare
        /\ \A u \in Blocks(m) : u # t => n.tags[u] = both.tags[u]
    BY <1>1, <1>4, <1>5 DEF Blocks
  <1>7. Arena(n)
    BY <1>2, <1>5, <1>6 DEF Arena
  <1>8. SameSplit(g, bare) /\ bare.index = -1 /\ bare.next = NULL /\ bare.prev = NULL
    BY <1>1 DEF SameSplit, Tag
  <1> HIDE DEF bare
  <1>9. ASSUME NEW u \in Blocks(m), u # t
        PROVE  /\ SameSplit(m.tags[u], both.tags[u])
               /\ both.tags[u].index = m.tags[u].index
               /\ both.tags[u].next = IF u = g.prev THEN g.next ELSE m.tags[u].next
               /\ both.tags[u].prev = IF u = g.next THEN g.prev ELSE m.tags[u].prev
    <2>1. m.tags[u] \in Tag /\ left.tags[u] \in Tag /\ both.tags[u] \in Tag
      BY <1>3, <1>4, ArenaFields
    <2>2. /\ SameSplit(m.tags[u], left.tags[u])
          /\ left.tags[u].index = m.tags[u].index
          /\ left.tags[u].next = IF u = g.prev THEN g.next ELSE m.tags[u].next
          /\ left.tags[u].prev = m.tags[u].prev
      BY <1>3, <2>1 DEF SameSplit, Tag
    <2>3. /\ SameSplit(left.tags[u], both.tags[u])
          /\ both.tags[u].index = left.tags[u].index
          /\ both.tags[u].next = left.tags[u].next
          /\ both.tags[u].prev = IF u = g.next THEN g.prev ELSE left.tags[u].prev
      BY <1>4, <2>1 DEF SameSplit, Tag
    <2> QED BY <2>2, <2>3 DEF SameSplit
  <1> QED BY <1>2, <1>6, <1>7, <1>8, <1>9

(* insert_tag on a block that is on no list.                               *)
LEMMA InsertShape ==
    ASSUME NEW m, Arena(m), NEW t \in Blocks(m), NEW i \in MINEXP..(MAXEXP - 1),
           m.tags[t].index = -1, m.tags[t].next = NULL, m.l_freePages[i] # t,
           NEW n, n = insert_tag(m, t, i)
    PROVE  /\ Arena(n) /\ Blocks(n) = Blocks(m)
           /\ \A u \in Blocks(m) :
                 /\ SameSplit(m.tags[u], n.tags[u])
                 /\ n.tags[u].index = IF u = t THEN i ELSE m.tags[u].index
                 /\ n.tags[u].next = IF u = t THEN m.l_freePages[i] ELSE m.tags[u].next
                 /\ n.tags[u].prev = IF u = m.l_freePages[i] THEN t ELSE m.tags[u].prev
           /\ \A j \in Classes :
                 n.l_freePages[j] = IF j = i THEN t ELSE m.l_freePages[j]
  <1> DEFINE head == m.l_freePages[i]
             linked == IF head = NULL THEN m
                       ELSE [m EXCEPT !.tags[head].prev = t, !.tags[t].next = head]
  <1>0. n = [linked EXCEPT !.tags[t].index = i, !.l_freePages[i] = t]
    BY DEF insert_tag
  <1>1. i \in Classes /\ head \in Blocks(m) \cup {NULL} /\ t \in Nat /\ head \in Nat
    BY ClassAssumption DEF Arena, Classes, NULL
  <1>2. /\ linked = [tags |-> linked.tags, l_freePages |-> m.l_freePages]
        /\ linked.tags \in [Blocks(m) -> Tag]
        /\ \A u \in Blocks(m) :
              /\ SameSplit(m.tags[u], linked.tags[u])
              /\ linked.tags[u].index = m.tags[u].index
              /\ linked.tags[u].next = IF u = t THEN head ELSE m.tags[u].next
              /\ linked.tags[u].prev = IF u = head THEN t ELSE m.tags[u].prev
    <2>1. CASE head = NULL
      BY <2>1 DEF Arena, Blocks, SameSplit
    <2>2. CASE head # NULL
      <3> DEFINE T1 == [m.tags EXCEPT ![head] = [@ EXCEPT !.prev = t]]
                 T2 == [T1 EXCEPT ![t] = [@ EXCEPT !.next = head]]
      <3>1. linked = [tags |-> T2, l_freePages |-> m.l_freePages]
        BY <2>2 DEF Arena, Blocks
      <3>2. /\ T1 \in [Blocks(m) -> Tag]
            /\ T1[head] = [m.tags[head] EXCEPT !.prev = t]
            /\ \A u \in Blocks(m) : u # head => T1[u] = m.tags[u]
        BY <1>1, <2>2, ArenaFields, TagUpdates DEF Arena, Blocks
      <3> HIDE DEF T1
      <3>3. T1[t] \in Tag
        BY <3>2
      <3>4. [T1[t] EXCEPT !.next = head] \in Tag
        BY <1>1, <3>3, TagUpdates
      <3>5. /\ T2 \in [Blocks(m) -> Tag]
            /\ T2[t] = [T1[t] EXCEPT !.next = head]
            /\ \A u \in Blocks(m) : u # t => T2[u] = T1[u]
        BY <3>2, <3>4 DEF Blocks
      <3> HIDE DEF T2
      <3> HIDE DEF linked
      <3>6. linked.tags = T2
        BY <3>1
      <3>7. ASSUME NEW u \in Blocks(m)
            PROVE  /\ SameSplit(m.tags[u], T1[u])
                   /\ T1[u].index = m.tags[u].index
                   /\ T1[u].next = m.tags[u].next
                   /\ T1[u].prev = IF u = head THEN t ELSE m.tags[u].prev
        BY <3>2, ArenaFields DEF SameSplit, Tag
      <3>8. ASSUME NEW u \in Blocks(m)
            PROVE  /\ SameSplit(T1[u], T2[u])
                   /\ T2[u].index = T1[u].index
                   /\ T2[u].next = IF u = t THEN head ELSE T1[u].next
                   /\ T2[u].prev = T1[u].prev
        <4>1. T1[u] \in Tag
          BY <3>2
        <4> QED BY <4>1, <3>5 DEF SameSplit, Tag
      <3> QED BY <3>1, <3>5, <3>6, <3>7, <3>8 DEF SameSplit
    <2> QED BY <2>1, <2>2
  <1> HIDE DEF linked
  <1>3. n = [tags |-> [linked.tags EXCEPT ![t] = [@ EXCEPT !.index = i]],
             l_freePages |-> [m.l_freePages EXCEPT ![i] = t]]
    <2> DEFINE marked == [linked EXCEPT !.tags[t].index = i]
    <2>1. marked = [tags |-> [linked.tags EXCEPT ![t] = [@ EXCEPT !.index = i]],
                    l_freePages |-> m.l_freePages]
      BY <1>2
    <2>2. n = [marked EXCEPT !.l_freePages[i] = t]
      BY <1>0, Zenon
    <2> HIDE DEF marked
    <2> QED BY <2>1, <2>2
  <1>4. linked.tags[t] \in Tag
    BY <1>2
  <1>5. [linked.tags[t] EXCEPT !.index = i] \in Tag
    BY <1>1, <1>4, TagUpdates
  <1>6. /\ n.tags \in [Blocks(m) -> Tag] /\ Blocks(n) = Blocks(m)
        /\ n.l_freePages = [m.l_freePages EXCEPT ![i] = t]
        /\ n.tags[t] = [linked.tags[t] EXCEPT !.index = i]
        /\ \A u \in Blocks(m) : u # t => n.tags[u] = linked.tags[u]
    BY <1>2, <1>3, <1>5 DEF Blocks
  <1>7. Arena(n)
    BY <1>1, <1>3, <1>6 DEF Arena
  <1>8. \A j \in Classes : n.l_freePages[j] = IF j = i THEN t ELSE m.l_freePages[j]
    BY <1>1, <1>6 DEF Arena
  <1>9. ASSUME NEW u \in Blocks(m)
        PROVE  /\ SameSplit(linked.tags[u], n.tags[u])
               /\ n.tags[u].index = IF u = t THEN i ELSE linked.tags[u].index
               /\ n.tags[u].next = linked.tags[u].next
               /\ n.tags[u].prev = linked.tags[u].prev
    <2>1. linked.tags[u] \in Tag
      BY <1>2
    <2> QED BY <2>1, <1>6 DEF SameSplit, Tag
  <1> QED BY <1>2, <1>6, <1>7, <1>8, <1>9 DEF SameSplit

(* Block a takes in block b, which is on no list.                          *)
LEMMA JoinShape ==
    ASSUME NEW m, Arena(m), NEW a \in Blocks(m), NEW b \in Blocks(m), a # b,
           m.tags[b].split_right \in (Blocks(m) \ {a, b}) \cup {NULL},
           m.tags[a].real_size + m.tags[b].real_size < UINT_MOD,
           \A i \in Classes : m.l_freePages[i] # b,
           NEW n, n = join(m, a, b)
    PROVE  /\ Arena(n) /\ Blocks(n) = Blocks(m) \ {b}
           /\ n.l_freePages = m.l_freePages
           /\ \A u \in Blocks(n) :
                 /\ n.tags[u].index = m.tags[u].index
                 /\ n.tags[u].next = m.tags[u].next /\ n.tags[u].prev = m.tags[u].prev
                 /\ n.tags[u].real_size = IF u = a
                                          THEN m.tags[a].real_size + m.tags[b].real_size
                                          ELSE m.tags[u].real_size
                 /\ n.tags[u].split_right = IF u = a THEN m.tags[b].split_right
                                            ELSE m.tags[u].split_right
                 /\ n.tags[u].split_left = IF u = m.tags[b].split_right THEN a
                                           ELSE m.tags[u].split_left
  <1> DEFINE right == m.tags[b].split_right
             sum   == m.tags[a].real_size + m.tags[b].real_size
             T1    == [m.tags EXCEPT ![a].real_size = sum % UINT_MOD, ![a].split_right = right]
             big   == [m.tags[a] EXCEPT !.real_size = sum, !.split_right = right]
             T2    == IF right = NULL THEN T1 ELSE [T1 EXCEPT ![right].split_left = a]
  <1>1. sum \in Nat /\ sum % UINT_MOD = sum /\ right \in Nat /\ a \in Nat /\ m.tags[a] \in Tag
    <2>1. sum \in Nat /\ right \in Nat /\ a \in Nat /\ m.tags[a] \in Tag
      BY ArenaFields
    <2> QED BY <2>1, LowMemoryAssumption
  <1>2. big \in Tag
    <2>1. [m.tags[a] EXCEPT !.real_size = sum] \in Tag
      BY <1>1, TagUpdates
    <2>2. [[m.tags[a] EXCEPT !.real_size = sum] EXCEPT !.split_right = right] \in Tag
      BY <1>1, <2>1, TagUpdates
    <2> QED BY <2>2
  <1>3. /\ T1 \in [Blocks(m) -> Tag] /\ T1[a] = big
        /\ \A u \in Blocks(m) : u # a => T1[u] = m.tags[u]
    <2>1. T1 = [m.tags EXCEPT ![a] = big]
      BY <1>1 DEF Arena, Blocks
    <2> HIDE DEF big, T1
    <2> QED BY <1>2, <2>1 DEF Arena, Blocks
  <1>4. n = [m EXCEPT !.tags = Without(T2, b)]
    BY DEF join
  <1> HIDE DEF T1
  <1>5. /\ T2 \in [Blocks(m) -> Tag]
        /\ right # NULL => T2[right] = [T1[right] EXCEPT !.split_left = a]
        /\ \A u \in Blocks(m) : u # right => T2[u] = T1[u]
    <2>1. CASE right = NULL
      BY <1>3, <2>1 DEF Arena
    <2>2. CASE right # NULL
      <3>1. [T1[right] EXCEPT !.split_left = a] \in Tag
        BY <1>1, <1>3, <2>2, TagUpdates
      <3> QED BY <1>3, <2>2, <3>1 DEF Arena
    <2> QED BY <2>1, <2>2
  <1> HIDE DEF T2
  <1>6. /\ Without(T2, b) \in [Blocks(m) \ {b} -> Tag]
        /\ \A u \in Blocks(m) \ {b} : Without(T2, b)[u] = T2[u]
    BY <1>5 DEF Without, Restrict
  <1>7. /\ n = [tags |-> Without(T2, b), l_freePages |-> m.l_freePages]
        /\ n.tags = Without(T2, b) /\ n.l_freePages = m.l_freePages
    BY <1>4 DEF Arena
  <1>8. Blocks(n) = Blocks(m) \ {b} /\ Arena(n)
    <2>1. Blocks(n) = Blocks(m) \ {b}
      BY <1>6, <1>7 DEF Blocks
    <2>2. m.l_freePages \in [Classes -> Blocks(n) \cup {NULL}]
      BY <2>1 DEF Arena
    <2> QED BY <1>6, <1>7, <2>1, <2>2 DEF Arena
  <1>9. ASSUME NEW u \in Blocks(n)
        PROVE  /\ n.tags[u] = T2[u] /\ u \in Blocks(m) /\ m.tags[u] \in Tag
               /\ T1[u] \in Tag
    BY <1>3, <1>6, <1>7, <1>8, ArenaFields
  <1>10. ASSUME NEW u \in Blocks(n)
         PROVE  /\ T1[u].index = m.tags[u].index
                /\ T1[u].next = m.tags[u].next /\ T1[u].prev = m.tags[u].prev
                /\ T1[u].real_size = IF u = a THEN sum ELSE m.tags[u].real_size
                /\ T1[u].split_right = IF u = a THEN right ELSE m.tags[u].split_right
                /\ T1[u].split_left = m.tags[u].split_left
    <2>1. CASE u = a
      BY <1>1, <1>3, <2>1 DEF Tag
    <2>2. CASE u # a
      BY <1>3, <1>9, <2>2
    <2> QED BY <2>1, <2>2
  <1>11. ASSUME NEW u \in Blocks(n)
         PROVE  /\ n.tags[u].index = T1[u].index
                /\ n.tags[u].next = T1[u].next /\ n.tags[u].prev = T1[u].prev
                /\ n.tags[u].real_size = T1[u].real_size
                /\ n.tags[u].split_right = T1[u].split_right
                /\ n.tags[u].split_left = IF u = right THEN a ELSE T1[u].split_left
    <2>1. CASE u = right
      <3>1. right # NULL
        BY <2>1, <1>8 DEF Arena
      <3> QED BY <1>1, <1>5, <1>9, <2>1, <3>1 DEF Tag
    <2>2. CASE u # right
      BY <1>5, <1>9, <2>2
    <2> QED BY <2>1, <2>2
  <1> QED BY <1>7, <1>8, <1>10, <1>11

(* A new block k with tag g, which is on no list.                          *)
Added(m, k, g) == [m EXCEPT !.tags = With(@, k, g)]

(* A block with its tag is added.                                          *)
LEMMA AddShape ==
    ASSUME NEW m, Arena(m), NEW k \in Nat \ {NULL}, k \notin Blocks(m),
           NEW g \in Tag, NEW n, n = Added(m, k, g)
    PROVE  /\ Arena(n) /\ Blocks(n) = Blocks(m) \cup {k}
           /\ n.l_freePages = m.l_freePages
           /\ n.tags[k] = g
           /\ \A u \in Blocks(m) : n.tags[u] = m.tags[u]
  <1>1. n = [tags |-> With(m.tags, k, g), l_freePages |-> m.l_freePages]
    BY DEF Arena, Added
  <1>2. /\ With(m.tags, k, g) \in [Blocks(m) \cup {k} -> Tag]
        /\ With(m.tags, k, g)[k] = g
        /\ \A u \in Blocks(m) : With(m.tags, k, g)[u] = m.tags[u]
    BY DEF With, Arena, Blocks
  <1>3. n.tags = With(m.tags, k, g) /\ n.l_freePages = m.l_freePages
    BY <1>1
  <1>4. Blocks(n) = Blocks(m) \cup {k}
    BY <1>2, <1>3 DEF Blocks
  <1>5. n.l_freePages \in [Classes -> Blocks(n) \cup {NULL}]
    BY <1>3, <1>4 DEF Arena
  <1>6. n = [tags |-> n.tags, l_freePages |-> n.l_freePages]
    BY <1>1, <1>3
  <1> HIDE DEF With
  <1>7. Blocks(n) \subseteq Nat \ {NULL} /\ n.tags \in [Blocks(n) -> Tag]
    BY <1>2, <1>3, <1>4 DEF Arena
  <1> QED BY <1>2, <1>3, <1>4, <1>5, <1>6, <1>7 DEF Arena

-----------------------------------------------------------------------------
(* The lists are doubly linked, within one class each, and a block that is *)
(* on none has no links.                                                   *)
Links(m) ==
    /\ \A t \in Blocks(m) :
          LET g == m.tags[t]
          IN  /\ g.index = -1 => g.next = NULL /\ g.prev = NULL
              /\ g.next # NULL => /\ g.next \in Blocks(m)
                                  /\ m.tags[g.next].prev = t
                                  /\ m.tags[g.next].index = g.index
              /\ g.prev # NULL => /\ g.prev \in Blocks(m)
                                  /\ m.tags[g.prev].next = t
                                  /\ m.tags[g.prev].index = g.index
              /\ g.index # -1 /\ g.prev = NULL => m.l_freePages[g.index] = t
    /\ \A i \in Classes : m.l_freePages[i] # NULL =>
          m.tags[m.l_freePages[i]].index = i /\ m.tags[m.l_freePages[i]].prev = NULL

(* No list is a circle: the blocks have ranks that grow along the lists.   *)
Ranks(m, rank) ==
    /\ rank \in [Blocks(m) -> Nat]
    /\ \A t \in Blocks(m) : m.tags[t].next # NULL => rank[t] < rank[m.tags[t].next]
Ranked(m) == \E rank : Ranks(m, rank)

(* Taking a block from its list leaves all lists linked.                   *)
LEMMA RemoveLinks ==
    ASSUME NEW m, Arena(m), Links(m), Ranked(m),
           NEW t \in Blocks(m), m.tags[t].index # -1,
           NEW n, n = remove_tag(m, t)
    PROVE  Links(n) /\ Ranked(n)
  <1> DEFINE g == m.tags[t]
  <1>1. g.next \in Blocks(m) \cup {NULL} /\ g.prev \in Blocks(m) \cup {NULL}
    BY DEF Links
  <1>2. /\ Arena(n) /\ Blocks(n) = Blocks(m)
        /\ \A u \in Blocks(m) :
              /\ n.tags[u].index = IF u = t THEN -1 ELSE m.tags[u].index
              /\ n.tags[u].next = IF u = t THEN NULL
                                  ELSE IF u = g.prev THEN g.next ELSE m.tags[u].next
              /\ n.tags[u].prev = IF u = t THEN NULL
                                  ELSE IF u = g.next THEN g.prev ELSE m.tags[u].prev
        /\ \A i \in Classes :
              n.l_freePages[i] = IF i = g.index /\ m.l_freePages[i] = t
                                 THEN g.next ELSE m.l_freePages[i]
    BY <1>1, RemoveShape
  <1>3. NULL \notin Blocks(m) /\ g.index \in Classes
    BY ArenaFields DEF Arena
  <1>4. PICK rank : Ranks(m, rank)
    BY DEF Ranked
  <1>5. \A u \in Blocks(m) : rank[u] \in Nat
    BY <1>4 DEF Ranks
  <1>6. g.next # t
    BY <1>3, <1>4, <1>5 DEF Ranks
  <1>7. g.prev # t
    BY <1>3, <1>6 DEF Links
  <1>8. ASSUME NEW u \in Blocks(m), u # t
        PROVE  m.tags[u].next = t <=> u = g.prev
    BY <1>3 DEF Links
  <1>9. ASSUME NEW u \in Blocks(m), u # t
        PROVE  m.tags[u].prev = t <=> u = g.next
    BY <1>3 DEF Links
  <1>10. Ranks(n, rank)
    <2>1. g.prev # NULL => rank[g.prev] < rank[t]
      BY <1>3, <1>4 DEF Ranks, Links
    <2>2. g.next # NULL => rank[t] < rank[g.next]
      BY <1>4 DEF Ranks
    <2>3. ASSUME NEW u \in Blocks(m), n.tags[u].next # NULL
          PROVE  rank[u] < rank[n.tags[u].next]
      BY <1>1, <1>2, <1>3, <1>4, <1>5, <2>1, <2>2, <2>3 DEF Ranks
    <2> QED BY <1>2, <1>4, <2>3 DEF Ranks
  <1>11. ASSUME NEW u \in Blocks(m), u # t
         PROVE  /\ n.tags[u].index = -1 => n.tags[u].next = NULL /\ n.tags[u].prev = NULL
                /\ n.tags[u].next # NULL => /\ n.tags[u].next \in Blocks(m)
                                            /\ n.tags[n.tags[u].next].prev = u
                                            /\ n.tags[n.tags[u].next].index = n.tags[u].index
                /\ n.tags[u].prev # NULL => /\ n.tags[u].prev \in Blocks(m)
                                            /\ n.tags[n.tags[u].prev].next = u
                                            /\ n.tags[n.tags[u].prev].index = n.tags[u].index
                /\ n.tags[u].index # -1 /\ n.tags[u].prev = NULL =>
                      n.l_freePages[n.tags[u].index] = u
    <2>1. n.tags[u].index = m.tags[u].index
      BY <1>2, <1>11
    <2>2. m.tags[u].index = -1 => n.tags[u].next = NULL /\ n.tags[u].prev = NULL
      BY <1>2, <1>3, <1>8, <1>9, <1>11 DEF Links
    <2>3. n.tags[u].next # NULL => /\ n.tags[u].next \in Blocks(m)
                                   /\ n.tags[n.tags[u].next].prev = u
                                   /\ n.tags[n.tags[u].next].index = n.tags[u].index
      <3>1. CASE u = g.prev
        <4>1. n.tags[u].next = g.next
          BY <1>2, <1>11, <3>1
        <4>2. g.next # NULL => /\ n.tags[g.next].prev = u
                               /\ n.tags[g.next].index = m.tags[g.next].index
          BY <1>1, <1>2, <1>6, <3>1
        <4>3. /\ g.next # NULL => m.tags[g.next].index = g.index
              /\ m.tags[u].index = g.index
          BY <1>3, <3>1 DEF Links
        <4> QED BY <1>1, <2>1, <4>1, <4>2, <4>3
      <3>2. CASE u # g.prev
        BY <1>2, <1>3, <1>8, <1>9, <1>11, <3>2 DEF Links
      <3> QED BY <3>1, <3>2
    <2>4. n.tags[u].prev # NULL => /\ n.tags[u].prev \in Blocks(m)
                                   /\ n.tags[n.tags[u].prev].next = u
                                   /\ n.tags[n.tags[u].prev].index = n.tags[u].index
      <3>1. CASE u = g.next
        <4>1. n.tags[u].prev = g.prev
          BY <1>2, <1>11, <3>1
        <4>2. g.prev # NULL => /\ n.tags[g.prev].next = u
                               /\ n.tags[g.prev].index = m.tags[g.prev].index
          BY <1>1, <1>2, <1>7, <3>1
        <4>3. /\ g.prev # NULL => m.tags[g.prev].index = g.index
              /\ m.tags[u].index = g.index
          BY <1>3, <3>1 DEF Links
        <4> QED BY <1>1, <2>1, <4>1, <4>2, <4>3
      <3>2. CASE u # g.next
        BY <1>2, <1>3, <1>8, <1>9, <1>11, <3>2 DEF Links
      <3> QED BY <3>1, <3>2
    <2>5. m.tags[u].index # -1 /\ n.tags[u].prev = NULL =>
             n.l_freePages[m.tags[u].index] = u
      <3>1. m.tags[u].index # -1 => m.tags[u].index \in Classes
        BY ArenaFields
      <3>2. CASE u = g.next
        BY <1>1, <1>2, <1>3, <1>11, <3>1, <3>2 DEF Links
      <3>3. CASE u # g.next
        BY <1>2, <1>3, <1>11, <3>1, <3>3 DEF Links
      <3> QED BY <3>2, <3>3
    <2> QED BY <2>1, <2>2, <2>3, <2>4, <2>5
  <1>12. n.tags[t].index = -1 /\ n.tags[t].next = NULL /\ n.tags[t].prev = NULL
    BY <1>2
  <1>13. ASSUME NEW i \in Classes, n.l_freePages[i] # NULL
         PROVE  n.tags[n.l_freePages[i]].index = i /\ n.tags[n.l_freePages[i]].prev = NULL
    <2>1. m.l_freePages[i] \in Blocks(m) \cup {NULL}
      BY DEF Arena
    <2>2. CASE i = g.index /\ m.l_freePages[i] = t
      BY <1>1, <1>2, <1>3, <1>6, <1>13, <2>2 DEF Links
    <2>3. CASE ~(i = g.index /\ m.l_freePages[i] = t)
      <3>1. n.l_freePages[i] = m.l_freePages[i]
        BY <1>2, <2>3
      <3> DEFINE h == m.l_freePages[i]
      <3>2. h \in Blocks(m) /\ m.tags[h].index = i /\ m.tags[h].prev = NULL
        BY <1>13, <2>1, <3>1 DEF Links
      <3>3. h # t
        BY <2>3, <3>2
      <3>4. h # g.next
        BY <1>3, <3>2, <3>3 DEF Links
      <3> QED BY <1>2, <3>1, <3>2, <3>3, <3>4
    <2> QED BY <2>2, <2>3
  <1>14. Links(n)
    BY <1>2, <1>11, <1>12, <1>13 DEF Links
  <1> QED BY <1>10, <1>14 DEF Ranked

(* Putting a block at the head of a list leaves all lists linked.          *)
LEMMA InsertLinks ==
    ASSUME NEW m, Arena(m), Links(m), Ranked(m),
           NEW t \in Blocks(m), m.tags[t].index = -1,
           NEW i \in MINEXP..(MAXEXP - 1),
           NEW n, n = insert_tag(m, t, i)
    PROVE  Links(n) /\ Ranked(n)
  <1> DEFINE h == m.l_freePages[i]
  <1>0. i \in Classes /\ i \in Nat /\ NULL \notin Blocks(m) /\ h \in Blocks(m) \cup {NULL}
    BY ClassAssumption DEF Classes, Arena
  <1>1. h # t /\ m.tags[t].next = NULL /\ m.tags[t].prev = NULL
    BY <1>0 DEF Links
  <1>2. /\ Arena(n) /\ Blocks(n) = Blocks(m)
        /\ \A u \in Blocks(m) :
              /\ n.tags[u].index = IF u = t THEN i ELSE m.tags[u].index
              /\ n.tags[u].next = IF u = t THEN h ELSE m.tags[u].next
              /\ n.tags[u].prev = IF u = h THEN t ELSE m.tags[u].prev
        /\ \A j \in Classes : n.l_freePages[j] = IF j = i THEN t ELSE m.l_freePages[j]
    BY <1>1, InsertShape
  <1>3. \A u \in Blocks(m) : m.tags[u].next # t /\ m.tags[u].prev # t
    BY <1>0, <1>1 DEF Links
  <1>4. h # NULL => /\ m.tags[h].index = i /\ m.tags[h].prev = NULL
    BY <1>0 DEF Links
  <1>5. PICK rank : Ranks(m, rank)
    BY DEF Ranked
  <1> DEFINE later == [u \in Blocks(m) |-> IF u = t THEN 0 ELSE rank[u] + 1]
  <1>6. Ranks(n, later)
    <2>1. \A u \in Blocks(m) : rank[u] \in Nat
      BY <1>5 DEF Ranks
    <2>2. later \in [Blocks(m) -> Nat]
      BY <2>1
    <2>3. ASSUME NEW u \in Blocks(m), n.tags[u].next # NULL
          PROVE  later[u] < later[n.tags[u].next]
      <3>1. n.tags[u].next \in Blocks(m) /\ n.tags[u].next # t
        BY <1>0, <1>1, <1>2, <1>3, <2>3 DEF Links
      <3>2. u # t => rank[u] < rank[n.tags[u].next]
        BY <1>2, <1>5, <2>3 DEF Ranks
      <3> QED BY <2>1, <3>1, <3>2
    <2> QED BY <1>2, <2>2, <2>3 DEF Ranks
  <1>7. ASSUME NEW u \in Blocks(m)
        PROVE  /\ n.tags[u].index = -1 => n.tags[u].next = NULL /\ n.tags[u].prev = NULL
               /\ n.tags[u].next # NULL => /\ n.tags[u].next \in Blocks(m)
                                           /\ n.tags[n.tags[u].next].prev = u
                                           /\ n.tags[n.tags[u].next].index = n.tags[u].index
               /\ n.tags[u].prev # NULL => /\ n.tags[u].prev \in Blocks(m)
                                           /\ n.tags[n.tags[u].prev].next = u
                                           /\ n.tags[n.tags[u].prev].index = n.tags[u].index
               /\ n.tags[u].index # -1 /\ n.tags[u].prev = NULL =>
                     n.l_freePages[n.tags[u].index] = u
    <2>1. n.tags[u].index = -1 => n.tags[u].next = NULL /\ n.tags[u].prev = NULL
      BY <1>0, <1>1, <1>2, <1>4 DEF Links
    <2>2. n.tags[u].next # NULL => /\ n.tags[u].next \in Blocks(m)
                                   /\ n.tags[n.tags[u].next].prev = u
                                   /\ n.tags[n.tags[u].next].index = n.tags[u].index
      <3>1. CASE u = t
        BY <1>0, <1>1, <1>2, <1>4, <3>1
      <3>2. CASE u # t
        <4>1. n.tags[u].next = m.tags[u].next
          BY <1>2, <3>2
        <4>2. m.tags[u].next # NULL => m.tags[u].next # h
          BY <1>0, <1>4 DEF Links
        <4> QED BY <1>2, <1>3, <3>2, <4>1, <4>2 DEF Links
      <3> QED BY <3>1, <3>2
    <2>3. n.tags[u].prev # NULL => /\ n.tags[u].prev \in Blocks(m)
                                   /\ n.tags[n.tags[u].prev].next = u
                                   /\ n.tags[n.tags[u].prev].index = n.tags[u].index
      <3>1. CASE u = h
        BY <1>0, <1>1, <1>2, <1>4, <3>1
      <3>2. CASE u # h
        BY <1>1, <1>2, <1>3, <3>2 DEF Links
      <3> QED BY <3>1, <3>2
    <2>4. n.tags[u].index # -1 /\ n.tags[u].prev = NULL =>
             n.l_freePages[n.tags[u].index] = u
      <3>1. CASE u = t
        BY <1>0, <1>2, <3>1
      <3>2. CASE u # t
        <4>1. n.tags[u].index = m.tags[u].index
          BY <1>2, <3>2
        <4>2. m.tags[u].index # -1 => m.tags[u].index \in Classes
          BY ArenaFields
        <4>3. t # NULL
          BY <1>0
        <4>4. n.tags[u].prev = NULL => u # h /\ m.tags[u].prev = NULL
          BY <1>2, <4>3
        <4> QED BY <1>2, <4>1, <4>2, <4>4 DEF Links
      <3> QED BY <3>1, <3>2
    <2> QED BY <2>1, <2>2, <2>3, <2>4
  <1>8. ASSUME NEW j \in Classes, n.l_freePages[j] # NULL
        PROVE  n.tags[n.l_freePages[j]].index = j /\ n.tags[n.l_freePages[j]].prev = NULL
    <2>1. CASE j = i
      BY <1>1, <1>2, <2>1
    <2>2. CASE j # i
      <3>1. n.l_freePages[j] = m.l_freePages[j] /\ m.l_freePages[j] \in Blocks(m) \cup {NULL}
        BY <1>2, <2>2 DEF Arena
      <3>2. /\ m.tags[m.l_freePages[j]].index = j
            /\ m.tags[m.l_freePages[j]].prev = NULL
        BY <1>8, <3>1 DEF Links
      <3>3. m.l_freePages[j] # t /\ m.l_freePages[j] # h
        BY <1>0, <1>1, <1>4, <1>8, <2>2, <3>1, <3>2 DEF Classes
      <3> QED BY <1>2, <1>8, <3>1, <3>2, <3>3
    <2> QED BY <2>1, <2>2
  <1>9. Links(n)
    BY <1>2, <1>7, <1>8 DEF Links
  <1> QED BY <1>6, <1>9 DEF Ranked

(* Blocks that come and go while they are on no list do not touch lists.   *)
LEMMA OthersLinks ==
    ASSUME NEW m, Arena(m), Links(m), Ranked(m), NEW n, Arena(n),
           n.l_freePages = m.l_freePages,
           \A u \in Blocks(m) \ Blocks(n) : m.tags[u].index = -1,
           \A u \in Blocks(n) \ Blocks(m) :
              n.tags[u].index = -1 /\ n.tags[u].next = NULL /\ n.tags[u].prev = NULL,
           \A u \in Blocks(n) \cap Blocks(m) :
              /\ n.tags[u].index = m.tags[u].index
              /\ n.tags[u].next = m.tags[u].next /\ n.tags[u].prev = m.tags[u].prev
    PROVE  Links(n) /\ Ranked(n)
  <1>1. NULL \notin Blocks(m)
    BY DEF Arena
  <1>2. ASSUME NEW u \in Blocks(n) \cap Blocks(m)
        PROVE  /\ m.tags[u].next # NULL => m.tags[u].next \in Blocks(n) \cap Blocks(m)
               /\ m.tags[u].prev # NULL => m.tags[u].prev \in Blocks(n) \cap Blocks(m)
    BY <1>1 DEF Links
  <1>3. \A i \in Classes : m.l_freePages[i] # NULL => m.l_freePages[i] \in Blocks(n) \cap Blocks(m)
    BY ClassAssumption DEF Links, Arena, Classes
  <1>4. ASSUME NEW u \in Blocks(n)
        PROVE  /\ n.tags[u].index = -1 => n.tags[u].next = NULL /\ n.tags[u].prev = NULL
               /\ n.tags[u].next # NULL => /\ n.tags[u].next \in Blocks(n)
                                           /\ n.tags[n.tags[u].next].prev = u
                                           /\ n.tags[n.tags[u].next].index = n.tags[u].index
               /\ n.tags[u].prev # NULL => /\ n.tags[u].prev \in Blocks(n)
                                           /\ n.tags[n.tags[u].prev].next = u
                                           /\ n.tags[n.tags[u].prev].index = n.tags[u].index
               /\ n.tags[u].index # -1 /\ n.tags[u].prev = NULL =>
                     n.l_freePages[n.tags[u].index] = u
    BY <1>2 DEF Links
  <1>5. ASSUME NEW i \in Classes, n.l_freePages[i] # NULL
        PROVE  n.tags[n.l_freePages[i]].index = i /\ n.tags[n.l_freePages[i]].prev = NULL
    BY <1>3, <1>5 DEF Links
  <1>6. Links(n)
    BY <1>4, <1>5 DEF Links
  <1>7. PICK rank : Ranks(m, rank)
    BY DEF Ranked
  <1> DEFINE kept == [u \in Blocks(n) |-> IF u \in Blocks(m) THEN rank[u] ELSE 0]
  <1>8. Ranks(n, kept)
    <2>1. kept \in [Blocks(n) -> Nat]
      BY <1>7 DEF Ranks
    <2>2. ASSUME NEW u \in Blocks(n), n.tags[u].next # NULL
          PROVE  kept[u] < kept[n.tags[u].next]
      BY <1>2, <1>7, <2>2 DEF Ranks
    <2> QED BY <2>1, <2>2 DEF Ranks
  <1> QED BY <1>6, <1>8 DEF Ranked

-----------------------------------------------------------------------------
(* TagsTile, of any arena whose chunks end at or before hi.                *)
Upto(m, t) == t + m.tags[t].real_size

Tiled(m, hi, t) ==
    LET l == m.tags[t].split_left
        r == m.tags[t].split_right
    IN  /\ kernel_end <= t /\ Upto(m, t) <= hi
        /\ m.tags[t].real_size >= TAG
        /\ IF r = NULL THEN OnPage(Upto(m, t))
           ELSE r \in Blocks(m) /\ r = Upto(m, t) /\ m.tags[r].split_left = t
        /\ IF l = NULL THEN OnPage(t)
           ELSE l \in Blocks(m) /\ m.tags[l].split_right = t

Tiles(m, hi) ==
    /\ \A t \in Blocks(m) : Tiled(m, hi, t)
    /\ \A t, u \in Blocks(m) : t < u => Upto(m, t) <= u

Sound(m, hi) == Arena(m) /\ Links(m) /\ Ranked(m) /\ Tiles(m, hi)

(* A block and its neighbours.                                             *)
LEMMA TileFields ==
    ASSUME NEW m, NEW hi \in Nat, Arena(m), Tiles(m, hi), NEW t \in Blocks(m)
    PROVE  /\ t \in Nat \ {NULL} /\ Upto(m, t) \in Nat /\ t < Upto(m, t)
           /\ t + TAG <= Upto(m, t) /\ Upto(m, t) <= hi
           /\ m.tags[t].real_size \in Nat
           /\ m.tags[t].split_right # NULL =>
                 /\ m.tags[t].split_right \in Blocks(m)
                 /\ m.tags[t].split_right = Upto(m, t)
                 /\ m.tags[m.tags[t].split_right].split_left = t
           /\ m.tags[t].split_left # NULL =>
                 /\ m.tags[t].split_left \in Blocks(m)
                 /\ m.tags[m.tags[t].split_left].split_right = t
                 /\ Upto(m, m.tags[t].split_left) = t
                 /\ m.tags[t].split_left < t
  <1>1. /\ t \in Nat \ {NULL} /\ m.tags[t].real_size \in Nat
    BY ArenaFields
  <1>2. /\ Upto(m, t) \in Nat /\ t < Upto(m, t) /\ t + TAG <= Upto(m, t) /\ Upto(m, t) <= hi
    BY <1>1 DEF Tiles, Tiled, Upto, TAG
  <1>3. /\ m.tags[t].split_right # NULL =>
                 /\ m.tags[t].split_right \in Blocks(m)
                 /\ m.tags[t].split_right = Upto(m, t)
                 /\ m.tags[m.tags[t].split_right].split_left = t
        /\ m.tags[t].split_left # NULL =>
                 /\ m.tags[t].split_left \in Blocks(m)
                 /\ m.tags[m.tags[t].split_left].split_right = t
    BY DEF Tiles, Tiled
  <1>4. ASSUME m.tags[t].split_left # NULL
        PROVE  /\ Upto(m, m.tags[t].split_left) = t /\ m.tags[t].split_left < t
    <2> DEFINE l == m.tags[t].split_left
    <2>1. l \in Blocks(m) /\ m.tags[l].split_right = t
      BY <1>3, <1>4
    <2>2. Upto(m, l) = t
      BY <1>1, <2>1 DEF Tiles, Tiled
    <2>3. l \in Nat /\ m.tags[l].real_size \in Nat /\ m.tags[l].real_size >= TAG
      BY <2>1, ArenaFields DEF Tiles, Tiled
    <2> QED BY <2>2, <2>3 DEF Upto, TAG
  <1> QED BY <1>1, <1>2, <1>3, <1>4

(* Lists have nothing to do with how blocks tile.                          *)
LEMMA SameTiles ==
    ASSUME NEW m, NEW hi, Tiles(m, hi), NEW n, Blocks(n) = Blocks(m),
           \A u \in Blocks(m) : SameSplit(m.tags[u], n.tags[u])
    PROVE  Tiles(n, hi)
  <1>1. \A u \in Blocks(n) : Upto(n, u) = Upto(m, u)
    BY DEF Upto, SameSplit
  <1>2. ASSUME NEW u \in Blocks(n) PROVE Tiled(n, hi, u)
    <2>1. Tiled(m, hi, u) /\ u \in Blocks(m)
      BY DEF Tiles
    <2> QED BY <1>1, <2>1 DEF Tiled, SameSplit
  <1> QED BY <1>1, <1>2 DEF Tiles

(* Two neighbours become one block.                                        *)
LEMMA MergeTiles ==
    ASSUME NEW m, NEW hi \in Nat, Arena(m), Tiles(m, hi),
           NEW a \in Blocks(m), NEW b \in Blocks(m), m.tags[a].split_right = b,
           NEW n, Arena(n), Blocks(n) = Blocks(m) \ {b},
           \A u \in Blocks(n) :
              /\ n.tags[u].real_size = IF u = a
                                       THEN m.tags[a].real_size + m.tags[b].real_size
                                       ELSE m.tags[u].real_size
              /\ n.tags[u].split_right = IF u = a THEN m.tags[b].split_right
                                         ELSE m.tags[u].split_right
              /\ n.tags[u].split_left = IF u = m.tags[b].split_right THEN a
                                        ELSE m.tags[u].split_left
    PROVE  Tiles(n, hi)
  <1>1. /\ a \in Nat /\ b \in Nat \ {NULL} /\ b = Upto(m, a) /\ a < b /\ b < Upto(m, b)
        /\ m.tags[a].real_size \in Nat /\ m.tags[b].real_size \in Nat
        /\ Upto(m, b) <= hi /\ Upto(m, b) \in Nat
    BY TileFields
  <1>2. /\ a \in Blocks(n)
        /\ Upto(n, a) = Upto(m, b)
    BY <1>1 DEF Upto
  <1>3. \A u \in Blocks(n) : u # a => Upto(n, u) = Upto(m, u)
    BY DEF Upto
  <1>4. ASSUME NEW u \in Blocks(n), NEW v \in Blocks(n), u < v
        PROVE  Upto(n, u) <= v
    <2>1. Upto(m, u) <= v
      BY <1>4 DEF Tiles
    <2>2. CASE u = a
      <3>0. v \in Nat /\ v # b
        BY ArenaFields
      <3>1. v \in Nat /\ v # b /\ b < v
        BY <1>1, <2>1, <2>2, <3>0
      <3>2. Upto(m, b) <= v
        BY <3>1 DEF Tiles
      <3> QED BY <1>2, <2>2, <3>2
    <2>3. CASE u # a
      BY <1>3, <2>1, <2>3
    <2> QED BY <2>2, <2>3
  <1>5. ASSUME NEW u \in Blocks(n) PROVE Tiled(n, hi, u)
    <2> DEFINE r == m.tags[b].split_right
    <2>1. Tiled(m, hi, u) /\ Tiled(m, hi, b) /\ Tiled(m, hi, a) /\ u \in Nat
      BY ArenaFields DEF Tiles
    <2>2. r # NULL => r \in Blocks(m) /\ r = Upto(m, b) /\ r # a /\ r # b
      BY <1>1, TileFields
    <2>3. kernel_end <= u /\ Upto(n, u) <= hi
      BY <1>1, <1>2, <1>3, <2>1 DEF Tiled
    <2>4. n.tags[u].real_size >= TAG
      BY <1>1, <2>1, ArenaFields DEF Tiled, TAG
    <2>5. CASE u = a
      <3>1. n.tags[u].split_right = r /\ n.tags[u].split_left = m.tags[u].split_left
        BY <1>1, <2>2, <2>5, ArenaFields DEF Arena
      <3>2. IF r = NULL THEN OnPage(Upto(n, u))
            ELSE r \in Blocks(n) /\ r = Upto(n, u) /\ n.tags[r].split_left = u
        BY <1>2, <2>1, <2>2, <2>5 DEF Tiled
      <3>3. IF n.tags[u].split_left = NULL THEN OnPage(u)
            ELSE n.tags[u].split_left \in Blocks(n)
                 /\ n.tags[n.tags[u].split_left].split_right = u
        <4>1. m.tags[u].split_left # NULL =>
                 m.tags[u].split_left # b /\ m.tags[u].split_left < u
          BY <1>1, <2>5, TileFields
        <4> QED BY <1>1, <2>1, <2>5, <3>1, <4>1 DEF Tiled
      <3> QED BY <2>3, <2>4, <3>1, <3>2, <3>3 DEF Tiled
    <2>6. CASE u # a
      <3>1. n.tags[u].split_right = m.tags[u].split_right /\ Upto(n, u) = Upto(m, u)
        BY <1>3, <2>6
      <3>2. m.tags[u].split_right # NULL =>
               /\ m.tags[u].split_right \in Blocks(m)
               /\ m.tags[u].split_right = Upto(m, u)
               /\ m.tags[m.tags[u].split_right].split_left = u
        BY TileFields
      <3>3. m.tags[u].split_right # NULL =>
               m.tags[u].split_right # b /\ m.tags[u].split_right # r
        <4>1. m.tags[b].split_left = a
          BY <1>1, <2>1 DEF Tiled
        <4>2. r # NULL => m.tags[r].split_left = b
          BY <2>1 DEF Tiled
        <4> QED BY <2>6, <3>2, <4>1, <4>2
      <3>4. IF n.tags[u].split_right = NULL THEN OnPage(Upto(n, u))
            ELSE n.tags[u].split_right \in Blocks(n)
                 /\ n.tags[u].split_right = Upto(n, u)
                 /\ n.tags[n.tags[u].split_right].split_left = u
        <4>1. CASE m.tags[u].split_right = NULL
          BY <2>1, <3>1, <4>1 DEF Tiled
        <4>2. CASE m.tags[u].split_right # NULL
          <5> DEFINE q == m.tags[u].split_right
          <5>1. q \in Blocks(n) /\ q # r /\ q = Upto(m, u) /\ m.tags[q].split_left = u
            BY <3>2, <3>3, <4>2
          <5>2. n.tags[q].split_left = u
            BY <5>1
          <5> QED BY <3>1, <4>2, <5>1, <5>2
        <4> QED BY <4>1, <4>2
      <3>5. IF n.tags[u].split_left = NULL THEN OnPage(u)
            ELSE n.tags[u].split_left \in Blocks(n)
                 /\ n.tags[n.tags[u].split_left].split_right = u
        <4>1. CASE u = r
          <5>1. n.tags[u].split_left = a /\ n.tags[a].split_right = u
            BY <1>2, <4>1
          <5>2. a # NULL
            BY ArenaFields
          <5> QED BY <1>2, <5>1, <5>2
        <4>2. CASE u # r
          <5>1. n.tags[u].split_left = m.tags[u].split_left
            BY <4>2
          <5>2. m.tags[u].split_left # NULL =>
                   /\ m.tags[u].split_left \in Blocks(m)
                   /\ m.tags[m.tags[u].split_left].split_right = u
            BY <2>1 DEF Tiled
          <5>3. m.tags[u].split_left # NULL =>
                   m.tags[u].split_left # a /\ m.tags[u].split_left # b
            BY <4>2, <5>2
          <5> QED BY <2>1, <5>1, <5>2, <5>3 DEF Tiled
        <4> QED BY <4>1, <4>2
      <3> QED BY <2>3, <2>4, <3>4, <3>5 DEF Tiled
    <2> QED BY <2>5, <2>6
  <1> QED BY <1>4, <1>5 DEF Tiles

(* Block t becomes two, the second one at k.                               *)
LEMMA SplitTiles ==
    ASSUME NEW m, NEW hi \in Nat, Arena(m), Tiles(m, hi),
           NEW t \in Blocks(m), NEW k \in Nat \ Blocks(m),
           t + TAG <= k, k + TAG <= Upto(m, t),
           NEW n, Arena(n), Blocks(n) = Blocks(m) \cup {k},
           n.tags[k].real_size = Upto(m, t) - k,
           n.tags[k].split_left = t, n.tags[k].split_right = m.tags[t].split_right,
           \A u \in Blocks(m) :
              /\ n.tags[u].real_size = IF u = t THEN k - t ELSE m.tags[u].real_size
              /\ n.tags[u].split_right = IF u = t THEN k ELSE m.tags[u].split_right
              /\ n.tags[u].split_left = IF u = m.tags[t].split_right THEN k
                                        ELSE m.tags[u].split_left
    PROVE  Tiles(n, hi)
  <1> DEFINE r == m.tags[t].split_right
  <1>0. t \in Nat /\ k \in Nat /\ k # NULL /\ t # k
    BY ArenaFields DEF TAG, NULL
  <1>1. /\ t \in Nat /\ Upto(m, t) \in Nat /\ Upto(m, t) <= hi /\ kernel_end <= t
        /\ t < k /\ k < Upto(m, t)
        /\ r # NULL => r \in Blocks(m) /\ r = Upto(m, t) /\ m.tags[r].split_left = t
        /\ kernel_end \in Nat
    <2>1. t < k /\ k < Upto(m, t)
      BY <1>0, TileFields DEF TAG
    <2> QED BY <2>1, TileFields, PoolBounds DEF Tiles, Tiled
  <1>2. /\ Upto(n, k) = Upto(m, t) /\ Upto(n, t) = k
        /\ \A u \in Blocks(m) : u # t => Upto(n, u) = Upto(m, u)
    BY <1>0, <1>1 DEF Upto
  <1>3. ASSUME NEW u \in Blocks(n), NEW v \in Blocks(n), u < v
        PROVE  Upto(n, u) <= v
    <2>0. u \in Nat /\ v \in Nat
      BY ArenaFields
    <2>1. CASE u = k
      <3>1. v \in Blocks(m) /\ t < v
        BY <1>0, <1>1, <1>3, <2>0, <2>1
      <3>2. Upto(m, t) <= v
        BY <3>1 DEF Tiles
      <3> QED BY <1>2, <2>1, <3>2
    <2>2. CASE u # k /\ v # k
      <3>1. u \in Blocks(m) /\ v \in Blocks(m)
        BY <2>2
      <3>2. Upto(m, u) <= v
        BY <1>3, <3>1 DEF Tiles
      <3>3. CASE u = t
        BY <1>1, <1>2, <2>0, <3>2, <3>3
      <3> QED BY <1>2, <3>1, <3>2, <3>3
    <2>3. CASE u # k /\ v = k
      <3>1. u \in Blocks(m) /\ Upto(m, u) \in Nat /\ u < Upto(m, u)
        BY <2>3, TileFields
      <3>2. CASE u = t
        BY <1>0, <1>2, <2>3, <3>2
      <3>3. CASE u < t
        <4>1. Upto(m, u) <= t
          BY <3>1, <3>3 DEF Tiles
        <4> QED BY <1>0, <1>1, <1>2, <2>3, <3>1, <3>3, <4>1
      <3>4. CASE t < u
        <4>1. Upto(m, t) <= u
          BY <3>1, <3>4 DEF Tiles
        <4> QED BY <1>1, <1>3, <2>0, <2>3, <4>1
      <3> QED BY <1>0, <2>0, <3>2, <3>3, <3>4
    <2> QED BY <2>1, <2>2, <2>3
  <1>4. ASSUME NEW u \in Blocks(n) PROVE Tiled(n, hi, u)
    <2>1. CASE u = k
      <3>1. /\ n.tags[u].split_left = t /\ n.tags[t].split_right = k /\ t # NULL
            /\ t \in Blocks(n)
        BY <1>1, <2>1, ArenaFields
      <3>2. n.tags[u].split_right = r
        BY <2>1
      <3>3. kernel_end <= u /\ Upto(n, u) <= hi /\ n.tags[u].real_size >= TAG
        BY <1>0, <1>1, <1>2, <2>1 DEF TAG
      <3>4. IF r = NULL THEN OnPage(Upto(n, u))
            ELSE r \in Blocks(n) /\ r = Upto(n, u) /\ n.tags[r].split_left = u
        <4>1. Tiled(m, hi, t)
          BY DEF Tiles
        <4>2. r # NULL => r # t
          BY <1>1
        <4> QED BY <1>1, <1>2, <2>1, <4>1, <4>2 DEF Tiled
      <3> QED BY <2>1, <3>1, <3>2, <3>3, <3>4 DEF Tiled
    <2>2. CASE u = t
      <3>1. /\ Tiled(m, hi, t) /\ k \in Blocks(n) /\ Upto(n, t) = k
            /\ n.tags[t].split_right = k /\ n.tags[k].split_left = t
        BY <1>2 DEF Tiles
      <3>2. n.tags[t].split_left = m.tags[t].split_left
        BY <1>1, ArenaFields DEF Arena
      <3>3. m.tags[t].split_left # NULL =>
               /\ m.tags[t].split_left \in Blocks(m)
               /\ m.tags[t].split_left # t
               /\ m.tags[m.tags[t].split_left].split_right = t
        BY <1>1, TileFields
      <3>4. n.tags[t].real_size >= TAG
        BY <1>0, <1>1 DEF TAG
      <3>5. kernel_end <= t /\ k <= hi
        BY <1>0, <1>1
      <3> QED BY <1>0, <2>2, <3>1, <3>2, <3>3, <3>4, <3>5 DEF Tiled
    <2>3. CASE u # k /\ u # t
      <3>1. u \in Blocks(m) /\ Tiled(m, hi, u) /\ Upto(n, u) = Upto(m, u)
        BY <1>2, <2>3 DEF Tiles
      <3>2. /\ n.tags[u].real_size = m.tags[u].real_size
            /\ n.tags[u].split_right = m.tags[u].split_right
        BY <2>3, <3>1
      <3>3. IF n.tags[u].split_right = NULL THEN OnPage(Upto(n, u))
            ELSE n.tags[u].split_right \in Blocks(n)
                 /\ n.tags[u].split_right = Upto(n, u)
                 /\ n.tags[n.tags[u].split_right].split_left = u
        <4>1. CASE m.tags[u].split_right = NULL
          BY <3>1, <3>2, <4>1 DEF Tiled
        <4>2. CASE m.tags[u].split_right # NULL
          <5> DEFINE q == m.tags[u].split_right
          <5>1. q \in Blocks(m) /\ q = Upto(m, u) /\ m.tags[q].split_left = u
            BY <3>1, <4>2, TileFields
          <5>2. q # r
            BY <1>1, <2>3, <4>2, <5>1
          <5>3. n.tags[q].split_left = u
            BY <5>1, <5>2
          <5> QED BY <3>1, <3>2, <4>2, <5>1, <5>3
        <4> QED BY <4>1, <4>2
      <3>4. IF n.tags[u].split_left = NULL THEN OnPage(u)
            ELSE n.tags[u].split_left \in Blocks(n)
                 /\ n.tags[n.tags[u].split_left].split_right = u
        <4>1. CASE u = r
          BY <1>0, <3>1, <4>1
        <4>2. CASE u # r
          <5>1. n.tags[u].split_left = m.tags[u].split_left
            BY <3>1, <4>2
          <5>2. m.tags[u].split_left # NULL =>
                   /\ m.tags[u].split_left \in Blocks(m)
                   /\ m.tags[m.tags[u].split_left].split_right = u
            BY <3>1 DEF Tiled
          <5>3. m.tags[u].split_left # NULL => m.tags[u].split_left # t
            BY <4>2, <5>2
          <5> QED BY <3>1, <5>1, <5>2, <5>3 DEF Tiled
        <4> QED BY <4>1, <4>2
      <3> QED BY <3>1, <3>2, <3>3, <3>4 DEF Tiled
    <2> QED BY <2>1, <2>2, <2>3
  <1> QED BY <1>3, <1>4 DEF Tiles

(* More of the pool may be granted, and a chunk made of it.                *)
LEMMA HigherTiles ==
    ASSUME NEW m, NEW lo \in Nat, NEW hi \in Nat, lo <= hi, Arena(m), Tiles(m, lo)
    PROVE  Tiles(m, hi)
  <1>1. ASSUME NEW u \in Blocks(m) PROVE Tiled(m, hi, u)
    <2>1. Tiled(m, lo, u) /\ Upto(m, u) \in Nat
      BY TileFields DEF Tiles
    <2> QED BY <2>1 DEF Tiled
  <1> QED BY <1>1 DEF Tiles

(* A chunk behind all others joins them.                                   *)
LEMMA ChunkTiles ==
    ASSUME NEW m, NEW lo \in Nat, NEW hi \in Nat, Arena(m), Tiles(m, lo),
           NEW k \in Nat, kernel_end <= k, lo <= k, OnPage(k),
           NEW n, Arena(n), Blocks(n) = Blocks(m) \cup {k},
           \A u \in Blocks(m) : n.tags[u] = m.tags[u],
           n.tags[k].split_left = NULL, n.tags[k].split_right = NULL,
           n.tags[k].real_size >= TAG, OnPage(Upto(n, k)), Upto(n, k) <= hi
    PROVE  Tiles(n, hi) /\ k \notin Blocks(m)
  <1>1. k \in Nat /\ n.tags[k].real_size \in Nat /\ Upto(n, k) \in Nat /\ k < Upto(n, k)
    BY ArenaFields DEF Upto, TAG
  <1>2. lo <= hi
    BY <1>1
  <1>3. Tiles(m, hi)
    BY <1>2, HigherTiles
  <1>4. \A u \in Blocks(m) : /\ u \in Nat /\ Upto(m, u) \in Nat /\ u < Upto(m, u)
                             /\ Upto(m, u) <= lo /\ u # k
    BY TileFields
  <1>5. \A u \in Blocks(m) : Upto(n, u) = Upto(m, u)
    BY DEF Upto
  <1>6. ASSUME NEW u \in Blocks(n) PROVE Tiled(n, hi, u)
    <2>1. CASE u = k
      BY <1>1, <2>1 DEF Tiled
    <2>2. CASE u # k
      <3>1. u \in Blocks(m) /\ Tiled(m, hi, u)
        BY <1>3, <2>2 DEF Tiles
      <3> QED BY <1>5, <3>1 DEF Tiled
    <2> QED BY <2>1, <2>2
  <1>7. ASSUME NEW u \in Blocks(n), NEW v \in Blocks(n), u < v
        PROVE  Upto(n, u) <= v
    <2>1. CASE u = k
      <3>1. v \in Blocks(m)
        BY <1>1, <1>7, <2>1
      <3> QED BY <1>1, <1>4, <1>7, <2>1, <3>1
    <2>2. CASE u # k /\ v = k
      BY <1>1, <1>4, <1>5, <2>2
    <2>3. CASE u # k /\ v # k
      BY <1>3, <1>5, <1>7, <2>3 DEF Tiles
    <2> QED BY <2>1, <2>2, <2>3
  <1> QED BY <1>4, <1>6, <1>7 DEF Tiles

(* A whole chunk goes.                                                     *)
LEMMA DropTiles ==
    ASSUME NEW m, NEW hi \in Nat, Arena(m), Tiles(m, hi),
           NEW t \in Blocks(m), Whole(m.tags[t]),
           NEW n, Blocks(n) = Blocks(m) \ {t},
           \A u \in Blocks(n) : n.tags[u] = m.tags[u]
    PROVE  Tiles(n, hi)
  <1>1. \A u \in Blocks(n) : Upto(n, u) = Upto(m, u)
    BY DEF Upto
  <1>2. ASSUME NEW u \in Blocks(n)
        PROVE  /\ m.tags[u].split_left # NULL => m.tags[u].split_left \in Blocks(n)
               /\ m.tags[u].split_right # NULL => m.tags[u].split_right \in Blocks(n)
    <2>1. u # NULL /\ Tiled(m, hi, u)
      BY DEF Tiles, Arena
    <2> QED BY <2>1 DEF Tiled, Whole
  <1>3. ASSUME NEW u \in Blocks(n) PROVE Tiled(n, hi, u)
    <2>1. Tiled(m, hi, u)
      BY DEF Tiles
    <2> QED BY <1>1, <1>2, <2>1 DEF Tiled
  <1> QED BY <1>1, <1>3 DEF Tiles
-----------------------------------------------------------------------------
(* The blocks on no list: callers hold them, or the call in progress does. *)
Held(m) == {u \in Blocks(m) : m.tags[u].index = -1}

(* The free blocks of class i that are a whole chunk.                      *)
Wholes(m, i) == {u \in Blocks(m) : m.tags[u].index = i /\ Whole(m.tags[u])}

(* Free blocks are on the list of their size, and no two are neighbours.   *)
Classed(m) ==
    \A u \in Blocks(m) : m.tags[u].index # -1 =>
        m.tags[u].index = class(m.tags[u].real_size - TAG)
Apart(m) ==
    \A u \in Blocks(m) : m.tags[u].index # -1 /\ m.tags[u].split_right # NULL =>
        m.tags[m.tags[u].split_right].index = -1

Good(m, hi) == Sound(m, hi) /\ IsFiniteSet(Blocks(m)) /\ Classed(m) /\ Apart(m)

(* A free block leaves its list.                                           *)
LEMMA TakeGood ==
    ASSUME NEW m, NEW hi \in Nat, Good(m, hi),
           NEW t \in Blocks(m), m.tags[t].index # -1,
           NEW n, n = remove_tag(m, t)
    PROVE  /\ Good(n, hi) /\ Blocks(n) = Blocks(m)
           /\ Held(n) = Held(m) \cup {t}
           /\ \A u \in Blocks(m) : SameSplit(m.tags[u], n.tags[u])
           /\ \A i \in Classes : Wholes(n, i) = Wholes(m, i) \ {t}
           /\ m.tags[t].split_right # NULL => m.tags[t].split_right \in Held(n)
           /\ m.tags[t].split_left # NULL => m.tags[t].split_left \in Held(n)
  <1>1. Arena(m) /\ Links(m) /\ Ranked(m) /\ Tiles(m, hi)
    BY DEF Good, Sound
  <1>2. m.tags[t].next \in Blocks(m) \cup {NULL} /\ m.tags[t].prev \in Blocks(m) \cup {NULL}
    BY <1>1 DEF Links
  <1>3. /\ Arena(n) /\ Blocks(n) = Blocks(m)
        /\ \A u \in Blocks(m) :
              /\ SameSplit(m.tags[u], n.tags[u])
              /\ n.tags[u].index = IF u = t THEN -1 ELSE m.tags[u].index
    BY <1>1, <1>2, RemoveShape
  <1>4. Links(n) /\ Ranked(n)
    BY <1>1, RemoveLinks
  <1>5. Tiles(n, hi)
    BY <1>1, <1>3, SameTiles
  <1>6. Held(n) = Held(m) \cup {t}
    BY <1>3 DEF Held
  <1>7. \A i \in Classes : Wholes(n, i) = Wholes(m, i) \ {t}
    BY <1>3 DEF Wholes, Whole, SameSplit, Classes
  <1>8. Classed(n)
    BY <1>3 DEF Good, Classed, SameSplit
  <1>9. ASSUME NEW u \in Blocks(m)
        PROVE  m.tags[u].split_right # NULL => m.tags[u].split_right \in Blocks(m)
    BY <1>1, TileFields
  <1>10. Apart(n)
    BY <1>3, <1>9 DEF Good, Apart, SameSplit
  <1>11. m.tags[t].split_right # NULL => m.tags[t].split_right \in Held(n)
    BY <1>3, <1>9 DEF Good, Apart, Held
  <1>12. m.tags[t].split_left # NULL => m.tags[t].split_left \in Held(n)
    <2>1. m.tags[t].split_left # NULL =>
             /\ m.tags[t].split_left \in Blocks(m)
             /\ m.tags[m.tags[t].split_left].split_right = t
      BY <1>1, TileFields
    <2>2. t # NULL
      BY <1>1, ArenaFields
    <2> QED BY <1>3, <2>1, <2>2 DEF Good, Apart, Held
  <1> QED BY <1>3, <1>4, <1>5, <1>6, <1>7, <1>8, <1>10, <1>11, <1>12 DEF Good, Sound

(* Block t gets on the list of class i, where it is.                       *)
Listed(m, n, t, i) ==
    /\ Blocks(n) = Blocks(m) /\ Held(n) = Held(m) \ {t}
    /\ \A u \in Blocks(m) : SameSplit(m.tags[u], n.tags[u])
    /\ \A j \in Classes : Wholes(n, j) = IF j = i /\ Whole(m.tags[t])
                                         THEN Wholes(m, j) \cup {t} ELSE Wholes(m, j)

(* A block whose neighbours are not free goes to the list of its size.     *)
LEMMA PutGood ==
    ASSUME NEW m, NEW hi \in Nat, Good(m, hi), NEW t \in Held(m),
           m.tags[t].split_left # NULL => m.tags[t].split_left \in Held(m),
           m.tags[t].split_right # NULL => m.tags[t].split_right \in Held(m),
           NEW i, i = class(m.tags[t].real_size - TAG),
           NEW n, n = insert_tag(m, t, i)
    PROVE  Good(n, hi) /\ Listed(m, n, t, i)
  <1>1. Arena(m) /\ Links(m) /\ Ranked(m) /\ Tiles(m, hi)
    BY DEF Good, Sound
  <1>2. t \in Blocks(m) /\ m.tags[t].index = -1
    BY DEF Held
  <1>3. m.tags[t].real_size - TAG \in Int
    BY <1>1, <1>2, ArenaFields DEF TAG
  <1>4. i \in MINEXP..(MAXEXP - 1) /\ i \in Classes /\ i # -1
    BY <1>3, ClassRange, ClassAssumption DEF Classes
  <1>5. m.tags[t].next = NULL /\ m.l_freePages[i] # t
    BY <1>1, <1>2, <1>4 DEF Links, Arena
  <1>6. /\ Arena(n) /\ Blocks(n) = Blocks(m)
        /\ \A u \in Blocks(m) :
              /\ SameSplit(m.tags[u], n.tags[u])
              /\ n.tags[u].index = IF u = t THEN i ELSE m.tags[u].index
    BY <1>1, <1>2, <1>4, <1>5, InsertShape
  <1>7. Links(n) /\ Ranked(n)
    BY <1>1, <1>2, <1>4, InsertLinks
  <1>8. Tiles(n, hi)
    BY <1>1, <1>6, SameTiles
  <1>9. Held(n) = Held(m) \ {t}
    BY <1>4, <1>6 DEF Held
  <1>10. \A j \in Classes : Wholes(n, j) = IF j = i /\ Whole(m.tags[t])
                                           THEN Wholes(m, j) \cup {t} ELSE Wholes(m, j)
    BY <1>2, <1>6 DEF Wholes, Whole, SameSplit, Classes
  <1>11. Classed(n)
    BY <1>6 DEF Good, Classed, SameSplit
  <1>12. ASSUME NEW u \in Blocks(n), n.tags[u].index # -1, n.tags[u].split_right # NULL
         PROVE  n.tags[n.tags[u].split_right].index = -1
    <2> DEFINE r == m.tags[u].split_right
    <2>1. n.tags[u].split_right = r /\ r \in Blocks(m) /\ m.tags[r].split_left = u
      <3>1. n.tags[u].split_right = r
        BY <1>6 DEF SameSplit
      <3> QED BY <1>1, <1>6, <1>12, <3>1, TileFields
    <2>2. u # NULL
      BY <1>6, ArenaFields
    <2>3. m.tags[r].index = -1
      <3>1. CASE u = t
        BY <1>12, <2>1, <3>1 DEF Held
      <3>2. CASE u # t
        BY <1>6, <1>12, <2>1, <3>2 DEF Good, Apart
      <3> QED BY <3>1, <3>2
    <2>4. r # t
      <3>1. u < m.tags[u].split_right
        BY <1>1, <1>6, <1>12, <2>1, TileFields
      <3>2. u # r
        BY <1>1, <1>6, <3>1, ArenaFields
      <3>3. r = t => m.tags[u].index = -1
        BY <2>1, <2>2 DEF Held
      <3> QED BY <1>6, <1>12, <3>2, <3>3
    <2> QED BY <1>6, <2>1, <2>3, <2>4
  <1>13. Apart(n)
    BY <1>12, Zenon DEF Apart
  <1>14. Listed(m, n, t, i)
    BY <1>6, <1>9, <1>10 DEF Listed
  <1>15. Good(n, hi)
    BY <1>6, <1>7, <1>8, <1>11, <1>13 DEF Good, Sound
  <1> QED BY <1>14, <1>15

(* What becomes of the tags when block a takes in block b on its right.    *)
Joined(m, n, a, b) ==
    /\ Blocks(n) = Blocks(m) \ {b}
    /\ \A u \in Blocks(n) :
          /\ n.tags[u].index = m.tags[u].index
          /\ n.tags[u].real_size = IF u = a
                                   THEN m.tags[a].real_size + m.tags[b].real_size
                                   ELSE m.tags[u].real_size
          /\ n.tags[u].split_right = IF u = a THEN m.tags[b].split_right
                                     ELSE m.tags[u].split_right
          /\ n.tags[u].split_left = IF u = m.tags[b].split_right THEN a
                                    ELSE m.tags[u].split_left

(* Block a takes in its right neighbour, which is on no list.              *)
LEMMA JoinSound ==
    ASSUME NEW m, NEW hi \in Nat, Sound(m, hi), IsFiniteSet(Blocks(m)), hi < UINT_MOD,
           NEW a \in Blocks(m), NEW b \in Held(m), m.tags[a].split_right = b,
           NEW n, n = join(m, a, b)
    PROVE  /\ Sound(n, hi) /\ IsFiniteSet(Blocks(n)) /\ Joined(m, n, a, b)
           /\ a # b /\ m.tags[b].split_right # a
  <1>1. Arena(m) /\ Links(m) /\ Ranked(m) /\ Tiles(m, hi) /\ b \in Blocks(m)
    BY DEF Sound, Held
  <1>2. /\ a \in Nat /\ b \in Nat \ {NULL}
        /\ m.tags[a].real_size \in Nat /\ m.tags[b].real_size \in Nat
        /\ b = a + m.tags[a].real_size /\ a < b
        /\ b + m.tags[b].real_size <= hi
    BY <1>1, TileFields DEF Upto
  <1>3. m.tags[b].split_right # NULL =>
           /\ m.tags[b].split_right \in Blocks(m)
           /\ b < m.tags[b].split_right
    BY <1>1, TileFields
  <1>4. m.tags[b].split_right \in (Blocks(m) \ {a, b}) \cup {NULL}
    BY <1>2, <1>3
  <1>5. m.tags[a].real_size + m.tags[b].real_size < UINT_MOD
    BY <1>2, LowMemoryAssumption
  <1>6. ASSUME NEW i \in Classes PROVE m.l_freePages[i] # b
    <2>1. i # -1
      BY ClassAssumption DEF Classes
    <2> QED BY <1>1, <1>2, <2>1 DEF Links, Held
  <1>7. /\ Arena(n) /\ Blocks(n) = Blocks(m) \ {b}
        /\ n.l_freePages = m.l_freePages
        /\ \A u \in Blocks(n) :
              /\ n.tags[u].index = m.tags[u].index
              /\ n.tags[u].next = m.tags[u].next /\ n.tags[u].prev = m.tags[u].prev
              /\ n.tags[u].real_size = IF u = a
                                       THEN m.tags[a].real_size + m.tags[b].real_size
                                       ELSE m.tags[u].real_size
              /\ n.tags[u].split_right = IF u = a THEN m.tags[b].split_right
                                         ELSE m.tags[u].split_right
              /\ n.tags[u].split_left = IF u = m.tags[b].split_right THEN a
                                        ELSE m.tags[u].split_left
    BY <1>1, <1>2, <1>4, <1>5, <1>6, JoinShape
  <1>8. Links(n) /\ Ranked(n)
    <2>1. \A u \in Blocks(m) \ Blocks(n) : m.tags[u].index = -1
      BY <1>7 DEF Held
    <2>2. Blocks(n) \ Blocks(m) = {}
      BY <1>7
    <2> QED BY <1>1, <1>7, <2>1, <2>2, OthersLinks
  <1>9. Tiles(n, hi)
    BY <1>1, <1>7, MergeTiles
  <1>10. IsFiniteSet(Blocks(n))
    BY <1>7, FS_RemoveElement
  <1>11. m.tags[b].split_right # a
    BY <1>1, <1>4, ArenaFields
  <1>12. Sound(n, hi)
    BY <1>7, <1>8, <1>9 DEF Sound
  <1>13. a # b
    BY <1>2
  <1>14. Joined(m, n, a, b)
    BY <1>7, Zenon DEF Joined
  <1> QED BY <1>10, <1>11, <1>12, <1>13, <1>14

(* A block takes in the free block on its right.                           *)
LEMMA AbsorbGood ==
    ASSUME NEW m, NEW hi \in Nat, Good(m, hi), hi < UINT_MOD, NEW t \in Held(m),
           m.tags[t].split_right # NULL, m.tags[m.tags[t].split_right].index # -1,
           NEW n, n = absorb_right(m, t)
    PROVE  /\ Good(n, hi) /\ Held(n) = Held(m)
           /\ \A u \in Held(m) \ {t} : n.tags[u].real_size = m.tags[u].real_size
           /\ \A i \in Classes : Wholes(n, i) = Wholes(m, i)
           /\ n.tags[t].split_left = m.tags[t].split_left
  <1> DEFINE b == m.tags[t].split_right
             o == remove_tag(m, b)
  <1>1. Sound(m, hi) /\ Arena(m) /\ Tiles(m, hi) /\ t \in Blocks(m)
    BY DEF Good, Sound, Held
  <1>2. b \in Blocks(m) /\ t < b /\ t \in Nat /\ b \in Nat /\ m.tags[b].split_left = t
    BY <1>1, TileFields
  <1>3. /\ Good(o, hi) /\ Blocks(o) = Blocks(m)
        /\ Held(o) = Held(m) \cup {b}
        /\ \A u \in Blocks(m) : SameSplit(m.tags[u], o.tags[u])
        /\ \A i \in Classes : Wholes(o, i) = Wholes(m, i) \ {b}
        /\ m.tags[b].split_right # NULL => m.tags[b].split_right \in Held(o)
    BY <1>2, TakeGood
  <1>4. n = join(o, t, b)
    BY DEF absorb_right
  <1> HIDE DEF o
  <1>5. /\ o.tags[t].split_right = b /\ o.tags[b].split_right = m.tags[b].split_right
        /\ o.tags[b].split_left = t
    BY <1>1, <1>2, <1>3 DEF SameSplit
  <1>6. /\ Sound(n, hi) /\ IsFiniteSet(Blocks(n)) /\ Blocks(n) = Blocks(m) \ {b}
        /\ t # b /\ m.tags[b].split_right # t
        /\ \A u \in Blocks(n) :
              /\ n.tags[u].index = o.tags[u].index
              /\ u # t => n.tags[u].real_size = o.tags[u].real_size
              /\ n.tags[u].split_right = IF u = t THEN m.tags[b].split_right
                                         ELSE o.tags[u].split_right
              /\ n.tags[u].split_left = IF u = m.tags[b].split_right THEN t
                                        ELSE o.tags[u].split_left
    <2>1. Sound(o, hi) /\ IsFiniteSet(Blocks(o)) /\ t \in Blocks(o) /\ b \in Held(o)
      BY <1>1, <1>3 DEF Good
    <2> HIDE DEF b
    <2>2. /\ Sound(n, hi) /\ IsFiniteSet(Blocks(n)) /\ Joined(o, n, t, b)
          /\ t # b /\ o.tags[b].split_right # t
      BY <1>4, <1>5, <2>1, JoinSound
    <2> QED BY <1>3, <1>5, <2>2 DEF Joined
  <1>7. Held(n) = Held(m)
    <2>1. b \notin Held(m)
      BY DEF Held
    <2>2. Held(n) = Held(o) \ {b}
      BY <1>3, <1>6 DEF Held
    <2> QED BY <1>3, <2>1, <2>2
  <1>8. t # NULL /\ b # NULL
    BY <1>1, ArenaFields
  <1>9. ASSUME NEW i \in Classes PROVE Wholes(n, i) = Wholes(m, i)
    <2>1. b \notin Wholes(m, i)
      BY <1>2, <1>8 DEF Wholes, Whole
    <2>2. t \notin Wholes(o, i) /\ t \notin Wholes(n, i)
      <3>1. i # -1
        BY ClassAssumption DEF Classes
      <3>2. o.tags[t].index = -1 /\ n.tags[t].index = -1
        BY <1>3, <1>7 DEF Held
      <3> QED BY <3>1, <3>2 DEF Wholes
    <2>3. ASSUME NEW u, u # t, u # b
          PROVE  u \in Wholes(n, i) <=> u \in Wholes(o, i)
      <3>1. u \in Blocks(n) <=> u \in Blocks(o)
        BY <1>3, <1>6, <2>3
      <3>2. ASSUME u \in Blocks(n)
            PROVE  Whole(n.tags[u]) <=> Whole(o.tags[u])
        <4>1. CASE u = m.tags[b].split_right
          <5>1. o.tags[u].split_left = b
            <6>1. Tiles(m, hi) /\ m.tags[b].split_right # NULL
              BY <1>1, <1>3, <1>6, <3>2, <4>1, ArenaFields
            <6>2. m.tags[u].split_left = b
              BY <1>1, <1>2, <4>1, <6>1, TileFields
            <6> QED BY <1>3, <1>6, <3>2, <6>2 DEF SameSplit
          <5>2. n.tags[u].split_left = t
            BY <1>6, <3>2, <4>1
          <5> QED BY <1>8, <5>1, <5>2 DEF Whole
        <4>2. CASE u # m.tags[b].split_right
          BY <1>6, <2>3, <3>2, <4>2 DEF Whole
        <4> QED BY <4>1, <4>2
      <3> QED BY <1>6, <3>1, <3>2 DEF Wholes
    <2>4. b \notin Wholes(n, i)
      BY <1>6 DEF Wholes
    <2> QED BY <1>3, <2>1, <2>2, <2>3, <2>4
  <1>10. Classed(n)
    <2>1. ASSUME NEW u \in Blocks(n), n.tags[u].index # -1
          PROVE  n.tags[u].index = class(n.tags[u].real_size - TAG)
      <3>1. u # t
        BY <1>7, <2>1 DEF Held
      <3> QED BY <1>3, <1>6, <2>1, <3>1 DEF Good, Classed
    <2> QED BY <2>1 DEF Classed
  <1>11. Apart(n)
    <2>1. ASSUME NEW u \in Blocks(n), n.tags[u].index # -1, n.tags[u].split_right # NULL
          PROVE  n.tags[n.tags[u].split_right].index = -1
      <3>1. u # t /\ u \in Blocks(m) /\ n.tags[u].split_right = o.tags[u].split_right
            /\ o.tags[u].index # -1
        BY <1>6, <1>7, <2>1 DEF Held
      <3>2. o.tags[o.tags[u].split_right].index = -1
        BY <1>3, <2>1, <3>1 DEF Good, Apart
      <3>3. n.tags[u].split_right \in Blocks(n)
        BY <1>6, <2>1, TileFields DEF Sound
      <3> QED BY <1>6, <3>1, <3>2, <3>3
    <2> QED BY <2>1, Zenon DEF Apart
  <1>12. \A u \in Held(m) \ {t} : n.tags[u].real_size = m.tags[u].real_size
    <2>1. \A u \in Held(m) : u \in Blocks(m) /\ u \in Blocks(n)
      BY <1>7 DEF Held
    <2> QED BY <1>3, <1>6, <2>1 DEF SameSplit
  <1>13. n.tags[t].split_left = m.tags[t].split_left
    <2>1. t \in Blocks(n)
      BY <1>1, <1>6
    <2> QED BY <1>1, <1>3, <1>6, <2>1 DEF SameSplit
  <1> QED BY <1>6, <1>7, <1>9, <1>10, <1>11, <1>12, <1>13 DEF Good

(* A block melts into the free block on its left, which leaves its list.   *)
LEMMA MeltGood ==
    ASSUME NEW m, NEW hi \in Nat, Good(m, hi), hi < UINT_MOD, NEW t \in Held(m),
           NEW l, l = m.tags[t].split_left, l # NULL, m.tags[l].index # -1,
           NEW n, n = remove_tag(melt_left(m, t), l)
    PROVE  /\ Good(n, hi) /\ Held(n) = (Held(m) \ {t}) \cup {l}
           /\ l \in Blocks(m) /\ l # t
           /\ \A u \in Held(m) \ {t} : n.tags[u].real_size = m.tags[u].real_size
           /\ \A i \in Classes : Wholes(n, i) = Wholes(m, i)
  <1> DEFINE o == join(m, l, t)
             r == m.tags[t].split_right
  <1>1. Sound(m, hi) /\ IsFiniteSet(Blocks(m)) /\ Arena(m) /\ Tiles(m, hi) /\ t \in Blocks(m)
    BY DEF Good, Sound, Held
  <1>2. l \in Blocks(m) /\ m.tags[l].split_right = t /\ l \notin Held(m)
    BY <1>1, TileFields DEF Held
  <1>3. n = remove_tag(o, l)
    BY DEF melt_left
  <1>4. /\ Sound(o, hi) /\ IsFiniteSet(Blocks(o)) /\ Joined(m, o, l, t)
        /\ l # t /\ r # l
    BY <1>1, <1>2, JoinSound
  <1> HIDE DEF o
  <1>5. /\ Arena(o) /\ Links(o) /\ Ranked(o) /\ Tiles(o, hi)
        /\ l \in Blocks(o) /\ o.tags[l].index # -1 /\ Blocks(o) = Blocks(m) \ {t}
    BY <1>2, <1>4 DEF Sound, Joined
  <1>6. /\ Arena(n) /\ Blocks(n) = Blocks(o)
        /\ \A u \in Blocks(o) :
              /\ SameSplit(o.tags[u], n.tags[u])
              /\ n.tags[u].index = IF u = l THEN -1 ELSE o.tags[u].index
    <2>1. o.tags[l].next \in Blocks(o) \cup {NULL} /\ o.tags[l].prev \in Blocks(o) \cup {NULL}
      BY <1>5 DEF Links
    <2> QED BY <1>3, <1>5, <2>1, RemoveShape
  <1>7. Links(n) /\ Ranked(n)
    BY <1>3, <1>5, RemoveLinks
  <1>8. Tiles(n, hi)
    BY <1>5, <1>6, SameTiles
  <1>9. ASSUME NEW u \in Blocks(n)
        PROVE  /\ u \in Blocks(m) /\ u # t
               /\ n.tags[u].index = IF u = l THEN -1 ELSE m.tags[u].index
               /\ u # l => n.tags[u].real_size = m.tags[u].real_size
               /\ n.tags[u].split_right = IF u = l THEN r ELSE m.tags[u].split_right
               /\ n.tags[u].split_left = IF u = r THEN l ELSE m.tags[u].split_left
    BY <1>4, <1>5, <1>6 DEF Joined, SameSplit
  <1>10. Held(n) = (Held(m) \ {t}) \cup {l}
    <2>1. l \in Held(n)
      BY <1>5, <1>6 DEF Held
    <2>2. ASSUME NEW u, u # l PROVE u \in Held(n) <=> u \in Held(m) \ {t}
      BY <1>5, <1>6, <1>9, <2>2 DEF Held
    <2> QED BY <2>1, <2>2
  <1>11. ASSUME NEW u \in Held(m) \ {t} PROVE n.tags[u].real_size = m.tags[u].real_size
    <2>1. u \in Blocks(n) /\ u # l
      BY <1>2, <1>5, <1>6 DEF Held
    <2> QED BY <1>9, <2>1
  <1>12. l # NULL /\ t # NULL
    BY <1>1, ArenaFields
  <1>13. ASSUME NEW i \in Classes PROVE Wholes(n, i) = Wholes(m, i)
    <2>1. i # -1
      BY ClassAssumption DEF Classes
    <2>2. l \notin Wholes(m, i) /\ t \notin Wholes(m, i)
      BY <1>2, <1>12, <2>1 DEF Wholes, Whole, Held
    <2>3. l \notin Wholes(n, i) /\ t \notin Wholes(n, i)
      BY <1>9, <2>1 DEF Wholes
    <2>4. ASSUME NEW u \in Blocks(n), u # l
          PROVE  Whole(n.tags[u]) <=> Whole(m.tags[u])
      <3>1. n.tags[u].split_right = m.tags[u].split_right
        BY <1>9, <2>4
      <3>2. CASE u = r
        <4>1. n.tags[u].split_left = l
          BY <1>9, <3>2
        <4>2. m.tags[u].split_left = t
          <5>1. r # NULL
            BY <1>6, <3>2, ArenaFields
          <5> QED BY <1>1, <3>2, <5>1, TileFields
        <4> QED BY <1>12, <4>1, <4>2 DEF Whole
      <3>3. CASE u # r
        BY <1>9, <3>1, <3>3 DEF Whole
      <3> QED BY <3>2, <3>3
    <2>5. ASSUME NEW u, u # l, u # t PROVE u \in Wholes(n, i) <=> u \in Wholes(m, i)
      <3>1. u \in Blocks(n) <=> u \in Blocks(m)
        BY <1>5, <1>6, <2>5
      <3>2. u \in Blocks(n) => n.tags[u].index = m.tags[u].index
        BY <1>9, <2>5
      <3> QED BY <2>4, <2>5, <3>1, <3>2 DEF Wholes
    <2> QED BY <2>2, <2>3, <2>5
  <1>14. Classed(n)
    <2>1. ASSUME NEW u \in Blocks(n), n.tags[u].index # -1
          PROVE  n.tags[u].index = class(n.tags[u].real_size - TAG)
      <3>1. u # l /\ u \in Blocks(m) /\ n.tags[u].index = m.tags[u].index
            /\ n.tags[u].real_size = m.tags[u].real_size
        BY <1>9, <2>1
      <3> QED BY <2>1, <3>1 DEF Good, Classed
    <2> QED BY <2>1, Zenon DEF Classed
  <1>15. Apart(n)
    <2>1. ASSUME NEW u \in Blocks(n), n.tags[u].index # -1, n.tags[u].split_right # NULL
          PROVE  n.tags[n.tags[u].split_right].index = -1
      <3> DEFINE q == m.tags[u].split_right
      <3>1. u # l /\ u \in Blocks(m) /\ n.tags[u].split_right = q /\ m.tags[u].index # -1
        BY <1>9, <2>1
      <3>2. m.tags[q].index = -1
        BY <2>1, <3>1 DEF Good, Apart
      <3>3. q \in Blocks(n)
        BY <1>6, <1>8, <2>1, <3>1, TileFields
      <3> QED BY <1>9, <3>1, <3>2, <3>3
    <2> QED BY <2>1, Zenon DEF Apart
  <1>16. IsFiniteSet(Blocks(n)) /\ Sound(n, hi)
    BY <1>4, <1>6, <1>7, <1>8 DEF Sound
  <1> QED BY <1>2, <1>4, <1>10, <1>11, <1>13, <1>14, <1>15, <1>16 DEF Good

(* A whole chunk that is on no list goes.                                  *)
Dropped(m, t) == [m EXCEPT !.tags = Without(@, t)]

(* A held chunk that is whole is given up.                                 *)
LEMMA DropGood ==
    ASSUME NEW m, NEW hi \in Nat, Good(m, hi), NEW t \in Held(m), Whole(m.tags[t]),
           NEW n, n = Dropped(m, t)
    PROVE  /\ Good(n, hi) /\ Held(n) = Held(m) \ {t}
           /\ \A u \in Blocks(n) : n.tags[u] = m.tags[u]
           /\ \A i \in Classes : Wholes(n, i) = Wholes(m, i)
  <1>1. Arena(m) /\ Links(m) /\ Ranked(m) /\ Tiles(m, hi) /\ t \in Blocks(m)
    BY DEF Good, Sound, Held
  <1>2. n = [tags |-> Without(m.tags, t), l_freePages |-> m.l_freePages]
    BY <1>1 DEF Arena, Dropped
  <1>3. /\ n.tags = Without(m.tags, t) /\ n.l_freePages = m.l_freePages
        /\ n = [tags |-> n.tags, l_freePages |-> n.l_freePages]
    BY <1>2
  <1>4. /\ Blocks(n) = Blocks(m) \ {t}
        /\ \A u \in Blocks(n) : n.tags[u] = m.tags[u]
        /\ n.tags \in [Blocks(n) -> Tag]
    BY <1>1, <1>3 DEF Without, Restrict, Arena, Blocks
  <1>5. \A i \in Classes : m.l_freePages[i] # t
    <2>1. \A i \in Classes : i # -1
      BY ClassAssumption DEF Classes
    <2>2. t # NULL
      BY <1>1, ArenaFields
    <2> QED BY <1>1, <2>1, <2>2 DEF Links, Held
  <1>6. n.l_freePages \in [Classes -> Blocks(n) \cup {NULL}]
    BY <1>1, <1>3, <1>4, <1>5 DEF Arena
  <1>7. Arena(n)
    BY <1>1, <1>3, <1>4, <1>6 DEF Arena
  <1>8. Links(n) /\ Ranked(n)
    <2>1. \A u \in Blocks(m) \ Blocks(n) : m.tags[u].index = -1
      BY <1>4 DEF Held
    <2>2. \A u \in Blocks(n) \ Blocks(m) :
             n.tags[u].index = -1 /\ n.tags[u].next = NULL /\ n.tags[u].prev = NULL
      BY <1>4
    <2>3. \A u \in Blocks(n) \cap Blocks(m) :
             /\ n.tags[u].index = m.tags[u].index
             /\ n.tags[u].next = m.tags[u].next /\ n.tags[u].prev = m.tags[u].prev
      BY <1>4
    <2> QED BY <1>1, <1>3, <1>7, <2>1, <2>2, <2>3, OthersLinks
  <1>9. Tiles(n, hi)
    BY <1>1, <1>4, DropTiles
  <1>10. Held(n) = Held(m) \ {t}
    BY <1>4 DEF Held
  <1>11. \A i \in Classes : Wholes(n, i) = Wholes(m, i)
    <2>1. \A i \in Classes : i # -1
      BY ClassAssumption DEF Classes
    <2>2. \A i \in Classes : t \notin Wholes(m, i)
      BY <2>1 DEF Wholes, Held
    <2> QED BY <1>4, <2>2 DEF Wholes
  <1>12. Classed(n)
    BY <1>4 DEF Good, Classed
  <1>13. Apart(n)
    <2>1. ASSUME NEW u \in Blocks(n), n.tags[u].split_right # NULL
          PROVE  n.tags[u].split_right \in Blocks(n)
      BY <1>7, <1>9, <2>1, TileFields
    <2> QED BY <1>4, <2>1 DEF Good, Apart
  <1>14. IsFiniteSet(Blocks(n))
    BY <1>4, FS_RemoveElement DEF Good
  <1> QED BY <1>4, <1>7, <1>8, <1>9, <1>10, <1>11, <1>12, <1>13, <1>14 DEF Good, Sound

(* Only the size asked for changes.                                        *)
Resized(m, t, s) == [m EXCEPT !.tags[t].size = s]

(* The size asked for is noted in a tag; nothing depends on it.            *)
LEMMA ResizeGood ==
    ASSUME NEW m, NEW hi \in Nat, Good(m, hi), NEW t \in Blocks(m), NEW s \in Nat,
           NEW n, n = Resized(m, t, s)
    PROVE  /\ Good(n, hi) /\ Blocks(n) = Blocks(m) /\ Held(n) = Held(m)
           /\ n.tags[t].size = s
           /\ \A u \in Blocks(m) : SameSplit(m.tags[u], n.tags[u])
           /\ \A i \in Classes : Wholes(n, i) = Wholes(m, i)
  <1>1. Arena(m) /\ Links(m) /\ Ranked(m) /\ Tiles(m, hi)
    BY DEF Good, Sound
  <1> DEFINE g == [m.tags[t] EXCEPT !.size = s]
             T == [m.tags EXCEPT ![t] = g]
  <1>2. m.tags[t] \in Tag /\ g \in Tag
    <2>1. m.tags[t] \in Tag
      BY <1>1, ArenaFields
    <2> QED BY <2>1 DEF Tag
  <1>3. n = [tags |-> T, l_freePages |-> m.l_freePages]
    BY <1>1 DEF Arena, Resized
  <1>4. /\ T \in [Blocks(m) -> Tag] /\ T[t] = g
        /\ \A u \in Blocks(m) : u # t => T[u] = m.tags[u]
    <2> HIDE DEF g
    <2> QED BY <1>1, <1>2 DEF Arena, Blocks
  <1>5. /\ g.size = s /\ SameSplit(m.tags[t], g) /\ g.index = m.tags[t].index
        /\ g.next = m.tags[t].next /\ g.prev = m.tags[t].prev
    BY <1>2 DEF Tag, SameSplit
  <1> HIDE DEF g, T
  <1>6. n.tags = T /\ n.l_freePages = m.l_freePages /\ Blocks(n) = Blocks(m)
    BY <1>3, <1>4 DEF Blocks
  <1>7. Arena(n)
    BY <1>1, <1>3, <1>4, <1>6 DEF Arena
  <1>8. \A u \in Blocks(m) : /\ n.tags[u].index = m.tags[u].index
                             /\ n.tags[u].next = m.tags[u].next
                             /\ n.tags[u].prev = m.tags[u].prev
                             /\ SameSplit(m.tags[u], n.tags[u])
    BY <1>4, <1>5, <1>6 DEF SameSplit
  <1>9. Links(n) /\ Ranked(n)
    <2>1. Blocks(m) \ Blocks(n) = {} /\ Blocks(n) \ Blocks(m) = {}
          /\ Blocks(n) \cap Blocks(m) = Blocks(m)
      BY <1>6
    <2>2. /\ \A u \in Blocks(m) \ Blocks(n) : m.tags[u].index = -1
          /\ \A u \in Blocks(n) \ Blocks(m) :
               n.tags[u].index = -1 /\ n.tags[u].next = NULL /\ n.tags[u].prev = NULL
      BY <2>1
    <2>3. \A u \in Blocks(n) \cap Blocks(m) :
             /\ n.tags[u].index = m.tags[u].index
             /\ n.tags[u].next = m.tags[u].next /\ n.tags[u].prev = m.tags[u].prev
      BY <1>8
    <2> QED BY <1>1, <1>6, <1>7, <2>2, <2>3, OthersLinks
  <1>10. Tiles(n, hi)
    BY <1>1, <1>6, <1>8, SameTiles
  <1>11. Held(n) = Held(m) /\ \A i \in Classes : Wholes(n, i) = Wholes(m, i)
    BY <1>6, <1>8 DEF Held, Wholes, Whole, SameSplit
  <1>12. Classed(n)
    BY <1>6, <1>8 DEF Good, Classed, SameSplit
  <1>13. Apart(n)
    <2>1. ASSUME NEW u \in Blocks(m), m.tags[u].split_right # NULL
          PROVE  m.tags[u].split_right \in Blocks(m)
      BY <1>1, <2>1, TileFields
    <2> QED BY <1>6, <1>8, <2>1 DEF Good, Apart, SameSplit
  <1> QED
    <2>1. n.tags[t].size = s
      BY <1>4, <1>5, <1>6
    <2> QED BY <1>6, <1>7, <1>8, <1>9, <1>10, <1>11, <1>12, <1>13, <2>1 DEF Good, Sound

(* The pool lies below 4 GiB.                                              *)
LEMMA LowPool ==
    UINT_MOD \in Nat \ {0} /\ pool_end < UINT_MOD
  <1>1. l_pageCount * PAGE_SIZE \in Nat
    BY ClassAssumption, PageAssumption, ProductNat
  <1> QED BY <1>1, LowMemoryAssumption, PoolBounds

(* Sums that stay below 4 GiB do not wrap around.                          *)
LEMMA NoUintWrap ==
    ASSUME NEW x \in Nat, x < UINT_MOD
    PROVE  x % UINT_MOD = x
  BY LowMemoryAssumption

(* Block t is cut at k, and the new block there is on no list yet.         *)
Cut(m, o, t, k) ==
    /\ Arena(o) /\ Blocks(o) = Blocks(m) \cup {k}
    /\ o.l_freePages = m.l_freePages
    /\ o.tags[k].real_size = Upto(m, t) - k
    /\ o.tags[k].index = -1
    /\ o.tags[k].next = NULL /\ o.tags[k].prev = NULL
    /\ o.tags[k].split_left = t
    /\ o.tags[k].split_right = m.tags[t].split_right
    /\ \A u \in Blocks(m) :
          /\ o.tags[u].index = m.tags[u].index
          /\ o.tags[u].next = m.tags[u].next
          /\ o.tags[u].prev = m.tags[u].prev
          /\ o.tags[u].real_size = IF u = t THEN k - t ELSE m.tags[u].real_size
          /\ o.tags[u].split_right = IF u = t THEN k ELSE m.tags[u].split_right
          /\ o.tags[u].split_left = IF u = m.tags[t].split_right THEN k
                                    ELSE m.tags[u].split_left

(* What split_tag makes of the tags before it lists the new block at k.    *)
LEMMA CutShape ==
    ASSUME NEW m, NEW hi \in Nat, Arena(m), Tiles(m, hi), hi < UINT_MOD,
           NEW t \in Blocks(m), NEW k, k = t + TAG + m.tags[t].size,
           k + TAG <= Upto(m, t)
    PROVE  \E o : /\ Cut(m, o, t, k) /\ k \in Nat \ Blocks(m)
                  /\ split_tag(m, t) = insert_tag(o, k, class(Upto(m, t) - k - TAG))
  <1> DEFINE g       == m.tags[t]
             rest    == (g.real_size - TAG - g.size) % UINT_MOD
             new_tag == (t + TAG + g.size) % UINT_MOD
             big     == [g EXCEPT !.real_size = (g.real_size - rest) % UINT_MOD,
                                  !.split_right = new_tag]
             cut     == [m.tags EXCEPT ![t].real_size = (g.real_size - rest) % UINT_MOD,
                                       ![t].split_right = new_tag]
             tied    == IF g.split_right = NULL THEN cut
                        ELSE [cut EXCEPT ![g.split_right].split_left = new_tag]
             fresh   == [size |-> 0, real_size |-> rest, index |-> -1, split_left |-> t,
                         split_right |-> g.split_right, next |-> NULL, prev |-> NULL]
             o       == [m EXCEPT !.tags = With(tied, new_tag, fresh)]
  <1>0. split_tag(m, t) = insert_tag(o, new_tag, class(rest - TAG))
    BY DEF split_tag
  <1>1. /\ g \in Tag /\ t \in Nat \ {NULL} /\ g.size \in Nat /\ g.real_size \in Nat
        /\ g.split_right \in Nat
    BY ArenaFields
  <1>2. /\ k \in Nat \ {NULL} /\ t < k /\ k < Upto(m, t) /\ Upto(m, t) <= hi
        /\ Upto(m, t) = t + g.real_size
    BY <1>1, TileFields DEF TAG, NULL, Upto
  <1>3. k \notin Blocks(m)
    <2>1. SUFFICES ASSUME k \in Blocks(m) PROVE FALSE
      OBVIOUS
    <2>2. Upto(m, t) <= k
      BY <1>2, <2>1 DEF Tiles
    <2>3. Upto(m, t) \in Nat
      BY TileFields
    <2> QED BY <1>2, <2>2, <2>3
  <1>4. new_tag = k
    <2>1. k < UINT_MOD
      BY <1>1, <1>2, LowMemoryAssumption
    <2> QED BY <1>2, <2>1, NoUintWrap
  <1>5. rest = Upto(m, t) - k /\ rest \in Nat
    <2>1. g.real_size - TAG - g.size = Upto(m, t) - k
      BY <1>1, <1>2 DEF TAG
    <2>2. Upto(m, t) - k \in Nat /\ Upto(m, t) - k < UINT_MOD
      BY <1>1, <1>2, LowMemoryAssumption
    <2> QED BY <2>1, <2>2, NoUintWrap
  <1>6. (g.real_size - rest) % UINT_MOD = k - t /\ k - t \in Nat
    <2>1. g.real_size - rest = k - t
      BY <1>1, <1>2, <1>5
    <2>2. k - t \in Nat /\ k - t < UINT_MOD
      BY <1>1, <1>2, LowMemoryAssumption
    <2> QED BY <2>1, <2>2, NoUintWrap
  <1>7. rest - TAG = Upto(m, t) - k - TAG
    BY <1>5
  <1> HIDE DEF rest, new_tag
  <1>8. /\ big \in Tag
        /\ big.real_size = k - t /\ big.split_right = k /\ big.index = g.index
        /\ big.next = g.next /\ big.prev = g.prev /\ big.split_left = g.split_left
    BY <1>1, <1>2, <1>4, <1>6 DEF Tag
  <1>9. /\ cut \in [Blocks(m) -> Tag] /\ cut[t] = big
        /\ \A u \in Blocks(m) : u # t => cut[u] = m.tags[u]
    <2>1. cut = [m.tags EXCEPT ![t] = big]
      BY DEF Arena, Blocks
    <2> HIDE DEF big, cut
    <2> QED BY <1>8, <2>1 DEF Arena, Blocks
  <1> HIDE DEF big, cut
  <1>10. /\ tied \in [Blocks(m) -> Tag]
         /\ g.split_right # NULL => tied[g.split_right] = [cut[g.split_right] EXCEPT !.split_left = k]
         /\ \A u \in Blocks(m) : u # g.split_right => tied[u] = cut[u]
    <2>1. CASE g.split_right = NULL
      BY <1>9, <2>1 DEF Arena
    <2>2. CASE g.split_right # NULL
      <3>1. g.split_right \in Blocks(m)
        BY <2>2, TileFields
      <3>2. [cut[g.split_right] EXCEPT !.split_left = k] \in Tag
        <4>1. cut[g.split_right] \in Tag /\ k \in Nat
          BY <1>2, <1>9, <3>1
        <4> QED BY <4>1 DEF Tag
      <3>3. tied = [cut EXCEPT ![g.split_right] = [cut[g.split_right] EXCEPT !.split_left = k]]
        BY <1>4, <1>9, <2>2, <3>1
      <3> HIDE DEF tied
      <3> QED BY <1>9, <3>1, <3>2, <3>3
    <2> QED BY <2>1, <2>2
  <1> HIDE DEF tied
  <1>11. fresh \in Tag
    BY <1>1, <1>5 DEF Tag, NULL
  <1> DEFINE m2 == [m EXCEPT !.tags = tied]
  <1>12. m2 = [tags |-> tied, l_freePages |-> m.l_freePages]
         /\ m2.tags = tied /\ m2.l_freePages = m.l_freePages
    BY DEF Arena
  <1>13. Arena(m2) /\ Blocks(m2) = Blocks(m)
    <2> HIDE DEF m2
    <2>1. Blocks(m2) = Blocks(m)
      BY <1>10, <1>12 DEF Blocks
    <2> QED BY <1>10, <1>12, <2>1 DEF Arena
  <1>14. o = Added(m2, k, fresh)
    BY <1>4, <1>12 DEF Arena, Added
  <1> HIDE DEF m2, o, fresh
  <1>15. /\ Arena(o) /\ Blocks(o) = Blocks(m) \cup {k}
         /\ o.l_freePages = m.l_freePages
         /\ o.tags[k] = fresh
         /\ \A u \in Blocks(m) : o.tags[u] = tied[u]
    BY <1>2, <1>3, <1>11, <1>12, <1>13, <1>14, AddShape
  <1>16. /\ fresh.real_size = Upto(m, t) - k /\ fresh.index = -1
         /\ fresh.next = NULL /\ fresh.prev = NULL
         /\ fresh.split_left = t /\ fresh.split_right = g.split_right
    BY <1>5 DEF fresh
  <1>17. ASSUME NEW u \in Blocks(m)
         PROVE  /\ o.tags[u].index = m.tags[u].index
                /\ o.tags[u].next = m.tags[u].next
                /\ o.tags[u].prev = m.tags[u].prev
                /\ o.tags[u].real_size = IF u = t THEN k - t ELSE m.tags[u].real_size
                /\ o.tags[u].split_right = IF u = t THEN k ELSE m.tags[u].split_right
                /\ o.tags[u].split_left = IF u = g.split_right THEN k
                                          ELSE m.tags[u].split_left
    <2>1. /\ cut[u].index = m.tags[u].index
          /\ cut[u].next = m.tags[u].next
          /\ cut[u].prev = m.tags[u].prev
          /\ cut[u].real_size = IF u = t THEN k - t ELSE m.tags[u].real_size
          /\ cut[u].split_right = IF u = t THEN k ELSE m.tags[u].split_right
          /\ cut[u].split_left = m.tags[u].split_left
          /\ cut[u] \in Tag
      BY <1>8, <1>9
    <2>2. u # NULL
      BY ArenaFields
    <2>3. /\ tied[u].index = cut[u].index
          /\ tied[u].next = cut[u].next
          /\ tied[u].prev = cut[u].prev
          /\ tied[u].real_size = cut[u].real_size
          /\ tied[u].split_right = cut[u].split_right
          /\ tied[u].split_left = IF u = g.split_right THEN k ELSE cut[u].split_left
      <3>1. CASE u = g.split_right
        <4>1. tied[u] = [cut[u] EXCEPT !.split_left = k]
          BY <1>10, <2>2, <3>1
        <4> QED BY <2>1, <3>1, <4>1 DEF Tag
      <3>2. CASE u # g.split_right
        BY <1>10, <3>2
      <3> QED BY <3>1, <3>2
    <2> QED BY <1>15, <2>1, <2>3
  <1>18. Cut(m, o, t, k)
    BY <1>15, <1>16, <1>17 DEF Cut
  <1> QED BY <1>0, <1>2, <1>3, <1>4, <1>7, <1>18

(* Block t keeps s bytes, the rest becomes a free block.                   *)
LEMMA SplitGood ==
    ASSUME NEW m, NEW hi \in Nat, Good(m, hi), hi < UINT_MOD, NEW t \in Held(m),
           m.tags[t].split_right # NULL => m.tags[t].split_right \in Held(m),
           NEW k, k = t + TAG + m.tags[t].size, k + TAG <= Upto(m, t),
           NEW n, n = split_tag(m, t)
    PROVE  /\ Good(n, hi) /\ Held(n) = Held(m)
           /\ \A u \in Held(m) \ {t} : n.tags[u].real_size = m.tags[u].real_size
           /\ Upto(n, t) = k
           /\ \A i \in Classes : Wholes(n, i) = Wholes(m, i)
  <1> DEFINE r == m.tags[t].split_right
  <1>1. /\ Arena(m) /\ Links(m) /\ Ranked(m) /\ Tiles(m, hi) /\ IsFiniteSet(Blocks(m))
        /\ t \in Blocks(m) /\ m.tags[t].index = -1
    BY DEF Good, Sound, Held
  <1> DEFINE i0 == class(Upto(m, t) - k - TAG)
  <1>0. PICK o : /\ Cut(m, o, t, k) /\ k \in Nat \ Blocks(m)
                 /\ split_tag(m, t) = insert_tag(o, k, i0)
    BY <1>1, CutShape
  <1>2. /\ Arena(o) /\ Blocks(o) = Blocks(m) \cup {k}
        /\ o.l_freePages = m.l_freePages
        /\ k \in Nat \ Blocks(m)
        /\ o.tags[k].real_size = Upto(m, t) - k
        /\ o.tags[k].index = -1
        /\ o.tags[k].next = NULL /\ o.tags[k].prev = NULL
        /\ o.tags[k].split_left = t /\ o.tags[k].split_right = r
        /\ \A u \in Blocks(m) :
              /\ o.tags[u].index = m.tags[u].index
              /\ o.tags[u].next = m.tags[u].next
              /\ o.tags[u].prev = m.tags[u].prev
              /\ o.tags[u].real_size = IF u = t THEN k - t ELSE m.tags[u].real_size
              /\ o.tags[u].split_right = IF u = t THEN k ELSE m.tags[u].split_right
              /\ o.tags[u].split_left = IF u = r THEN k ELSE m.tags[u].split_left
    BY <1>0 DEF Cut
  <1>3. /\ t \in Nat \ {NULL} /\ m.tags[t].size \in Nat /\ t + TAG <= k
        /\ k # NULL /\ t < k /\ k # t
        /\ r # NULL => r \in Blocks(m) /\ m.tags[r].split_left = t /\ r # t /\ r # k
    <2>1. t \in Nat \ {NULL} /\ m.tags[t].size \in Nat
      BY <1>1, ArenaFields
    <2>2. t + TAG <= k /\ k # NULL /\ t < k /\ k # t
      BY <2>1 DEF TAG, NULL
    <2>3. r # NULL => r \in Blocks(m) /\ m.tags[r].split_left = t /\ t < r
      BY <1>1, TileFields
    <2> QED BY <1>2, <2>1, <2>2, <2>3
  <1>4. Links(o) /\ Ranked(o)
    <2>1. Blocks(m) \ Blocks(o) = {}
      BY <1>2
    <2>2. \A u \in Blocks(o) \ Blocks(m) :
             o.tags[u].index = -1 /\ o.tags[u].next = NULL /\ o.tags[u].prev = NULL
      BY <1>2
    <2>3. \A u \in Blocks(o) \cap Blocks(m) :
             /\ o.tags[u].index = m.tags[u].index
             /\ o.tags[u].next = m.tags[u].next /\ o.tags[u].prev = m.tags[u].prev
      BY <1>2
    <2> QED BY <1>1, <1>2, <2>1, <2>2, <2>3, OthersLinks
  <1>5. Tiles(o, hi)
    BY <1>1, <1>2, <1>3, SplitTiles
  <1>6. Held(o) = Held(m) \cup {k}
    BY <1>2 DEF Held
  <1>7. ASSUME NEW i \in Classes PROVE Wholes(o, i) = Wholes(m, i)
    <2>1. i # -1
      BY ClassAssumption DEF Classes
    <2>2. t \notin Wholes(o, i) /\ t \notin Wholes(m, i) /\ k \notin Wholes(o, i)
      BY <1>1, <1>2, <2>1 DEF Wholes
    <2>3. ASSUME NEW u \in Blocks(m), u # t
          PROVE  Whole(o.tags[u]) <=> Whole(m.tags[u])
      <3>1. CASE u = r
        <4>1. u # NULL
          BY <1>1, ArenaFields
        <4>2. o.tags[u].split_left = k /\ m.tags[u].split_left = t
          BY <1>2, <1>3, <3>1, <4>1
        <4> QED BY <1>3, <4>2 DEF Whole
      <3>2. CASE u # r
        BY <1>2, <2>3, <3>2 DEF Whole
      <3> QED BY <3>1, <3>2
    <2>4. k \notin Wholes(m, i)
      BY <1>2 DEF Wholes
    <2>5. ASSUME NEW u, u # t, u # k PROVE u \in Wholes(o, i) <=> u \in Wholes(m, i)
      <3>1. u \in Blocks(o) <=> u \in Blocks(m)
        BY <1>2, <2>5
      <3>2. u \in Blocks(m) => o.tags[u].index = m.tags[u].index
        BY <1>2
      <3> QED BY <2>3, <2>5, <3>1, <3>2 DEF Wholes
    <2> QED BY <2>2, <2>4, <2>5
  <1>8. Classed(o)
    <2>1. ASSUME NEW u \in Blocks(o), o.tags[u].index # -1
          PROVE  o.tags[u].index = class(o.tags[u].real_size - TAG)
      <3>1. u \in Blocks(m) /\ u # t /\ o.tags[u].index = m.tags[u].index
            /\ o.tags[u].real_size = m.tags[u].real_size
        BY <1>1, <1>2, <2>1
      <3> QED BY <2>1, <3>1 DEF Good, Classed
    <2> QED BY <2>1, Zenon DEF Classed
  <1>9. Apart(o)
    <2>1. ASSUME NEW u \in Blocks(o), o.tags[u].index # -1, o.tags[u].split_right # NULL
          PROVE  o.tags[o.tags[u].split_right].index = -1
      <3> DEFINE q == m.tags[u].split_right
      <3>1. u \in Blocks(m) /\ u # t /\ o.tags[u].split_right = q /\ m.tags[u].index # -1
        BY <1>1, <1>2, <2>1
      <3>2. q \in Blocks(m)
        BY <1>1, <2>1, <3>1, TileFields
      <3>3. m.tags[q].index = -1
        BY <2>1, <3>1 DEF Good, Apart
      <3> QED BY <1>2, <3>1, <3>2, <3>3
    <2> QED BY <2>1, Zenon DEF Apart
  <1>10. Good(o, hi)
    <2>1. IsFiniteSet(Blocks(o))
      BY <1>1, <1>2, FS_AddElement
    <2> QED BY <1>2, <1>4, <1>5, <1>8, <1>9, <2>1 DEF Good, Sound
  <1>11. Good(n, hi) /\ Listed(o, n, k, i0)
    <2>1. /\ k \in Held(o)
          /\ o.tags[k].split_left # NULL => o.tags[k].split_left \in Held(o)
          /\ o.tags[k].split_right # NULL => o.tags[k].split_right \in Held(o)
      BY <1>2, <1>6
    <2>2. i0 = class(o.tags[k].real_size - TAG)
      BY <1>2
    <2>3. n = insert_tag(o, k, i0)
      BY <1>0
    <2> HIDE DEF i0
    <2> QED BY <1>10, <2>1, <2>2, <2>3, PutGood, Zenon
  <1>12. ~Whole(o.tags[k])
    BY <1>2, <1>3 DEF Whole
  <1>13. Held(n) = Held(m)
    <2>1. k \notin Held(m)
      BY <1>2 DEF Held
    <2> QED BY <1>6, <1>11, <2>1 DEF Listed
  <1>14. ASSUME NEW u \in Held(m) \ {t} PROVE n.tags[u].real_size = m.tags[u].real_size
    <2>1. u \in Blocks(m) /\ u \in Blocks(o)
      BY <1>2 DEF Held
    <2>2. n.tags[u].real_size = o.tags[u].real_size
      BY <1>11, <2>1 DEF SameSplit, Listed
    <2> QED BY <1>2, <2>1, <2>2
  <1>15. Upto(n, t) = k
    <2>1. n.tags[t].real_size = k - t
      <3>1. t \in Blocks(o)
        BY <1>1, <1>2
      <3>2. n.tags[t].real_size = o.tags[t].real_size
        BY <1>11, <3>1 DEF SameSplit, Listed
      <3> QED BY <1>1, <1>2, <3>2
    <2> QED BY <1>2, <1>3, <2>1 DEF Upto
  <1> QED BY <1>7, <1>11, <1>12, <1>13, <1>14, <1>15 DEF Listed

(* The room that the search has found leaves a remainder that is not       *)
(* negative, or one that wraps to more than an int holds.                  *)
LEMMA Remainder ==
    ASSUME NEW x \in Int, 0 - TAG <= x, x < UINT_MOD, 2 * TAG < UINT_MOD \div 2
    PROVE  x % UINT_MOD < UINT_MOD \div 2 => x % UINT_MOD = x
  <1>1. UINT_MOD \in Nat /\ UINT_MOD > 0
    BY LowPool
  <1>2. CASE x >= 0
    BY <1>1, <1>2, NoUintWrap
  <1>3. CASE x < 0
    <2>1. TAG < UINT_MOD \div 2 /\ UINT_MOD - TAG > UINT_MOD \div 2
      BY <1>1 DEF TAG
    <2>2. x % UINT_MOD = x + UINT_MOD
      BY <1>1, <1>3, <2>1 DEF TAG
    <2> QED BY <1>1, <1>3, <2>1, <2>2 DEF TAG
  <1> QED BY <1>2, <1>3

(* A block gets a size that it has room for, and gives away the rest if    *)
(* that is enough for a block of its own.                                  *)
LEMMA TrimGood ==
    ASSUME NEW m, NEW hi \in Nat, Good(m, hi), hi < UINT_MOD, NEW t \in Held(m),
           m.tags[t].split_right # NULL => m.tags[t].split_right \in Held(m),
           req.size \in Nat, req.size + TAG <= m.tags[t].real_size,
           2 * TAG < UINT_MOD \div 2,
           NEW n, n = trim(m, t)
    PROVE  /\ Good(n, hi) /\ Held(n) = Held(m)
           /\ \A u \in Held(m) \ {t} : n.tags[u].real_size = m.tags[u].real_size
           /\ t + TAG + req.size <= Upto(n, t)
           /\ \A i \in Classes : Wholes(n, i) = Wholes(m, i)
  <1> DEFINE x  == m.tags[t].real_size - req.size - 2 * TAG
             m1 == Resized(m, t, req.size)
  <1>1. Arena(m) /\ Tiles(m, hi) /\ t \in Blocks(m)
    BY DEF Good, Sound, Held
  <1>2. /\ t \in Nat /\ m.tags[t].real_size \in Nat /\ m.tags[t].real_size < UINT_MOD
        /\ Upto(m, t) = t + m.tags[t].real_size
    <2>1. t \in Nat /\ m.tags[t].real_size \in Nat /\ t + m.tags[t].real_size <= hi
      BY <1>1, TileFields DEF Upto
    <2> QED BY <2>1, LowMemoryAssumption DEF Upto
  <1>3. req.size % UINT_MOD = req.size
    BY <1>2, LowMemoryAssumption, NoUintWrap DEF TAG
  <1>4. /\ Good(m1, hi) /\ Blocks(m1) = Blocks(m) /\ Held(m1) = Held(m)
        /\ m1.tags[t].size = req.size
        /\ \A u \in Blocks(m) : SameSplit(m.tags[u], m1.tags[u])
        /\ \A i \in Classes : Wholes(m1, i) = Wholes(m, i)
    BY <1>1, ResizeGood
  <1>5. n = IF 0 < x % UINT_MOD /\ x % UINT_MOD < UINT_MOD \div 2 /\ getexp(x % UINT_MOD) >= 0
            THEN split_tag(m1, t) ELSE m1
    BY <1>3 DEF trim, Resized
  <1>6. x \in Int /\ 0 - TAG <= x /\ x < UINT_MOD
    BY <1>2, LowPool DEF TAG
  <1> HIDE DEF m1, x
  <1>7. \A u \in Held(m) : m1.tags[u].real_size = m.tags[u].real_size
    BY <1>4 DEF Held, SameSplit
  <1>8. /\ Upto(m1, t) = Upto(m, t) /\ m1.tags[t].split_right = m.tags[t].split_right
    BY <1>1, <1>4 DEF Upto, SameSplit
  <1>9. CASE 0 < x % UINT_MOD /\ x % UINT_MOD < UINT_MOD \div 2 /\ getexp(x % UINT_MOD) >= 0
    <2>1. x % UINT_MOD = x
      BY <1>6, <1>9, Remainder
    <2> DEFINE k == t + TAG + req.size
    <2>2. k + TAG <= Upto(m1, t)
      BY <1>2, <1>8, <1>9, <2>1 DEF x, TAG
    <2>3. n = split_tag(m1, t) /\ k = t + TAG + m1.tags[t].size
      BY <1>4, <1>5, <1>9
    <2> HIDE DEF k
    <2>4. /\ Good(n, hi) /\ Held(n) = Held(m1)
          /\ \A u \in Held(m1) \ {t} : n.tags[u].real_size = m1.tags[u].real_size
          /\ Upto(n, t) = k
          /\ \A i \in Classes : Wholes(n, i) = Wholes(m1, i)
      BY <1>4, <1>8, <2>2, <2>3, SplitGood
    <2>5. k <= k
      BY <1>2 DEF k, TAG
    <2> QED BY <1>4, <1>7, <2>4, <2>5 DEF k
  <1>10. CASE ~(0 < x % UINT_MOD /\ x % UINT_MOD < UINT_MOD \div 2 /\ getexp(x % UINT_MOD) >= 0)
    <2>1. n = m1
      BY <1>5, <1>10
    <2>2. t + TAG + req.size <= Upto(m, t)
      BY <1>2 DEF TAG
    <2> QED BY <1>4, <1>7, <1>8, <2>1, <2>2
  <1> QED BY <1>9, <1>10

(* A new chunk is a block on no list.                                      *)
LEMMA ChunkGood ==
    ASSUME NEW m, NEW lo \in Nat, NEW hi \in Nat, Good(m, lo),
           NEW k \in Nat \ {NULL}, kernel_end <= k, lo <= k, OnPage(k),
           NEW g \in Tag, g.index = -1, g.next = NULL, g.prev = NULL, Whole(g),
           g.real_size >= TAG, OnPage(k + g.real_size), k + g.real_size <= hi,
           NEW n, n = Added(m, k, g)
    PROVE  /\ Good(n, hi) /\ k \notin Blocks(m) /\ Held(n) = Held(m) \cup {k}
           /\ n.tags[k] = g
           /\ \A u \in Blocks(m) : n.tags[u] = m.tags[u]
           /\ \A i \in Classes : Wholes(n, i) = Wholes(m, i)
  <1>1. Arena(m) /\ Links(m) /\ Ranked(m) /\ Tiles(m, lo) /\ IsFiniteSet(Blocks(m))
    BY DEF Good, Sound
  <1>2. k \notin Blocks(m)
    <2>1. SUFFICES ASSUME k \in Blocks(m) PROVE FALSE
      OBVIOUS
    <2>2. k < Upto(m, k) /\ Upto(m, k) <= lo /\ Upto(m, k) \in Nat
      BY <1>1, <2>1, TileFields
    <2> QED BY <2>2
  <1>3. /\ Arena(n) /\ Blocks(n) = Blocks(m) \cup {k}
        /\ n.l_freePages = m.l_freePages
        /\ n.tags[k] = g
        /\ \A u \in Blocks(m) : n.tags[u] = m.tags[u]
    BY <1>1, <1>2, AddShape
  <1>4. Links(n) /\ Ranked(n)
    <2>1. \A u \in Blocks(m) \ Blocks(n) : m.tags[u].index = -1
      BY <1>3
    <2>2. \A u \in Blocks(n) \ Blocks(m) :
             n.tags[u].index = -1 /\ n.tags[u].next = NULL /\ n.tags[u].prev = NULL
      BY <1>3
    <2>3. \A u \in Blocks(n) \cap Blocks(m) :
             /\ n.tags[u].index = m.tags[u].index
             /\ n.tags[u].next = m.tags[u].next /\ n.tags[u].prev = m.tags[u].prev
      BY <1>3
    <2> QED BY <1>1, <1>3, <2>1, <2>2, <2>3, OthersLinks
  <1>5. Tiles(n, hi)
    BY <1>1, <1>3, ChunkTiles DEF Upto, Whole
  <1>6. Held(n) = Held(m) \cup {k}
    BY <1>3 DEF Held
  <1>7. \A i \in Classes : Wholes(n, i) = Wholes(m, i)
    <2>1. \A i \in Classes : i # -1
      BY ClassAssumption DEF Classes
    <2> QED BY <1>2, <1>3, <2>1 DEF Wholes
  <1>8. Classed(n)
    BY <1>3 DEF Good, Classed
  <1>9. Apart(n)
    <2>1. ASSUME NEW u \in Blocks(m), m.tags[u].split_right # NULL
          PROVE  m.tags[u].split_right \in Blocks(m)
      BY <1>1, <2>1, TileFields
    <2> QED BY <1>3, <2>1 DEF Good, Apart
  <1>10. IsFiniteSet(Blocks(n))
    BY <1>1, <1>3, FS_AddElement
  <1> QED BY <1>2, <1>3, <1>4, <1>5, <1>6, <1>7, <1>8, <1>9, <1>10 DEF Good, Sound
-----------------------------------------------------------------------------
(* The pool is as memory_alloc_pages leaves it.                            *)
Pooled(g) ==
    /\ g \in [next : Nat, limit : Nat]
    /\ \E k \in Nat :
          \/ g = unset_pool /\ k = 0
          \/ /\ g.next = kernel_end + k * PAGE_SIZE
             /\ g.limit = pool_end
             /\ g.next <= pool_end

(* What callers may ask malloc for.                                        *)
Modest(s) == s \in Nat /\ s + 2 * TAG + PAGE_SIZE + pool_end < UINT_MOD \div 2

(* No sum that malloc forms of a modest size wraps around.                 *)
LEMMA ModestFits ==
    ASSUME NEW s, Modest(s)
    PROVE  /\ s \in Nat /\ s % UINT_MOD = s /\ 2 * TAG < UINT_MOD \div 2
           /\ s + TAG < UINT_MOD
           /\ (s + TAG) % UINT_MOD = s + TAG
           /\ (s + TAG) % UINTPTR_MOD = s + TAG
           /\ pool_end + s + TAG + PAGE_SIZE < UINT_MOD
           /\ pool_end + s + 2 * TAG + PAGE_SIZE < UINT_MOD \div 2
  <1>1. /\ UINT_MOD \in Nat \ {0} /\ pool_end \in Nat /\ PAGE_SIZE \in Nat
        /\ UINTPTR_MOD \in Nat /\ UINT_MOD <= UINTPTR_MOD
    BY LowPool, PoolBounds, PageAssumption, SpaceAssumption, LowMemoryAssumption
  <1>2. /\ s \in Nat /\ 2 * TAG < UINT_MOD \div 2 /\ s < UINT_MOD /\ s + TAG < UINT_MOD
        /\ pool_end + s + TAG + PAGE_SIZE < UINT_MOD
        /\ pool_end + s + 2 * TAG + PAGE_SIZE < UINT_MOD \div 2
        /\ s + TAG \in Nat /\ s + TAG < UINTPTR_MOD
    BY <1>1 DEF Modest, TAG
  <1> QED BY <1>2, NoUintWrap, NoWrap

(* The pages for x bytes hold them, and the last one is not needless.      *)
LEMMA PagesFor ==
    ASSUME NEW x \in Nat, NEW P \in Nat \ {0}, x > 0
    PROVE  LET exact == (x \div P) + (IF x % P = 0 THEN 0 ELSE 1)
           IN  exact \in Nat \ {0} /\ x <= exact * P /\ exact * P < x + P
  <1> DEFINE q == x \div P
             r == x % P
  <1>1. q \in Nat /\ r \in Nat /\ r < P /\ x = q * P + r
    OBVIOUS
  <1> HIDE DEF q, r
  <1>2. CASE r = 0
    <2>1. q # 0
      BY <1>1, <1>2
    <2> QED BY <1>1, <1>2, <2>1 DEF q, r
  <1>3. CASE r # 0
    <2>1. (q + 1) * P = q * P + P
      BY <1>1
    <2> QED BY <1>1, <1>3, <2>1 DEF q, r
  <1> QED BY <1>2, <1>3

(* A chunk ends on a page, as it starts on one.                            *)
LEMMA WholePages ==
    ASSUME NEW k \in Nat
    PROVE  OnPage(kernel_end + k * PAGE_SIZE)
  <1>1. SUFFICES ASSUME NEW a \in Int, a = kernel_end + k * PAGE_SIZE PROVE OnPage(a)
    BY PoolBounds, ProductNat, PageAssumption
  <1>2. a - kernel_end = k * PAGE_SIZE
    BY <1>1, PoolBounds, ProductNat, PageAssumption
  <1>3. (k * PAGE_SIZE) % PAGE_SIZE = 0
    BY PageAssumption
  <1>4. (a - kernel_end) % PAGE_SIZE = 0
    BY <1>2, <1>3, Zenon
  <1> QED BY <1>4 DEF OnPage

(* A chunk for s bytes holds them and its tag, and is made of whole pages  *)
(* that the pool has not granted before.                                   *)
LEMMA NewChunk ==
    ASSUME Pooled(pool), NEW s, Modest(s), NEW c, c = allocate_new_tag(s)
    PROVE  /\ Pooled(c.pool) /\ pool.next <= c.pool.next /\ c.pool.next <= pool_end
           /\ c.tag # NULL =>
                 /\ c.tag \in Nat /\ kernel_end <= c.tag /\ pool.next <= c.tag
                 /\ c.real_size \in Nat /\ s + TAG <= c.real_size
                 /\ OnPage(c.tag) /\ OnPage(c.tag + c.real_size)
                 /\ c.tag + c.real_size <= c.pool.next
  <1> DEFINE usage == (s + TAG) % UINT_MOD
             exact == (usage \div PAGE_SIZE) + (IF usage % PAGE_SIZE = 0 THEN 0 ELSE 1)
             pages == IF exact < l_pageCount THEN l_pageCount ELSE exact
             r     == memory_alloc_pages(pool, pages)
  <1>1. c = [pool |-> r.pool, tag |-> r.ptr, real_size |-> (pages * PAGE_SIZE) % UINT_MOD]
    BY DEF allocate_new_tag
  <1>2. usage = s + TAG /\ s \in Nat /\ s + TAG \in Nat /\ s + TAG > 0
    BY ModestFits DEF TAG
  <1>3. exact \in Nat \ {0} /\ s + TAG <= exact * PAGE_SIZE
        /\ exact * PAGE_SIZE < s + TAG + PAGE_SIZE
    BY <1>2, PagesFor, PageAssumption
  <1> HIDE DEF exact
  <1>4. /\ pages \in Nat \ {0} /\ pages * PAGE_SIZE \in Nat
        /\ s + TAG <= pages * PAGE_SIZE /\ pool_end + pages * PAGE_SIZE < UINT_MOD
    <2>1. CASE exact < l_pageCount
      <3>1. exact * PAGE_SIZE <= l_pageCount * PAGE_SIZE
        BY <1>3, <2>1, ClassAssumption, PageAssumption
      <3>2. exact * PAGE_SIZE \in Nat /\ l_pageCount * PAGE_SIZE \in Nat
        BY <1>3, ClassAssumption, PageAssumption, ProductNat
      <3> QED BY <1>2, <1>3, <2>1, <3>1, <3>2, ClassAssumption, LowMemoryAssumption
    <2>2. CASE ~(exact < l_pageCount)
      <3>1. exact * PAGE_SIZE \in Nat
        BY <1>3, PageAssumption, ProductNat
      <3>2. pool_end + exact * PAGE_SIZE < UINT_MOD
        BY <1>2, <1>3, <3>1, ModestFits, PoolBounds, LowPool, PageAssumption DEF TAG
      <3> QED BY <1>3, <2>2, <3>1, <3>2
    <2> QED BY <2>1, <2>2
  <1> HIDE DEF pages
  <1>5. /\ (pages * PAGE_SIZE) % UINT_MOD = pages * PAGE_SIZE
        /\ pool_end + pages * PAGE_SIZE < UINTPTR_MOD
    <2>1. pages * PAGE_SIZE < UINT_MOD
      BY <1>4, PoolBounds, LowPool
    <2> QED BY <1>4, <2>1, NoUintWrap, LowMemoryAssumption, PoolBounds, SpaceAssumption
  <1>6. PICK k \in Nat : \/ pool = unset_pool /\ k = 0
                         \/ /\ pool.next = kernel_end + k * PAGE_SIZE
                            /\ pool.limit = pool_end
                            /\ pool.next <= pool_end
    BY DEF Pooled
  <1>7. /\ r.pool \in [next : Nat, limit : Nat]
        /\ r.pool.limit = pool_end
        /\ r.pool.next <= pool_end
        /\ \/ /\ r.ptr = NULL
              /\ r.pool.next = kernel_end + k * PAGE_SIZE
           \/ /\ r.ptr \in Nat \ {0}
              /\ r.ptr = kernel_end + k * PAGE_SIZE
              /\ r.pool.next = r.ptr + pages * PAGE_SIZE
              /\ r.pool.next = kernel_end + (k + pages) * PAGE_SIZE
    <2>1. pool \in [next : Nat, limit : Nat] /\ pages \in Nat
      BY <1>4 DEF Pooled
    <2> HIDE DEF r
    <2>2. r = memory_alloc_pages(pool, pages)
      BY DEF r
    <2> QED BY <1>5, <1>6, <2>1, <2>2, AllocResult
  <1> HIDE DEF r
  <1>8. /\ c.pool = r.pool /\ c.tag = r.ptr /\ c.real_size = pages * PAGE_SIZE
    BY <1>1, <1>5
  <1>9. k * PAGE_SIZE \in Nat /\ kernel_end \in Nat /\ pool.next \in Nat
        /\ r.pool.next \in Nat /\ pool.next <= kernel_end + k * PAGE_SIZE
    <2>1. k * PAGE_SIZE \in Nat /\ kernel_end \in Nat /\ pool.next \in Nat
          /\ r.pool.next \in Nat
      BY <1>7, PageAssumption, ProductNat, PoolBounds DEF Pooled
    <2> QED BY <1>6, <2>1 DEF unset_pool
  <1>10. CASE r.ptr = NULL /\ r.pool.next = kernel_end + k * PAGE_SIZE
    <2>1. Pooled(c.pool)
      BY <1>7, <1>8, <1>10 DEF Pooled
    <2> QED BY <1>7, <1>8, <1>9, <1>10, <2>1
  <1>11. CASE /\ r.ptr \in Nat \ {0}
              /\ r.ptr = kernel_end + k * PAGE_SIZE
              /\ r.pool.next = r.ptr + pages * PAGE_SIZE
              /\ r.pool.next = kernel_end + (k + pages) * PAGE_SIZE
    <2>1. k + pages \in Nat
      BY <1>4
    <2>2. Pooled(c.pool)
      BY <1>7, <1>8, <1>11, <2>1 DEF Pooled
    <2>3. OnPage(r.ptr) /\ OnPage(r.pool.next)
      BY <1>11, <2>1, WholePages
    <2> QED BY <1>4, <1>7, <1>8, <1>9, <1>11, <2>2, <2>3
  <1> QED BY <1>7, <1>10, <1>11

-----------------------------------------------------------------------------
(* The block that the call in progress has for itself.                     *)
Worker == IF pc \in {"copy", "clear", "melt_left", "melt_right"} THEN tag ELSE NULL

(* The pointers in L own the blocks of m that are on no list, except w.    *)
Owned(L, m, w) ==
    /\ \A p \in DOMAIN L : p - TAG \in Held(m) /\ p + L[p] <= Upto(m, p - TAG)
    /\ \A t \in Held(m) : t + TAG \in DOMAIN L \/ t = w

Counted == \A i \in Classes : l_completePages[i] = Cardinality(Wholes(arena, i))

Types ==
    /\ l_initialized \in {0, 1}
    /\ l_completePages \in [Classes -> 0..MAXCOMPLETE]
    /\ DOMAIN live \subseteq Nat /\ live \in [DOMAIN live -> Nat]
    /\ pc \in {"idle", "search", "copy", "clear", "melt_left", "melt_right"}
    /\ tag \in Blocks(arena) \cup {NULL}
    /\ pc \in {"melt_left", "melt_right"} => tag # NULL
    /\ req \in [size : Nat, clear : BOOLEAN, old : Nat]

(* What the call in progress relies on.                                    *)
Calls ==
    /\ l_initialized = 0 => Blocks(arena) = {} /\ pc = "idle"
    /\ pc \in {"search", "copy", "clear"} =>
          /\ Modest(req.size)
          /\ req.old # NULL => req.old \in DOMAIN live
          /\ req.clear => req.old = NULL
    /\ pc = "copy" => req.old # NULL
    /\ pc = "search" /\ tag # NULL => arena.tags[tag].index = class(req.size)
    /\ Worker # NULL => tag \in Held(arena) /\ tag + TAG \notin DOMAIN live
    /\ pc \in {"copy", "clear"} /\ tag # NULL => tag + TAG + req.size <= Upto(arena, tag)
    /\ pc = "melt_right" /\ arena.tags[tag].split_left # NULL =>
          arena.tags[tag].split_left \in Held(arena)

IndInv ==
    /\ Types
    /\ Pooled(pool)
    /\ Good(arena, pool.next)
    /\ Counted
    /\ Owned(live, arena, Worker)
    /\ Calls
-----------------------------------------------------------------------------
(* The pool is below 4 GiB.                                                *)
LEMMA PoolFacts ==
    ASSUME NEW g, Pooled(g)
    PROVE  g.next \in Nat /\ g.next <= pool_end /\ g.next < UINT_MOD
  <1>1. g.next \in Nat
    BY DEF Pooled
  <1>2. g.next <= pool_end
    BY PoolBounds DEF Pooled, unset_pool
  <1> QED BY <1>1, <1>2, PoolBounds, LowPool

(* What a good arena is, for use by name.                                  *)
LEMMA GoodFields ==
    ASSUME NEW m, NEW hi \in Nat, Good(m, hi)
    PROVE  /\ Arena(m) /\ Links(m) /\ Ranked(m) /\ Tiles(m, hi) /\ IsFiniteSet(Blocks(m))
           /\ NULL \notin Blocks(m) /\ Held(m) \subseteq Blocks(m) /\ Blocks(m) \subseteq Nat
           /\ \A i \in Classes : i # -1 /\ IsFiniteSet(Wholes(m, i))
  <1>1. Arena(m) /\ Links(m) /\ Ranked(m) /\ Tiles(m, hi) /\ IsFiniteSet(Blocks(m))
    BY DEF Good, Sound
  <1>2. NULL \notin Blocks(m) /\ Held(m) \subseteq Blocks(m) /\ Blocks(m) \subseteq Nat
    BY <1>1 DEF Held, Arena
  <1>3. ASSUME NEW i \in Classes PROVE i # -1 /\ IsFiniteSet(Wholes(m, i))
    <2>1. Wholes(m, i) \subseteq Blocks(m)
      BY DEF Wholes
    <2> QED BY <1>1, <2>1, FS_Subset, ClassAssumption DEF Classes
  <1> QED BY <1>1, <1>2, <1>3

(* Pointers keep their blocks while the call in progress goes on from its  *)
(* block w to v.                                                           *)
LEMMA OwnedArena ==
    ASSUME NEW L, DOMAIN L \subseteq Nat, NEW m, NEW w, Owned(L, m, w), w + TAG \notin DOMAIN L,
           NEW n, NEW v, Held(n) \ {v} = Held(m) \ {w}, 
           \A u \in Held(m) \ {w} : n.tags[u].real_size = m.tags[u].real_size
    PROVE  Owned(L, n, v)
  <1>1. ASSUME NEW p \in DOMAIN L
        PROVE  p - TAG \in Held(n) /\ p + L[p] <= Upto(n, p - TAG)
    <2>1. p - TAG \in Held(m) /\ p + L[p] <= Upto(m, p - TAG)
      BY DEF Owned
    <2>2. (p - TAG) + TAG = p
      BY DEF TAG
    <2>3. p - TAG # w
      BY <2>2
    <2> QED BY <2>1, <2>3 DEF Upto
  <1>2. ASSUME NEW t \in Held(n) PROVE t + TAG \in DOMAIN L \/ t = v
    BY DEF Owned
  <1> QED BY <1>1, <1>2 DEF Owned

(* The block that the call in progress has goes to a caller.               *)
LEMMA OwnedGive ==
    ASSUME NEW L, DOMAIN L \subseteq Nat, NEW m, NEW w \in Int, Owned(L, m, w), w \in Held(m),
           NEW s, w + TAG + s <= Upto(m, w), w + TAG \notin DOMAIN L,
           NEW v
    PROVE  Owned(With(L, w + TAG, s), m, v)
  <1> DEFINE K == With(L, w + TAG, s)
  <1>1. DOMAIN K = DOMAIN L \cup {w + TAG} /\ K[w + TAG] = s
        /\ \A p \in DOMAIN L : K[p] = L[p]
    BY DEF With
  <1> HIDE DEF K
  <1>2. (w + TAG) - TAG = w
    BY DEF TAG
  <1>3. \A p \in DOMAIN K : p - TAG \in Held(m) /\ p + K[p] <= Upto(m, p - TAG)
    BY <1>1, <1>2 DEF Owned
  <1>4. \A t \in Held(m) : t + TAG \in DOMAIN K \/ t = v
    BY <1>1 DEF Owned
  <1> QED BY <1>3, <1>4 DEF Owned, K

(* A caller gives its pointer back, and the call gets the block.           *)
LEMMA OwnedTake ==
    ASSUME NEW L, DOMAIN L \subseteq Nat, NEW m, Owned(L, m, NULL), Held(m) \subseteq Nat \ {NULL},
           NEW p \in DOMAIN L
    PROVE  /\ Owned(Without(L, p), m, p - TAG)
           /\ p - TAG \in Held(m) /\ (p - TAG) + TAG \notin DOMAIN Without(L, p)
  <1> DEFINE K == Without(L, p)
  <1>1. DOMAIN K = DOMAIN L \ {p} /\ \A q \in DOMAIN K : K[q] = L[q]
    BY DEF Without, Restrict
  <1> HIDE DEF K
  <1>2. \A q \in DOMAIN K : q - TAG \in Held(m) /\ q + K[q] <= Upto(m, q - TAG)
    BY <1>1 DEF Owned
  <1>3. ASSUME NEW t \in Held(m) PROVE t + TAG \in DOMAIN K \/ t = p - TAG
    <2>1. t \in Nat /\ t # NULL /\ t + TAG \in DOMAIN L
      BY DEF Owned
    <2>2. t + TAG = p => t = p - TAG
      BY <2>1 DEF TAG
    <2> QED BY <1>1, <2>1, <2>2
  <1>4. p - TAG \in Held(m) /\ (p - TAG) + TAG = p
    BY DEF Owned, TAG
  <1> QED BY <1>1, <1>2, <1>3, <1>4 DEF Owned, K
-----------------------------------------------------------------------------
(* Before the first call there is no block, list or pointer.               *)
LEMMA InitInd == Init => IndInv
  <1> SUFFICES ASSUME Init PROVE IndInv
    OBVIOUS
  <1> USE DEF Init
  <1>1. /\ Blocks(arena) = {} /\ arena.tags = [a \in {} |-> NULL]
        /\ arena.l_freePages = NoBlocks
        /\ arena = [tags |-> arena.tags, l_freePages |-> arena.l_freePages]
    BY DEF Blocks
  <1>2. Types
    BY <1>1, ClassAssumption DEF Types, NoChunks, NoRequest, Request, NULL
  <1>3. Pooled(pool)
    BY DEF Pooled, unset_pool
  <1>4. Arena(arena)
    <2>1. arena.tags \in [Blocks(arena) -> Tag]
      BY <1>1
    <2>2. arena.l_freePages \in [Classes -> Blocks(arena) \cup {NULL}]
      BY <1>1 DEF NoBlocks
    <2> QED BY <1>1, <2>1, <2>2 DEF Arena
  <1>5. Links(arena)
    BY <1>1 DEF Links, NoBlocks
  <1>6. Ranked(arena)
    <2>1. Ranks(arena, [a \in {} |-> 0])
      BY <1>1 DEF Ranks
    <2> QED BY <2>1 DEF Ranked
  <1>7. Tiles(arena, pool.next)
    BY <1>1 DEF Tiles
  <1>8. Good(arena, pool.next)
    BY <1>1, <1>4, <1>5, <1>6, <1>7, FS_EmptySet DEF Good, Sound, Classed, Apart
  <1>9. Counted
    <2>1. \A i \in Classes : Wholes(arena, i) = {}
      BY <1>1 DEF Wholes
    <2> QED BY <2>1, FS_EmptySet DEF Counted, NoChunks
  <1>10. Owned(live, arena, Worker)
    <2>1. Held(arena) = {}
      BY <1>1 DEF Held
    <2> QED BY <2>1 DEF Owned
  <1>11. Calls
    BY <1>1 DEF Calls, Worker
  <1> QED BY <1>2, <1>3, <1>8, <1>9, <1>10, <1>11 DEF IndInv

(* The invariant has the types.                                            *)
LEMMA IndTypes == IndInv => TypeOK
  <1> SUFFICES ASSUME IndInv PROVE TypeOK
    OBVIOUS
  <1>1. pool.next \in Nat
    BY PoolFacts DEF IndInv
  <1>2. Arena(arena)
    BY <1>1, GoodFields DEF IndInv
  <1>3. DOMAIN tags \subseteq Nat /\ \A t \in DOMAIN tags : tags[t] \in Tag
    BY <1>2 DEF Arena, Blocks, tags
  <1>4. l_freePages \in [Classes -> DOMAIN tags \cup {NULL}]
    BY <1>2 DEF Arena, Blocks, tags, l_freePages
  <1>5. tag \in DOMAIN tags \cup (IF pc \in {"melt_left", "melt_right"} THEN {} ELSE {NULL})
    BY DEF IndInv, Types, Blocks, tags
  <1> QED BY <1>3, <1>4, <1>5 DEF IndInv, Types, Pooled, TypeOK
-----------------------------------------------------------------------------
(* malloc's first part: setting up the lists changes nothing in a heap     *)
(* without blocks, and the search starts at the list of the class.         *)
LEMMA BeginInd ==
    ASSUME IndInv, Idle, NEW r \in [size : Nat, clear : BOOLEAN, old : Nat],
           Modest(r.size), r.old # NULL => r.old \in DOMAIN live, r.clear => r.old = NULL,
           BeginMalloc(r)
    PROVE  IndInv'
  <1> USE DEF IndInv
  <1>1. pool.next \in Nat
    BY PoolFacts
  <1>2. /\ Arena(arena) /\ Links(arena) /\ NULL \notin Blocks(arena)
        /\ Held(arena) \subseteq Blocks(arena)
    BY <1>1, GoodFields
  <1>3. l_initialized = 0 => arena.l_freePages = NoBlocks /\ l_completePages = NoChunks
    <2> SUFFICES ASSUME l_initialized = 0
                 PROVE  arena.l_freePages = NoBlocks /\ l_completePages = NoChunks
      OBVIOUS
    <2>1. Blocks(arena) = {}
      BY DEF Calls
    <2>2. \A i \in Classes : Wholes(arena, i) = {}
      BY <2>1 DEF Wholes
    <2>3. \A i \in Classes : l_completePages[i] = 0
      BY <2>2, FS_EmptySet DEF Counted
    <2>4. l_completePages = NoChunks
      BY <2>3 DEF Types, NoChunks
    <2>5. arena.l_freePages \in [Classes -> {NULL}]
      BY <1>2, <2>1 DEF Arena
    <2> QED BY <2>4, <2>5 DEF NoBlocks
  <1>4. arena' = arena /\ l_completePages' = l_completePages
    BY <1>2, <1>3 DEF BeginMalloc, Arena
  <1>5. /\ l_initialized' = 1 /\ pc' = "search" /\ req' = r /\ pool' = pool /\ live' = live
        /\ tag' = arena.l_freePages[class(r.size)]
    BY <1>4, ModestFits DEF BeginMalloc
  <1>6. class(r.size) \in Classes
    <2>1. r.size \in Int
      OBVIOUS
    <2> QED BY <2>1, ClassRange, ClassAssumption DEF Classes
  <1>7. /\ tag' \in Blocks(arena) \cup {NULL}
        /\ tag' # NULL => arena.tags[tag'].index = class(r.size)
    BY <1>2, <1>5, <1>6 DEF Arena, Links
  <1>8. Worker = NULL /\ Worker' = NULL
    BY <1>5 DEF Worker, Idle
  <1>9. Types'
    BY <1>4, <1>5, <1>7 DEF Types
  <1>10. Calls'
    BY <1>4, <1>5, <1>7, <1>8 DEF Calls
  <1>11. Good(arena, pool.next)' /\ Pooled(pool)' /\ Counted' /\ Owned(live, arena, Worker)'
    BY <1>4, <1>5, <1>8 DEF Counted
  <1> QED BY <1>9, <1>10, <1>11

(* What malloc and calloc are asked for is modest.                         *)
LEMMA RequestModest ==
    ASSUME NEW n \in Sizes, NEW c \in Counts \cup {1}
    PROVE  c * n \in Nat /\ n \in Nat /\ c \in Nat /\ Modest(c * n)
  <1>1. n \in Nat /\ c \in Nat
    BY SizeAssumption
  <1>2. c * n \in Nat
    BY <1>1, ProductNat
  <1>3. c * n + 2 * TAG + PAGE_SIZE + pool_end < UINT_MOD \div 2
    BY SizeAssumption
  <1> HIDE DEF TAG
  <1> QED BY <1>1, <1>2, <1>3 DEF Modest

(* malloc starts.                                                          *)
LEMMA MallocInd ==
    ASSUME IndInv, NEW n \in Sizes, Malloc(n)
    PROVE  IndInv'
  <1>1. 1 * n = n /\ Modest(1 * n) /\ n \in Nat
    BY RequestModest, SizeAssumption
  <1> QED BY <1>1, BeginInd DEF Malloc, MayAsk, Request, NULL

(* calloc starts: its product does not wrap around.                        *)
LEMMA CallocInd ==
    ASSUME IndInv, NEW c \in Counts, NEW n \in Sizes, Calloc(c, n)
    PROVE  IndInv'
  <1> DEFINE s == c * n
  <1>1. s \in Nat /\ Modest(s)
    BY RequestModest
  <1> HIDE DEF s
  <1>2. s % UINT_MOD = s /\ s < UINT_MOD \div 2
    <2>1. s < UINT_MOD \div 2
      BY <1>1, ModestFits, PoolBounds, PageAssumption, LowPool DEF TAG
    <2> QED BY <1>1, <2>1, ModestFits
  <1>3. MayAsk /\ BeginMalloc(Request(s, TRUE, NULL))
    BY <1>2 DEF Calloc, s
  <1> QED BY <1>1, <1>3, BeginInd DEF MayAsk, Request, NULL

(* free's first part.                                                      *)
LEMMA FreeInd ==
    ASSUME IndInv, NEW p \in DOMAIN live, Free(p)
    PROVE  IndInv'
  <1> USE DEF IndInv
  <1>1. pool.next \in Nat
    BY PoolFacts
  <1>2. NULL \notin Blocks(arena) /\ Held(arena) \subseteq Blocks(arena)
        /\ Blocks(arena) \subseteq Nat
    BY <1>1, GoodFields
  <1>3. /\ Idle /\ live' = Without(live, p) /\ pc' = "melt_left" /\ tag' = p - TAG
        /\ req' = NoRequest
        /\ UNCHANGED <<pool, l_initialized, l_completePages, arena>>
    BY DEF Free, BeginFree
  <1>4. Worker = NULL /\ Worker' = tag'
    BY <1>3 DEF Worker, Idle
  <1>5. DOMAIN live \subseteq Nat /\ Held(arena) \subseteq Nat \ {NULL}
    BY <1>2 DEF Types
  <1>6. /\ Owned(live', arena, tag')
        /\ tag' \in Held(arena) /\ tag' + TAG \notin DOMAIN live'
    BY <1>3, <1>4, <1>5, OwnedTake
  <1>7. DOMAIN live' \subseteq Nat /\ live' \in [DOMAIN live' -> Nat]
    BY <1>3 DEF Types, Without, Restrict
  <1>8. Types'
    BY <1>2, <1>3, <1>5, <1>6, <1>7 DEF Types, NoRequest, Request, NULL
  <1>9. Calls'
    BY <1>2, <1>3, <1>4, <1>6 DEF Calls
  <1>10. Good(arena, pool.next)' /\ Pooled(pool)' /\ Counted' /\ Owned(live, arena, Worker)'
    BY <1>3, <1>4, <1>6 DEF Counted
  <1> QED BY <1>8, <1>9, <1>10

(* realloc starts: it frees, allocates, or allocates to copy.              *)
LEMMA ReallocInd ==
    ASSUME IndInv, NEW p \in DOMAIN live \cup {NULL}, NEW n \in Sizes, Realloc(p, n)
    PROVE  IndInv'
  <1>1. Modest(n) /\ n \in Nat
    <2>1. 1 * n = n /\ Modest(1 * n) /\ n \in Nat
      BY RequestModest, SizeAssumption
    <2> QED BY <2>1
  <1>2. CASE p # NULL /\ Free(p)
    BY <1>2, FreeInd
  <1>3. CASE Malloc(n)
    BY <1>3, MallocInd
  <1>4. CASE Idle /\ p # NULL /\ BeginMalloc(Request(n, FALSE, p))
    <2>1. p \in DOMAIN live /\ p \in Nat
      BY <1>4 DEF IndInv, Types
    <2> QED BY <1>1, <1>4, <2>1, BeginInd DEF Request
  <1> QED BY <1>2, <1>3, <1>4 DEF Realloc

(* memory_alloc_pages only ever raises g_next_page.                        *)
LEMMA PoolTakes ==
    ASSUME NEW g, Pooled(g), NEW n \in Nat, pool_end + n * PAGE_SIZE < UINTPTR_MOD,
           NEW r, r = memory_alloc_pages(g, n)
    PROVE  Pooled(r.pool) /\ g.next <= r.pool.next
  <1>1. PICK k \in Nat : \/ g = unset_pool /\ k = 0
                         \/ /\ g.next = kernel_end + k * PAGE_SIZE
                            /\ g.limit = pool_end
                            /\ g.next <= pool_end
    BY DEF Pooled
  <1>2. g \in [next : Nat, limit : Nat]
    BY DEF Pooled
  <1>3. /\ r.pool \in [next : Nat, limit : Nat]
        /\ r.pool.limit = pool_end
        /\ r.pool.next <= pool_end
        /\ \/ /\ r.ptr = NULL
              /\ r.pool.next = kernel_end + k * PAGE_SIZE
           \/ /\ r.ptr \in Nat \ {0}
              /\ r.ptr = kernel_end + k * PAGE_SIZE
              /\ r.pool.next = r.ptr + n * PAGE_SIZE
              /\ r.pool.next = kernel_end + (k + n) * PAGE_SIZE
    BY <1>1, <1>2, AllocResult
  <1>4. k * PAGE_SIZE \in Nat /\ n * PAGE_SIZE \in Nat /\ k + n \in Nat /\ g.next \in Nat
    BY <1>2, PageAssumption, ProductNat
  <1>5. g.next <= kernel_end + k * PAGE_SIZE
    BY <1>1, <1>4, PoolBounds DEF unset_pool
  <1>6. Pooled(r.pool)
    BY <1>3, <1>4 DEF Pooled
  <1>7. g.next <= r.pool.next
    BY <1>3, <1>4, <1>5, PoolBounds
  <1> QED BY <1>6, <1>7

(* Other users of the pool take pages that no chunk has.                   *)
LEMMA OtherInd ==
    ASSUME IndInv, NEW n \in PoolRequests, OtherAlloc(n)
    PROVE  IndInv'
  <1> USE DEF IndInv
  <1>1. /\ pool' = memory_alloc_pages(pool, n).pool
        /\ UNCHANGED <<l_initialized, l_completePages, arena, live, pc, tag, req>>
    BY DEF OtherAlloc
  <1>2. pool.next \in Nat
    BY PoolFacts
  <1>3. Pooled(pool') /\ pool.next <= pool'.next
    BY <1>1, PoolTakes, PoolRequestAssumption
  <1>4. pool'.next \in Nat
    BY <1>3, PoolFacts
  <1>5. Good(arena, pool'.next)
    BY <1>2, <1>3, <1>4, HigherTiles DEF Good, Sound
  <1>6. Worker' = Worker
    BY <1>1 DEF Worker
  <1>7. Types' /\ Calls' /\ Counted'
    BY <1>1, <1>6 DEF Types, Calls, Counted
  <1> QED BY <1>1, <1>3, <1>5, <1>6, <1>7
-----------------------------------------------------------------------------
(* A block that is held is no pointer's unless the pointer is live.        *)
LEMMA Unowned ==
    ASSUME IndInv, NEW t \in Int, t \notin Held(arena)
    PROVE  t + TAG \notin DOMAIN live
  <1>1. SUFFICES ASSUME t + TAG \in DOMAIN live PROVE FALSE
    OBVIOUS
  <1>2. (t + TAG) - TAG \in Held(arena)
    BY <1>1 DEF IndInv, Owned
  <1>3. (t + TAG) - TAG = t
    BY DEF TAG
  <1> QED BY <1>2, <1>3

(* malloc hands the block t that it found or made on to its caller, or to  *)
(* the rest of calloc or realloc.                                          *)
LEMMA DeliverInd ==
    ASSUME IndInv, pc = "search",
           NEW t \in Held(arena'), t \notin Held(arena), t \in Nat \ {NULL},
           Held(arena') = Held(arena) \cup {t},
           \A u \in Held(arena) : arena'.tags[u].real_size = arena.tags[u].real_size,
           t + TAG + req.size <= Upto(arena', t),
           Pooled(pool'), Good(arena', pool'.next), Counted',
           l_completePages' \in [Classes -> 0..MAXCOMPLETE],
           l_initialized' = l_initialized, Deliver(t)
    PROVE  IndInv'
  <1>1. /\ pool.next \in Nat /\ pool'.next \in Nat
        /\ NULL \notin Held(arena) /\ Held(arena') \subseteq Blocks(arena')
    <2>1. pool.next \in Nat /\ pool'.next \in Nat
      BY PoolFacts DEF IndInv
    <2> QED BY <2>1, GoodFields DEF IndInv
  <1>2. Types /\ Owned(live, arena, NULL) /\ Calls /\ l_initialized = 1
    BY DEF IndInv, Types, Calls, Worker
  <1>3. t + TAG \notin DOMAIN live /\ NULL + TAG \notin DOMAIN live
    BY <1>1, Unowned DEF NULL
  <1>4. Owned(live, arena', t)
    <2>1. Held(arena') \ {t} = Held(arena) \ {NULL}
      BY <1>1
    <2>2. DOMAIN live \subseteq Nat
      BY <1>2 DEF Types
    <2> QED BY <1>2, <1>3, <2>1, <2>2, OwnedArena
  <1>5. CASE req.clear \/ req.old # NULL
    <2>1. /\ pc' = (IF req.clear THEN "clear" ELSE "copy") /\ tag' = t
          /\ live' = live /\ req' = req
      BY <1>5 DEF Deliver
    <2>2. Worker' = t
      BY <2>1 DEF Worker
    <2>3. Types'
      BY <1>1, <1>2, <2>1 DEF Types
    <2>4. Calls'
      BY <1>2, <1>3, <1>5, <2>1, <2>2 DEF Calls
    <2> QED BY <1>4, <2>1, <2>2, <2>3, <2>4 DEF IndInv
  <1>6. CASE ~(req.clear \/ req.old # NULL)
    <2>1. /\ live' = With(live, t + TAG, req.size)
          /\ pc' = "idle" /\ tag' = NULL /\ req' = NoRequest
      BY <1>6 DEF Deliver, Return
    <2>2. Worker' = NULL
      BY <2>1 DEF Worker
    <2>3. Owned(live', arena', NULL)
      <3>1. DOMAIN live \subseteq Nat
        BY <1>2 DEF Types
      <3> QED BY <1>3, <1>4, <2>1, <3>1, OwnedGive
    <2>4. Types'
      <3>1. t + TAG \in Nat /\ req.size \in Nat
        BY <1>2 DEF Types, TAG
      <3>2. DOMAIN live' \subseteq Nat /\ live' \in [DOMAIN live' -> Nat]
        BY <1>2, <2>1, <3>1 DEF Types, With
      <3> QED BY <1>2, <2>1, <3>2 DEF Types, NoRequest, Request, NULL
    <2>5. Calls'
      BY <1>2, <2>1, <2>2 DEF Calls
    <2> QED BY <2>2, <2>3, <2>4, <2>5 DEF IndInv
  <1> QED BY <1>5, <1>6
-----------------------------------------------------------------------------
(* The search goes on to the next block of the list.                       *)
LEMMA SearchSkipInd ==
    ASSUME IndInv, SearchSkip
    PROVE  IndInv'
  <1>1. /\ pc = "search" /\ tag # NULL /\ tag' = arena.tags[tag].next
        /\ UNCHANGED <<pool, l_initialized, l_completePages, arena, live, pc, req>>
    BY DEF SearchSkip
  <1>2. pool.next \in Nat /\ Types /\ Calls
    BY PoolFacts DEF IndInv
  <1>3. tag \in Blocks(arena) /\ Links(arena)
    BY <1>1, <1>2, GoodFields DEF IndInv, Types
  <1>4. tag' # NULL => tag' \in Blocks(arena) /\ arena.tags[tag'].index = arena.tags[tag].index
    BY <1>1, <1>3 DEF Links
  <1>5. Worker = NULL /\ Worker' = NULL
    BY <1>1 DEF Worker
  <1>6. Types'
    BY <1>1, <1>2, <1>4 DEF Types
  <1>7. Calls'
    BY <1>1, <1>2, <1>4, <1>5 DEF Calls
  <1> QED BY <1>1, <1>5, <1>6, <1>7 DEF IndInv, Counted

(* The count of whole chunks is that of the list when a block leaves it.   *)
LEMMA CountLess ==
    ASSUME NEW S, IsFiniteSet(S), NEW t, NEW c, c = Cardinality(S)
    PROVE  Cardinality(S \ {t}) = IF t \in S THEN c - 1 ELSE c
  <1>1. CASE t \in S
    BY <1>1, FS_RemoveElement
  <1>2. CASE t \notin S
    <2>1. S \ {t} = S
      BY <1>2
    <2> QED BY <1>2, <2>1
  <1> QED BY <1>1, <1>2

(* The search takes a block: it leaves its list, and its count, and what is *)
(* not needed of it is split off.                                          *)
LEMMA SearchTakeInd ==
    ASSUME IndInv, SearchTake
    PROVE  IndInv'
  <1> DEFINE o == remove_tag(arena, tag)
             i == class(req.size)
  <1>1. /\ pc = "search" /\ tag # NULL /\ Enough(tag) /\ Deliver(tag)
        /\ arena' = trim(o, tag) /\ pool' = pool /\ l_initialized' = l_initialized
    BY DEF SearchTake
  <1>2. pool.next \in Nat /\ pool.next < UINT_MOD /\ Types /\ Calls /\ Counted
        /\ Pooled(pool) /\ Good(arena, pool.next)
    BY PoolFacts DEF IndInv
  <1>3. /\ Modest(req.size) /\ req.size \in Nat
        /\ tag \in Blocks(arena) /\ arena.tags[tag].index = i
    BY <1>1, <1>2 DEF Types, Calls
  <1>4. i \in Classes /\ i # -1
    BY <1>3, ClassRange, ClassAssumption DEF Classes
  <1>5. /\ Held(arena) \subseteq Blocks(arena) /\ NULL \notin Blocks(arena)
        /\ Blocks(arena) \subseteq Nat /\ Arena(arena)
        /\ \A j \in Classes : IsFiniteSet(Wholes(arena, j))
    BY <1>2, GoodFields
  <1>6. tag \in Nat \ {NULL} /\ tag \notin Held(arena) /\ arena.tags[tag].index # -1
    BY <1>3, <1>4, <1>5 DEF Held
  <1>7. /\ Good(o, pool.next) /\ Blocks(o) = Blocks(arena)
        /\ Held(o) = Held(arena) \cup {tag}
        /\ \A u \in Blocks(arena) : SameSplit(arena.tags[u], o.tags[u])
        /\ \A j \in Classes : Wholes(o, j) = Wholes(arena, j) \ {tag}
        /\ arena.tags[tag].split_right # NULL => arena.tags[tag].split_right \in Held(o)
    BY <1>2, <1>3, <1>6, TakeGood
  <1> HIDE DEF o
  <1>8. /\ tag \in Held(o)
        /\ o.tags[tag].real_size = arena.tags[tag].real_size
        /\ o.tags[tag].split_right # NULL => o.tags[tag].split_right \in Held(o)
    BY <1>3, <1>7 DEF SameSplit
  <1>9. req.size + TAG <= o.tags[tag].real_size /\ 2 * TAG < UINT_MOD \div 2
    <2>1. (req.size + TAG) % UINTPTR_MOD = req.size + TAG /\ 2 * TAG < UINT_MOD \div 2
      BY <1>3, ModestFits
    <2>2. arena.tags[tag].real_size \in Nat
      BY <1>3, <1>5, ArenaFields
    <2>3. arena.tags[tag].real_size - TAG >= req.size + TAG
      BY <1>1, <2>1 DEF Enough, room
    <2> QED BY <1>3, <1>8, <2>1, <2>2, <2>3 DEF TAG
  <1>10. /\ Good(arena', pool.next) /\ Held(arena') = Held(o)
         /\ \A u \in Held(o) \ {tag} : arena'.tags[u].real_size = o.tags[u].real_size
         /\ tag + TAG + req.size <= Upto(arena', tag)
         /\ \A j \in Classes : Wholes(arena', j) = Wholes(o, j)
    BY <1>1, <1>2, <1>3, <1>7, <1>8, <1>9, TrimGood
  <1>11. \A u \in Held(arena) : arena'.tags[u].real_size = arena.tags[u].real_size
    BY <1>5, <1>6, <1>7, <1>10 DEF SameSplit
  <1>12. /\ l_completePages' \in [Classes -> 0..MAXCOMPLETE]
         /\ \A j \in Classes : l_completePages'[j] = Cardinality(Wholes(arena, j) \ {tag})
    <2>1. l_completePages' = IF Whole(arena.tags[tag])
                             THEN [l_completePages EXCEPT ![i] = @ - 1]
                             ELSE l_completePages
      BY <1>3, ModestFits DEF SearchTake
    <2>2. \A j \in Classes : tag \in Wholes(arena, j) <=> j = i /\ Whole(arena.tags[tag])
      BY <1>3 DEF Wholes
    <2>3. \A j \in Classes : Cardinality(Wholes(arena, j) \ {tag}) =
             IF tag \in Wholes(arena, j) THEN l_completePages[j] - 1 ELSE l_completePages[j]
      BY <1>2, <1>5, CountLess DEF Counted
    <2>4. l_completePages \in [Classes -> 0..MAXCOMPLETE]
      BY <1>2 DEF Types
    <2>5. CASE Whole(arena.tags[tag])
      <3>1. tag \in Wholes(arena, i) /\ IsFiniteSet(Wholes(arena, i) \ {tag})
        BY <1>4, <1>5, <2>2, <2>5, FS_RemoveElement
      <3>2. Cardinality(Wholes(arena, i) \ {tag}) \in Nat
        BY <3>1, FS_CardinalityType
      <3>3. l_completePages[i] - 1 \in 0..MAXCOMPLETE
        BY <1>4, <2>3, <2>4, <3>1, <3>2, ClassAssumption
      <3>4. l_completePages' = [l_completePages EXCEPT ![i] = @ - 1]
        BY <2>1, <2>5
      <3> QED BY <1>4, <2>2, <2>3, <2>4, <2>5, <3>3, <3>4
    <2>6. CASE ~Whole(arena.tags[tag])
      BY <2>1, <2>2, <2>3, <2>4, <2>6
    <2> QED BY <2>5, <2>6
  <1>13. Counted'
    BY <1>7, <1>10, <1>12 DEF Counted
  <1> QED BY <1>1, <1>2, <1>6, <1>7, <1>8, <1>10, <1>11, <1>12, <1>13, DeliverInd

(* malloc makes a chunk, or has none and gives NULL to whoever called it.  *)
LEMMA SearchEndInd ==
    ASSUME IndInv, SearchEnd
    PROVE  IndInv'
  <1> DEFINE c == allocate_new_tag(req.size)
             fresh == [size |-> req.size, real_size |-> c.real_size,
                       index |-> -1, split_left |-> NULL, split_right |-> NULL,
                       next |-> NULL, prev |-> NULL]
             o == Added(arena, c.tag, fresh)
  <1>1. pool.next \in Nat /\ pool.next < UINT_MOD /\ Types /\ Calls /\ Counted
        /\ Pooled(pool) /\ Good(arena, pool.next) /\ pc = "search" /\ tag = NULL
    BY PoolFacts DEF IndInv, SearchEnd
  <1>2. Modest(req.size) /\ req.size \in Nat /\ req.size % UINT_MOD = req.size
        /\ 2 * TAG < UINT_MOD \div 2
    BY <1>1, ModestFits DEF Calls
  <1>3. /\ pool' = c.pool /\ Deliver(c.tag)
        /\ arena' = IF c.tag = NULL THEN arena ELSE trim(o, c.tag)
        /\ l_initialized' = l_initialized /\ l_completePages' = l_completePages
    BY <1>2 DEF SearchEnd, Added
  <1>4. /\ Pooled(c.pool) /\ pool.next <= c.pool.next /\ c.pool.next <= pool_end
        /\ c.tag # NULL =>
              /\ c.tag \in Nat /\ kernel_end <= c.tag /\ pool.next <= c.tag
              /\ c.real_size \in Nat /\ req.size + TAG <= c.real_size
              /\ OnPage(c.tag) /\ OnPage(c.tag + c.real_size)
              /\ c.tag + c.real_size <= c.pool.next
    BY <1>1, <1>2, NewChunk
  <1> HIDE DEF c
  <1>5. pool'.next \in Nat /\ pool'.next < UINT_MOD /\ Pooled(pool') /\ pool.next <= pool'.next
    BY <1>3, <1>4, PoolFacts
  <1>6. /\ Held(arena) \subseteq Blocks(arena) /\ NULL \notin Blocks(arena)
        /\ Arena(arena)
    BY <1>1, GoodFields
  <1>7. CASE c.tag # NULL
    <2>1. /\ fresh \in Tag /\ fresh.index = -1 /\ fresh.next = NULL /\ fresh.prev = NULL
          /\ Whole(fresh) /\ fresh.real_size = c.real_size /\ fresh.split_right = NULL
      BY <1>2, <1>4, <1>7 DEF Tag, NULL, Whole
    <2> HIDE DEF fresh
    <2>2. c.tag \in Nat \ {NULL} /\ fresh.real_size >= TAG
          /\ OnPage(c.tag + fresh.real_size) /\ c.tag + fresh.real_size <= pool'.next
      BY <1>2, <1>3, <1>4, <1>7, <2>1 DEF TAG
    <2>3. /\ Good(o, pool'.next) /\ c.tag \notin Blocks(arena)
          /\ Held(o) = Held(arena) \cup {c.tag}
          /\ o.tags[c.tag] = fresh
          /\ \A u \in Blocks(arena) : o.tags[u] = arena.tags[u]
          /\ \A i \in Classes : Wholes(o, i) = Wholes(arena, i)
      BY <1>1, <1>4, <1>5, <1>7, <2>1, <2>2, ChunkGood
    <2> HIDE DEF o
    <2>4. /\ c.tag \in Held(o) /\ o.tags[c.tag].split_right = NULL
          /\ req.size + TAG <= o.tags[c.tag].real_size
      BY <1>4, <1>7, <2>1, <2>3
    <2>5. arena' = trim(o, c.tag)
      BY <1>3, <1>7
    <2>6. /\ Good(arena', pool'.next) /\ Held(arena') = Held(o)
          /\ \A u \in Held(o) \ {c.tag} : arena'.tags[u].real_size = o.tags[u].real_size
          /\ c.tag + TAG + req.size <= Upto(arena', c.tag)
          /\ \A i \in Classes : Wholes(arena', i) = Wholes(o, i)
      BY <1>2, <1>5, <2>3, <2>4, <2>5, TrimGood
    <2>7. \A u \in Held(arena) : arena'.tags[u].real_size = arena.tags[u].real_size
      BY <1>6, <2>3, <2>6
    <2>8. Counted' /\ l_completePages' \in [Classes -> 0..MAXCOMPLETE]
      BY <1>1, <1>3, <2>3, <2>6 DEF Counted, Types
    <2>9. c.tag \notin Held(arena)
      BY <1>6, <2>3
    <2> QED BY <1>1, <1>3, <1>5, <2>2, <2>3, <2>4, <2>6, <2>7, <2>8, <2>9, DeliverInd
  <1>8. CASE c.tag = NULL
    <2>1. arena' = arena
      BY <1>3, <1>8
    <2>2. Good(arena', pool'.next)
      BY <1>1, <1>5, <1>6, <2>1, HigherTiles DEF Good, Sound
    <2>3. /\ live' = live
          /\ \/ pc' = (IF req.clear THEN "clear" ELSE "copy") /\ tag' = NULL /\ req' = req
                /\ (req.clear \/ req.old # NULL)
             \/ pc' = "idle" /\ tag' = NULL /\ req' = NoRequest
      BY <1>3, <1>8 DEF Deliver, Return
    <2>4. Worker = NULL /\ Worker' = NULL
      BY <1>1, <2>3 DEF Worker
    <2>5. Types'
      <3>1. pc' \in {"clear", "copy", "idle"} /\ tag' = NULL
        BY <2>3
      <3>2. NoRequest \in [size : Nat, clear : BOOLEAN, old : Nat]
        BY DEF NoRequest, Request, NULL
      <3>3. req' \in [size : Nat, clear : BOOLEAN, old : Nat]
        BY <1>1, <2>3, <3>2 DEF Types
      <3> QED BY <1>1, <1>3, <2>1, <2>3, <3>1, <3>3 DEF Types
    <2>6. Calls'
      BY <1>1, <1>3, <2>1, <2>3, <2>4 DEF Calls
    <2>7. Counted' /\ Owned(live', arena', Worker')
      BY <1>1, <1>3, <2>1, <2>3, <2>4 DEF Counted, IndInv
    <2> QED BY <1>5, <2>2, <2>5, <2>6, <2>7 DEF IndInv
  <1> QED BY <1>7, <1>8

(* realloc and calloc give their caller the block that malloc gave them.   *)
LEMMA GiveWorker ==
    ASSUME IndInv, pc \in {"copy", "clear"}, NEW L,
           L = IF tag = NULL THEN live ELSE With(live, tag + TAG, req.size)
    PROVE  /\ Owned(L, arena, NULL) /\ DOMAIN L \subseteq Nat /\ L \in [DOMAIN L -> Nat]
           /\ \A p \in DOMAIN live : p \in DOMAIN L
           /\ tag # NULL => tag + TAG \notin DOMAIN live
  <1>1. Types /\ Calls /\ Owned(live, arena, Worker) /\ Worker = tag
    BY DEF IndInv, Worker
  <1>2. CASE tag = NULL
    BY <1>1, <1>2 DEF Types
  <1>3. CASE tag # NULL
    <2>1. /\ tag \in Held(arena) /\ tag + TAG \notin DOMAIN live
          /\ tag + TAG + req.size <= Upto(arena, tag)
      BY <1>1, <1>3 DEF Calls
    <2>2. tag \in Nat /\ DOMAIN live \subseteq Nat /\ req.size \in Nat
          /\ live \in [DOMAIN live -> Nat]
      <3>1. pool.next \in Nat
        BY PoolFacts DEF IndInv
      <3>2. Blocks(arena) \subseteq Nat
        BY <3>1, GoodFields DEF IndInv
      <3> QED BY <1>1, <1>3, <3>2 DEF Types
    <2>3. Owned(L, arena, NULL)
      BY <1>1, <1>3, <2>1, <2>2, OwnedGive
    <2>4. tag + TAG \in Nat
      BY <2>2 DEF TAG
    <2>5. DOMAIN L \subseteq Nat /\ L \in [DOMAIN L -> Nat]
          /\ \A p \in DOMAIN live : p \in DOMAIN L
      BY <1>3, <2>2, <2>4 DEF With
    <2> QED BY <2>1, <2>3, <2>5
  <1> QED BY <1>2, <1>3

(* realloc: the new pointer in place of the old one, whose block is freed. *)
LEMMA ReallocCopyInd ==
    ASSUME IndInv, ReallocCopy
    PROVE  IndInv'
  <1> DEFINE L == IF tag = NULL THEN live ELSE With(live, tag + TAG, req.size)
  <1>1. /\ pc = "copy" /\ pc' = "melt_left" /\ tag' = req.old - TAG /\ req' = NoRequest
        /\ UNCHANGED <<pool, l_initialized, l_completePages, arena>>
    BY DEF ReallocCopy, BeginFree
  <1>2. Types /\ Calls /\ Good(arena, pool.next) /\ Pooled(pool) /\ Counted
        /\ pool.next \in Nat
    BY PoolFacts DEF IndInv
  <1>3. /\ Held(arena) \subseteq Nat \ {NULL} /\ Held(arena) \subseteq Blocks(arena)
        /\ Blocks(arena) \subseteq Nat
    BY <1>2, GoodFields
  <1>4. req.old \in DOMAIN live
    BY <1>1, <1>2 DEF Calls
  <1>5. /\ Owned(L, arena, NULL) /\ DOMAIN L \subseteq Nat /\ L \in [DOMAIN L -> Nat]
        /\ req.old \in DOMAIN L
        /\ tag # NULL => tag + TAG \notin DOMAIN live
    BY <1>1, <1>4, GiveWorker
  <1>6. live' = Without(L, req.old)
    <2>1. CASE tag = NULL
      BY <2>1 DEF ReallocCopy
    <2>2. CASE tag # NULL
      <3>1. tag + TAG # req.old
        BY <1>4, <1>5, <2>2
      <3>2. live' = With(Without(live, req.old), tag + TAG, req.size)
        BY <2>2 DEF ReallocCopy
      <3>3. L = With(live, tag + TAG, req.size)
        BY <2>2
      <3> QED BY <3>1, <3>2, <3>3 DEF With, Without, Restrict
    <2> QED BY <2>1, <2>2
  <1> HIDE DEF L
  <1>7. /\ Owned(live', arena, tag') /\ tag' \in Held(arena) /\ tag' + TAG \notin DOMAIN live'
    BY <1>1, <1>3, <1>5, <1>6, OwnedTake
  <1>8. DOMAIN live' \subseteq Nat /\ live' \in [DOMAIN live' -> Nat]
    BY <1>5, <1>6 DEF Without, Restrict
  <1>9. Worker' = tag'
    BY <1>1 DEF Worker
  <1>10. Types'
    BY <1>1, <1>2, <1>3, <1>7, <1>8 DEF Types, NoRequest, Request, NULL
  <1>11. l_initialized' # 0
    BY <1>1, <1>2 DEF Calls
  <1>12. Calls'
    BY <1>1, <1>3, <1>7, <1>9, <1>11 DEF Calls
  <1> QED BY <1>1, <1>2, <1>7, <1>9, <1>10, <1>12 DEF IndInv, Counted

(* calloc hands out what it cleared.                                       *)
LEMMA CallocClearInd ==
    ASSUME IndInv, CallocClear
    PROVE  IndInv'
  <1>1. /\ pc = "clear" /\ pc' = "idle" /\ tag' = NULL /\ req' = NoRequest
        /\ live' = IF tag = NULL THEN live ELSE With(live, tag + TAG, req.size)
        /\ UNCHANGED <<pool, l_initialized, l_completePages, arena>>
    BY DEF CallocClear, Return
  <1>2. Types /\ Calls
    BY DEF IndInv
  <1>3. Owned(live', arena, NULL) /\ DOMAIN live' \subseteq Nat
        /\ live' \in [DOMAIN live' -> Nat]
    BY <1>1, GiveWorker
  <1>4. Worker' = NULL
    BY <1>1 DEF Worker
  <1>5. Types'
    BY <1>1, <1>2, <1>3 DEF Types, NoRequest, Request, NULL
  <1>6. Calls'
    BY <1>1, <1>2, <1>4 DEF Calls
  <1> QED BY <1>1, <1>3, <1>4, <1>5, <1>6 DEF IndInv, Counted
-----------------------------------------------------------------------------
(* A neighbour that is not free is held.                                   *)
LEMMA NotFree ==
    ASSUME Arena(arena), NEW l, l # NULL => l \in Blocks(arena), ~IsFree(l)
    PROVE  l # NULL => l \in Held(arena)
  <1>1. SUFFICES ASSUME l # NULL PROVE l \in Held(arena)
    OBVIOUS
  <1>2. l \in Blocks(arena) /\ ~(arena.tags[l].index >= 0)
    BY <1>1 DEF IsFree
  <1>3. arena.tags[l].index = -1
    BY <1>2, ArenaFields, ClassAssumption
  <1> QED BY <1>2, <1>3 DEF Held

(* Where free is: the block it works on is held and nobody's.              *)
LEMMA FreeAt ==
    ASSUME IndInv, pc \in {"melt_left", "melt_right"}
    PROVE  /\ Types /\ Calls /\ Counted /\ Pooled(pool) /\ Good(arena, pool.next)
           /\ pool.next \in Nat /\ pool.next < UINT_MOD /\ Arena(arena)
           /\ Owned(live, arena, tag) /\ DOMAIN live \subseteq Nat
           /\ tag \in Held(arena) /\ tag \in Nat /\ tag \in Blocks(arena)
           /\ tag + TAG \notin DOMAIN live /\ l_initialized # 0
           /\ NULL \notin Held(arena)
           /\ arena.tags[tag].split_left # NULL => arena.tags[tag].split_left \in Blocks(arena)
           /\ arena.tags[tag].split_right # NULL => arena.tags[tag].split_right \in Blocks(arena)
  <1>1. Types /\ Calls /\ Counted /\ Pooled(pool) /\ Good(arena, pool.next)
        /\ pool.next \in Nat /\ pool.next < UINT_MOD /\ Owned(live, arena, Worker)
    BY PoolFacts DEF IndInv
  <1>2. Worker = tag /\ tag # NULL /\ l_initialized # 0 /\ DOMAIN live \subseteq Nat
    BY <1>1 DEF Worker, Types, Calls
  <1>3. /\ Arena(arena) /\ Tiles(arena, pool.next)
        /\ Held(arena) \subseteq Blocks(arena) /\ Blocks(arena) \subseteq Nat
        /\ NULL \notin Blocks(arena)
    BY <1>1, GoodFields
  <1>4. tag \in Held(arena) /\ tag + TAG \notin DOMAIN live
    BY <1>1, <1>2 DEF Calls
  <1>5. tag \in Blocks(arena)
    BY <1>3, <1>4
  <1>6. /\ arena.tags[tag].split_left # NULL => arena.tags[tag].split_left \in Blocks(arena)
        /\ arena.tags[tag].split_right # NULL => arena.tags[tag].split_right \in Blocks(arena)
    BY <1>1, <1>3, <1>5, TileFields
  <1> QED BY <1>1, <1>2, <1>3, <1>4, <1>5, <1>6

(* free goes on with the block on the left, which was free.                *)
LEMMA MeltLeftInd ==
    ASSUME IndInv, MeltLeft
    PROVE  IndInv'
  <1> DEFINE l == arena.tags[tag].split_left
  <1>1. /\ pc = "melt_left" /\ IsFree(l) /\ tag' = l
        /\ arena' = remove_tag(melt_left(arena, tag), l)
        /\ UNCHANGED <<pool, l_initialized, l_completePages, live, pc, req>>
    BY DEF MeltLeft
  <1>2. /\ Types /\ Calls /\ Counted /\ Pooled(pool) /\ Good(arena, pool.next)
        /\ pool.next \in Nat /\ pool.next < UINT_MOD /\ Arena(arena)
        /\ Owned(live, arena, tag) /\ DOMAIN live \subseteq Nat
        /\ tag \in Held(arena) /\ tag \in Nat
        /\ tag + TAG \notin DOMAIN live /\ l_initialized # 0
        /\ l # NULL => l \in Blocks(arena)
    BY <1>1, FreeAt
  <1> HIDE DEF l
  <1>3. l # NULL /\ arena.tags[l].index # -1
    BY <1>1 DEF IsFree
  <1>4. l = arena.tags[tag].split_left
    BY DEF l
  <1>5. /\ Good(arena', pool.next) /\ Held(arena') = (Held(arena) \ {tag}) \cup {l}
        /\ \A u \in Held(arena) \ {tag} : arena'.tags[u].real_size = arena.tags[u].real_size
        /\ \A i \in Classes : Wholes(arena', i) = Wholes(arena, i)
    BY <1>1, <1>2, <1>3, <1>4, MeltGood
  <1>6. l \in Nat /\ l \notin Held(arena) /\ l \in Blocks(arena') /\ l \in Held(arena')
    <2>1. l \in Blocks(arena)
      BY <1>2, <1>3
    <2> QED BY <1>2, <1>3, <1>5, <2>1, ArenaFields DEF Held
  <1>7. l + TAG \notin DOMAIN live
    BY <1>6, Unowned
  <1>8. Owned(live, arena', l)
    <2>1. Held(arena') \ {l} = Held(arena) \ {tag}
      BY <1>5, <1>6
    <2> QED BY <1>2, <1>5, <2>1, OwnedArena
  <1>9. Worker' = l
    BY <1>1 DEF Worker
  <1>10. Types' /\ Calls'
    BY <1>1, <1>2, <1>3, <1>6, <1>7, <1>9 DEF Types, Calls
  <1>11. Counted'
    BY <1>1, <1>2, <1>5 DEF Counted
  <1> QED BY <1>1, <1>2, <1>5, <1>8, <1>9, <1>10, <1>11 DEF IndInv

(* What is on the left is not free.                                        *)
LEMMA MeltLeftDoneInd ==
    ASSUME IndInv, MeltLeftDone
    PROVE  IndInv'
  <1>1. /\ pc = "melt_left" /\ pc' = "melt_right" /\ ~IsFree(arena.tags[tag].split_left)
        /\ UNCHANGED <<pool, l_initialized, l_completePages, arena, live, tag, req>>
    BY DEF MeltLeftDone
  <1>2. /\ Types /\ Calls /\ Arena(arena)
        /\ arena.tags[tag].split_left # NULL => arena.tags[tag].split_left \in Blocks(arena)
    BY <1>1, FreeAt
  <1>3. arena.tags[tag].split_left # NULL => arena.tags[tag].split_left \in Held(arena)
    BY <1>1, <1>2, NotFree
  <1>4. Worker' = Worker
    BY <1>1 DEF Worker
  <1>5. Types' /\ Calls'
    BY <1>1, <1>2, <1>3, <1>4 DEF Types, Calls
  <1> QED BY <1>1, <1>4, <1>5 DEF IndInv, Counted

(* free takes in the block on the right, which was free.                   *)
LEMMA AbsorbRightInd ==
    ASSUME IndInv, AbsorbRight
    PROVE  IndInv'
  <1>1. /\ pc = "melt_right" /\ IsFree(arena.tags[tag].split_right)
        /\ arena' = absorb_right(arena, tag)
        /\ UNCHANGED <<pool, l_initialized, l_completePages, live, pc, tag, req>>
    BY DEF AbsorbRight
  <1>2. /\ Types /\ Calls /\ Counted /\ Pooled(pool) /\ Good(arena, pool.next)
        /\ pool.next \in Nat /\ pool.next < UINT_MOD
        /\ Owned(live, arena, tag) /\ DOMAIN live \subseteq Nat
        /\ tag \in Held(arena) /\ tag \in Nat
        /\ tag + TAG \notin DOMAIN live /\ l_initialized # 0
    BY <1>1, FreeAt
  <1>3. /\ arena.tags[tag].split_right # NULL
        /\ arena.tags[arena.tags[tag].split_right].index # -1
    BY <1>1 DEF IsFree
  <1>4. /\ Good(arena', pool.next) /\ Held(arena') = Held(arena)
        /\ \A u \in Held(arena) \ {tag} : arena'.tags[u].real_size = arena.tags[u].real_size
        /\ \A i \in Classes : Wholes(arena', i) = Wholes(arena, i)
        /\ arena'.tags[tag].split_left = arena.tags[tag].split_left
    BY <1>1, <1>2, <1>3, AbsorbGood
  <1>5. Owned(live, arena', tag)
    BY <1>2, <1>4, OwnedArena
  <1>6. Worker' = tag /\ tag \in Blocks(arena')
    BY <1>1, <1>2, <1>4 DEF Worker, Held
  <1>7. arena.tags[tag].split_left # NULL => arena.tags[tag].split_left \in Held(arena)
    BY <1>1, <1>2 DEF Calls
  <1>8. Types' /\ Calls'
    BY <1>1, <1>2, <1>4, <1>6, <1>7 DEF Types, Calls
  <1>9. Counted'
    BY <1>1, <1>2, <1>4 DEF Counted
  <1> QED BY <1>1, <1>2, <1>4, <1>5, <1>6, <1>8, <1>9 DEF IndInv

(* The end of free: the block is nobody's, on its list or gone.            *)
LEMMA FreeEnds ==
    ASSUME IndInv, pc = "melt_right", Return,
           UNCHANGED <<pool, l_initialized, live>>,
           Good(arena', pool.next), Counted',
           l_completePages' \in [Classes -> 0..MAXCOMPLETE],
           Held(arena') = Held(arena) \ {tag},
           \A u \in Held(arena') : arena'.tags[u].real_size = arena.tags[u].real_size
    PROVE  IndInv'
  <1>1. /\ Types /\ Calls /\ Pooled(pool)
        /\ Owned(live, arena, tag) /\ DOMAIN live \subseteq Nat
        /\ tag \in Held(arena)
        /\ tag + TAG \notin DOMAIN live /\ l_initialized # 0 /\ NULL \notin Held(arena)
    BY FreeAt
  <1>2. pc' = "idle" /\ tag' = NULL /\ req' = NoRequest /\ Worker' = NULL
    BY DEF Return, Worker
  <1>3. Owned(live, arena', NULL)
    <2>1. Held(arena') \ {NULL} = Held(arena) \ {tag}
      BY <1>1
    <2> QED BY <1>1, <2>1, OwnedArena
  <1>4. Types' /\ Calls'
    BY <1>1, <1>2 DEF Types, Calls, NoRequest, Request, NULL
  <1> QED BY <1>1, <1>2, <1>3, <1>4 DEF IndInv

(* The block goes to its list, and a whole chunk is counted.               *)
LEMMA FreeListInd ==
    ASSUME IndInv, FreeList
    PROVE  IndInv'
  <1> DEFINE i == class(arena.tags[tag].real_size - TAG)
  <1>1. /\ pc = "melt_right" /\ ~IsFree(arena.tags[tag].split_right)
        /\ ~(Whole(arena.tags[tag]) /\ l_completePages[i] = MAXCOMPLETE)
        /\ arena' = insert_tag(arena, tag, i)
        /\ l_completePages' = (IF Whole(arena.tags[tag])
                               THEN [l_completePages EXCEPT ![i] = @ + 1]
                               ELSE l_completePages)
        /\ Return
        /\ UNCHANGED <<pool, l_initialized, live>>
    BY DEF FreeList, Surplus, room
  <1>2. /\ Types /\ Calls /\ Counted /\ Good(arena, pool.next)
        /\ pool.next \in Nat /\ Arena(arena)
        /\ tag \in Held(arena) /\ tag \in Nat /\ tag \in Blocks(arena)
        /\ arena.tags[tag].split_right # NULL => arena.tags[tag].split_right \in Blocks(arena)
    BY <1>1, FreeAt
  <1>3. i \in Classes
    <2>1. arena.tags[tag].real_size - TAG \in Int
      BY <1>2, ArenaFields DEF TAG
    <2> QED BY <2>1, ClassRange, ClassAssumption DEF Classes
  <1>4. i = class(arena.tags[tag].real_size - TAG)
    OBVIOUS
  <1> HIDE DEF i
  <1>5. /\ arena.tags[tag].split_left # NULL => arena.tags[tag].split_left \in Held(arena)
        /\ arena.tags[tag].split_right # NULL => arena.tags[tag].split_right \in Held(arena)
    BY <1>1, <1>2, NotFree DEF Calls
  <1>6. Good(arena', pool.next) /\ Listed(arena, arena', tag, i)
    BY <1>1, <1>2, <1>4, <1>5, PutGood
  <1>7. /\ Held(arena') = Held(arena) \ {tag}
        /\ \A u \in Held(arena') : arena'.tags[u].real_size = arena.tags[u].real_size
    BY <1>6 DEF Listed, SameSplit, Held
  <1>8. \A j \in Classes : tag \notin Wholes(arena, j) /\ IsFiniteSet(Wholes(arena, j))
    <2>1. \A j \in Classes : j # -1 /\ IsFiniteSet(Wholes(arena, j))
      BY <1>2, GoodFields
    <2> QED BY <1>2, <2>1 DEF Held, Wholes
  <1>9. l_completePages' \in [Classes -> 0..MAXCOMPLETE] /\ Counted'
    <2>1. l_completePages \in [Classes -> 0..MAXCOMPLETE]
          /\ \A j \in Classes : l_completePages[j] = Cardinality(Wholes(arena, j))
      BY <1>2 DEF Types, Counted
    <2>2. CASE Whole(arena.tags[tag])
      <3>1. l_completePages[i] + 1 \in 0..MAXCOMPLETE
        BY <1>1, <1>3, <2>1, <2>2, ClassAssumption
      <3>2. l_completePages' = [l_completePages EXCEPT ![i] = @ + 1]
        BY <1>1, <2>2
      <3>3. /\ Wholes(arena', i) = Wholes(arena, i) \cup {tag}
            /\ \A j \in Classes \ {i} : Wholes(arena', j) = Wholes(arena, j)
        BY <1>3, <1>6, <2>2 DEF Listed
      <3>4. Cardinality(Wholes(arena', i)) = Cardinality(Wholes(arena, i)) + 1
        BY <1>3, <1>8, <3>3, FS_AddElement
      <3> QED BY <1>3, <2>1, <3>1, <3>2, <3>3, <3>4 DEF Counted
    <2>3. CASE ~Whole(arena.tags[tag])
      <3>1. \A j \in Classes : Wholes(arena', j) = Wholes(arena, j)
        BY <1>6, <2>3 DEF Listed
      <3> QED BY <1>1, <2>1, <2>3, <3>1 DEF Counted
    <2> QED BY <2>2, <2>3
  <1> QED BY <1>1, <1>6, <1>7, <1>9, FreeEnds

(* A surplus chunk goes, and none of its neighbours misses it.             *)
LEMMA FreeChunkInd ==
    ASSUME IndInv, FreeChunk
    PROVE  IndInv'
  <1>1. /\ pc = "melt_right" /\ Whole(arena.tags[tag])
        /\ arena' = Dropped(arena, tag)
        /\ Return
        /\ UNCHANGED <<pool, l_initialized, l_completePages, live>>
    BY DEF FreeChunk, Surplus, Dropped
  <1>2. /\ Types /\ Counted /\ Good(arena, pool.next)
        /\ pool.next \in Nat /\ tag \in Held(arena)
    BY <1>1, FreeAt
  <1>3. /\ Good(arena', pool.next) /\ Held(arena') = Held(arena) \ {tag}
        /\ \A u \in Blocks(arena') : arena'.tags[u] = arena.tags[u]
        /\ \A i \in Classes : Wholes(arena', i) = Wholes(arena, i)
    BY <1>1, <1>2, DropGood
  <1>4. \A u \in Held(arena') : arena'.tags[u].real_size = arena.tags[u].real_size
    BY <1>3 DEF Held
  <1>5. l_completePages' \in [Classes -> 0..MAXCOMPLETE] /\ Counted'
    BY <1>1, <1>2, <1>3 DEF Types, Counted
  <1> QED BY <1>1, <1>3, <1>4, <1>5, FreeEnds
-----------------------------------------------------------------------------
(* Every step of every call keeps the invariant.                           *)
LEMMA NextInd ==
    ASSUME IndInv, [Next]_vars
    PROVE  IndInv'
  <1>1. CASE Call
    BY <1>1, OtherInd, MallocInd, CallocInd, FreeInd, ReallocInd DEF Call
  <1>2. CASE Step
    BY <1>2, SearchSkipInd, SearchTakeInd, SearchEndInd, ReallocCopyInd, CallocClearInd,
       MeltLeftInd, MeltLeftDoneInd, AbsorbRightInd, FreeListInd, FreeChunkInd DEF Step
  <1>3. CASE UNCHANGED vars
    BY <1>3 DEF vars, IndInv, Types, Counted, Calls, Worker
  <1> QED BY <1>1, <1>2, <1>3 DEF Next

(* In every state of the allocator its blocks tile the chunks, its lists   *)
(* are linked, and every held block has one owner.                         *)
THEOREM LiballocInvariance == Spec => []IndInv
  <1>1. Init => IndInv
    BY InitInd
  <1>2. IndInv /\ [Next]_vars => IndInv'
    BY NextInd
  <1> QED BY <1>1, <1>2, PTL DEF Spec

(* TypeOK: every variable has its type, and no loop of malloc or free      *)
(* follows a pointer to something that is not a boundary tag.              *)
THEOREM LiballocTypeCorrect == Spec => []TypeOK
  <1>1. IndInv => TypeOK
    BY IndTypes
  <1> QED BY <1>1, LiballocInvariance, PTL
-----------------------------------------------------------------------------
(* A block in terms of the invariant.                                      *)
LEMMA IndFacts ==
    ASSUME IndInv
    PROVE  /\ pool.next \in Nat /\ Arena(arena) /\ Links(arena) /\ Ranked(arena)
           /\ Tiles(arena, pool.next) /\ Classed(arena) /\ Apart(arena)
           /\ Blocks(arena) \subseteq Nat \ {NULL} /\ Held(arena) \subseteq Blocks(arena)
           /\ tags = arena.tags /\ DOMAIN tags = Blocks(arena)
           /\ \A t \in Blocks(arena) : TagEnd(t) = Upto(arena, t)
           /\ Types /\ Counted /\ Calls /\ Owned(live, arena, Worker) /\ Pooled(pool)
           /\ TypeOK
  <1>1. pool.next \in Nat
    BY PoolFacts DEF IndInv
  <1>2. Arena(arena) /\ Links(arena) /\ Ranked(arena) /\ Tiles(arena, pool.next)
    BY <1>1, GoodFields DEF IndInv
  <1>3. /\ Classed(arena) /\ Apart(arena) /\ Types /\ Counted /\ Calls
        /\ Owned(live, arena, Worker) /\ Pooled(pool)
    BY DEF IndInv, Good
  <1>4. Blocks(arena) \subseteq Nat \ {NULL} /\ Held(arena) \subseteq Blocks(arena)
    BY <1>2 DEF Arena, Held
  <1>5. /\ tags = arena.tags /\ DOMAIN tags = Blocks(arena)
        /\ \A t \in Blocks(arena) : TagEnd(t) = Upto(arena, t)
    BY DEF tags, Blocks, TagEnd, Upto
  <1> QED BY <1>1, <1>2, <1>3, <1>4, <1>5, IndTypes

(* The tiling of the invariant is TagsTile.                                *)
LEMMA IndTagsTile == IndInv => TagsTile
  <1> SUFFICES ASSUME IndInv PROVE TagsTile
    OBVIOUS
  <1>1. /\ Tiles(arena, pool.next)
        /\ tags = arena.tags /\ DOMAIN tags = Blocks(arena)
        /\ \A t \in Blocks(arena) : TagEnd(t) = Upto(arena, t)
    BY IndFacts
  <1>2. \A t \in Blocks(arena) : Tiled(arena, pool.next, t)
    BY <1>1 DEF Tiles
  <1>3. \A t, u \in DOMAIN tags : t < u => TagEnd(t) <= u
    BY <1>1 DEF Tiles
  <1> QED BY <1>1, <1>2, <1>3 DEF TagsTile, Tiled

(* Ownership in the invariant is LiveOwnTags.                              *)
LEMMA IndLiveOwnTags == IndInv => LiveOwnTags
  <1> SUFFICES ASSUME IndInv PROVE LiveOwnTags
    OBVIOUS
  <1>1. /\ Held(arena) \subseteq Blocks(arena) /\ Blocks(arena) \subseteq Nat \ {NULL}
        /\ tags = arena.tags /\ DOMAIN tags = Blocks(arena)
        /\ \A t \in Blocks(arena) : TagEnd(t) = Upto(arena, t)
        /\ Owned(live, arena, Worker)
    BY IndFacts
  <1>2. ASSUME NEW p \in DOMAIN live
        PROVE  /\ BlockOf(p) \in DOMAIN tags
               /\ tags[BlockOf(p)].index = -1
               /\ p + live[p] <= TagEnd(BlockOf(p))
    <2>1. p - TAG \in Held(arena) /\ p + live[p] <= Upto(arena, p - TAG)
      BY <1>1 DEF Owned
    <2> QED BY <1>1, <2>1 DEF Held, BlockOf
  <1>3. ASSUME NEW t \in DOMAIN tags
        PROVE  \/ tags[t].index # -1
               \/ t + TAG \in DOMAIN live
               \/ pc \in {"copy", "clear", "melt_left", "melt_right"} /\ t = tag
    <2>1. tags[t].index = -1 => t \in Held(arena)
      BY <1>1 DEF Held
    <2>2. t \in Held(arena) => t + TAG \in DOMAIN live \/ t = Worker
      BY <1>1 DEF Owned
    <2> QED BY <1>1, <2>1, <2>2 DEF Worker
  <1> QED BY <1>2, <1>3 DEF LiveOwnTags

(* What the invariant says of neighbours is NoFreeNeighbours.              *)
LEMMA IndApart == IndInv => NoFreeNeighbours
  BY IndFacts DEF NoFreeNeighbours, Apart
-----------------------------------------------------------------------------
(* Going back along the links from any block of class i leads to the head  *)
(* of its list: a set that has the head and, with a block, the next one    *)
(* has every block of the class.                                           *)
LEMMA WholeList ==
    ASSUME NEW m, Arena(m), Links(m), Ranked(m), NEW i \in MINEXP..(MAXEXP - 1),
           NEW S, m.l_freePages[i] # NULL => m.l_freePages[i] \in S,
           \A t \in S : m.tags[t].next # NULL => m.tags[t].next \in S,
           NEW b \in Blocks(m), m.tags[b].index = i
    PROVE  b \in S
  <1>1. PICK rank : Ranks(m, rank)
    BY DEF Ranked
  <1> DEFINE B == {t \in Blocks(m) : m.tags[t].index = i /\ t \notin S}
             R == {rank[t] : t \in B}
  <1>2. SUFFICES ASSUME b \notin S PROVE FALSE
    OBVIOUS
  <1>3. R \in SUBSET Nat /\ R # {}
    BY <1>1, <1>2 DEF Ranks
  <1>4. PICK n \in R : \A k \in R : n <= k
    BY <1>3, LeastNumber
  <1>5. PICK t \in B : n = rank[t]
    BY <1>4
  <1>6. t \in Blocks(m) /\ m.tags[t].index = i /\ t \notin S /\ i # -1 /\ rank[t] \in Nat
    BY <1>1, <1>5, ClassAssumption DEF Ranks
  <1>7. CASE m.tags[t].prev = NULL
    <2>1. m.l_freePages[i] = t
      BY <1>6, <1>7 DEF Links
    <2>2. t # NULL
      BY <1>6, ArenaFields
    <2> QED BY <1>6, <2>1, <2>2
  <1>8. CASE m.tags[t].prev # NULL
    <2> DEFINE u == m.tags[t].prev
    <2>1. /\ u \in Blocks(m) /\ m.tags[u].next = t /\ m.tags[u].index = i
      BY <1>6, <1>8 DEF Links
    <2>2. t # NULL
      BY <1>6, ArenaFields
    <2> HIDE DEF u
    <2>3. u \notin S
      BY <1>6, <2>1, <2>2
    <2>4. rank[u] \in Nat /\ rank[u] < rank[t]
      BY <1>1, <2>1, <2>2 DEF Ranks
    <2>5. rank[u] \in R
      BY <2>1, <2>3
    <2>6. rank[t] <= rank[u]
      BY <1>4, <1>5, <2>5
    <2> QED BY <1>6, <2>4, <2>6
  <1> QED BY <1>7, <1>8

(* The lists of the invariant are sound: what a walk passes is what is     *)
(* in the class.                                                           *)
LEMMA IndListsSound == IndInv => ListsSound
  <1> SUFFICES ASSUME IndInv PROVE ListsSound
    OBVIOUS
  <1>1. /\ Arena(arena) /\ Links(arena) /\ Ranked(arena) /\ Classed(arena)
        /\ Blocks(arena) \subseteq Nat \ {NULL}
        /\ tags = arena.tags /\ DOMAIN tags = Blocks(arena)
        /\ TypeOK /\ Counted /\ l_freePages = arena.l_freePages
    BY IndFacts DEF l_freePages
  <1>2. CompletePagesCount
    BY <1>1 DEF CompletePagesCount, Counted, Wholes
  <1>3. ASSUME NEW i \in MINEXP..(MAXEXP - 1)
        PROVE  OnList(i) = {t \in DOMAIN tags : tags[t].index = i}
    <2> DEFINE I == {t \in DOMAIN tags : tags[t].index = i}
               Passed == {S \in SUBSET DOMAIN tags :
                             /\ l_freePages[i] # NULL => l_freePages[i] \in S
                             /\ \A t \in S : tags[t].next # NULL => tags[t].next \in S}
    <2>1. OnList(i) = {t \in DOMAIN tags : \A S \in Passed : t \in S}
      BY DEF OnList
    <2>2. I \in Passed
      <3>1. i \in Classes
        BY ClassAssumption DEF Classes
      <3>2. l_freePages[i] # NULL => l_freePages[i] \in I
        BY <1>1, <3>1 DEF Arena, Links
      <3>3. ASSUME NEW t \in I, tags[t].next # NULL PROVE tags[t].next \in I
        BY <1>1, <3>3 DEF Links
      <3> QED BY <3>2, <3>3
    <2>3. ASSUME NEW t \in I, NEW S \in Passed PROVE t \in S
      <3>1. /\ arena.l_freePages[i] # NULL => arena.l_freePages[i] \in S
            /\ \A u \in S : arena.tags[u].next # NULL => arena.tags[u].next \in S
            /\ t \in Blocks(arena) /\ arena.tags[t].index = i
        BY <1>1
      <3> HIDE DEF I, Passed
      <3> QED BY <1>1, <3>1, WholeList
    <2>4. I \subseteq DOMAIN tags
      OBVIOUS
    <2> HIDE DEF Passed, I
    <2>5. OnList(i) = I
      BY <2>1, <2>2, <2>3, <2>4
    <2> QED BY <2>5 DEF I
  <1>4. ASSUME NEW t \in DOMAIN tags
        PROVE  LET g == tags[t]
               IN  IF g.index = -1
                   THEN g.next = NULL /\ g.prev = NULL
                   ELSE /\ g.index = class(g.real_size - TAG)
                        /\ g.next # NULL => tags[g.next].prev = t
                        /\ IF g.prev = NULL THEN l_freePages[g.index] = t
                           ELSE tags[g.prev].next = t
    BY <1>1 DEF Links, Classed
  <1> QED BY <1>1, <1>2, <1>3, <1>4 DEF ListsSound

(* TagsTile: splitting and melting lose no byte of a chunk and give none   *)
(* away twice, and neighbours know each other.                             *)
THEOREM LiballocTiles == Spec => []TagsTile
  <1>1. IndInv => TagsTile
    BY IndTagsTile
  <1> QED BY <1>1, LiballocInvariance, PTL

(* LiveOwnTags: every pointer that was returned and not freed has a block  *)
(* with room for what was asked, to itself and on no free list, and no     *)
(* block that is off the lists is lost.                                    *)
THEOREM LiballocOwnership == Spec => []LiveOwnTags
  <1>1. IndInv => LiveOwnTags
    BY IndLiveOwnTags
  <1> QED BY <1>1, LiballocInvariance, PTL

(* ListsSound: the free lists hold exactly the free blocks, each in the    *)
(* class of its size, and the counts of whole chunks are right.            *)
THEOREM LiballocLists == Spec => []ListsSound
  <1>1. IndInv => ListsSound
    BY IndListsSound
  <1> QED BY <1>1, LiballocInvariance, PTL

(* NoFreeNeighbours: free melts all that can be melted.                    *)
THEOREM LiballocCoalesces == Spec => []NoFreeNeighbours
  <1>1. IndInv => NoFreeNeighbours
    BY IndApart
  <1> QED BY <1>1, LiballocInvariance, PTL
-----------------------------------------------------------------------------
(* The bytes behind the pointers in L do not overlap and are the pool's.   *)
Parted(L) ==
    \A p \in DOMAIN L :
        /\ kernel_end <= p /\ p + L[p] <= pool_end
        /\ \A q \in DOMAIN L \ {p} : p + L[p] <= q \/ q + L[q] <= p

(* Pointers that own blocks have bytes of their own.                       *)
LEMMA OwnedParted ==
    ASSUME IndInv, NEW L, L \in [DOMAIN L -> Nat], DOMAIN L \subseteq Nat,
           NEW w, Owned(L, arena, w)
    PROVE  Parted(L)
  <1>1. /\ pool.next \in Nat /\ Arena(arena) /\ Tiles(arena, pool.next)
        /\ Held(arena) \subseteq Blocks(arena) /\ pool.next <= pool_end
    BY IndFacts, PoolFacts
  <1>2. ASSUME NEW p \in DOMAIN L
        PROVE  /\ p - TAG \in Blocks(arena) /\ p - TAG \in Nat /\ p \in Nat /\ L[p] \in Nat
               /\ kernel_end <= p - TAG /\ p - TAG <= p
               /\ Upto(arena, p - TAG) \in Nat
               /\ p + L[p] <= Upto(arena, p - TAG) /\ Upto(arena, p - TAG) <= pool.next
    <2>1. p - TAG \in Blocks(arena) /\ p + L[p] <= Upto(arena, p - TAG)
      BY <1>1 DEF Owned
    <2>2. /\ p - TAG \in Nat /\ Upto(arena, p - TAG) \in Nat
          /\ Upto(arena, p - TAG) <= pool.next
      BY <1>1, <2>1, TileFields
    <2>3. kernel_end <= p - TAG
      BY <1>1, <2>1 DEF Tiles, Tiled
    <2>4. p \in Nat /\ L[p] \in Nat
      OBVIOUS
    <2>5. p - TAG <= p
      BY <2>4 DEF TAG
    <2> QED BY <2>1, <2>2, <2>3, <2>4, <2>5
  <1>3. ASSUME NEW p \in DOMAIN L
        PROVE  kernel_end <= p /\ p + L[p] <= pool_end
    <2>1. pool_end \in Nat /\ kernel_end \in Nat
      BY PoolBounds
    <2> QED BY <1>1, <1>2, <2>1
  <1>4. ASSUME NEW p \in DOMAIN L, NEW q \in DOMAIN L, p - TAG < q - TAG
        PROVE  p + L[p] <= q
    <2>1. Upto(arena, p - TAG) <= q - TAG
      BY <1>1, <1>2, <1>4 DEF Tiles
    <2> HIDE DEF TAG
    <2> QED BY <1>2, <2>1
  <1>5. ASSUME NEW p \in DOMAIN L, NEW q \in DOMAIN L \ {p}
        PROVE  p - TAG < q - TAG \/ q - TAG < p - TAG
    BY <1>2 DEF TAG
  <1>6. \A p \in DOMAIN L : \A q \in DOMAIN L \ {p} : p + L[p] <= q \/ q + L[q] <= p
    BY <1>4, <1>5
  <1> QED BY <1>3, <1>6 DEF Parted

(* The pointers callers hold have bytes of their own.                      *)
LEMMA LiveParted ==
    ASSUME IndInv
    PROVE  Parted(live)
  <1>1. /\ Owned(live, arena, Worker) /\ live \in [DOMAIN live -> Nat]
        /\ DOMAIN live \subseteq Nat
    BY DEF IndInv, Types
  <1> QED BY <1>1, OwnedParted

(* A block is new to callers when malloc hands it out.                     *)
LEMMA DeliverNew ==
    ASSUME IndInv, SearchTake \/ SearchEnd
    PROVE  live' = live \/ \E q \in Nat \ DOMAIN live : live' = With(live, q, req.size)
  <1>1. /\ pool.next \in Nat /\ Arena(arena) /\ Tiles(arena, pool.next)
        /\ Blocks(arena) \subseteq Nat \ {NULL} /\ Held(arena) \subseteq Blocks(arena)
        /\ Types /\ Calls /\ Pooled(pool) /\ pc = "search"
    BY IndFacts DEF SearchTake, SearchEnd
  <1>2. ASSUME NEW t \in Nat, t \notin Held(arena), Deliver(t)
        PROVE  live' = live \/ \E q \in Nat \ DOMAIN live : live' = With(live, q, req.size)
    <2>1. t + TAG \in Nat \ DOMAIN live
      BY <1>2, Unowned DEF TAG
    <2>2. live' = live \/ live' = With(live, t + TAG, req.size)
      BY <1>2 DEF Deliver
    <2> QED BY <2>1, <2>2
  <1>3. CASE SearchTake
    <2>1. tag \in Blocks(arena) /\ Deliver(tag) /\ arena.tags[tag].index = class(req.size)
      BY <1>1, <1>3 DEF SearchTake, Types, Calls
    <2>2. class(req.size) # -1
      <3>1. req.size \in Nat
        BY <1>1 DEF Types
      <3>2. class(req.size) \in MINEXP..(MAXEXP - 1)
        BY <3>1, ClassRange
      <3> QED BY <3>2, ClassAssumption
    <2>3. tag \in Nat /\ tag \notin Held(arena)
      BY <1>1, <2>1, <2>2 DEF Held
    <2> QED BY <1>2, <2>1, <2>3
  <1>4. CASE SearchEnd
    <2> DEFINE c == allocate_new_tag(req.size)
    <2>1. Modest(req.size) /\ req.size % UINT_MOD = req.size
      BY <1>1, ModestFits DEF Calls
    <2>2. Deliver(c.tag)
      BY <1>4, <2>1 DEF SearchEnd
    <2>3. c.tag # NULL => c.tag \in Nat /\ pool.next <= c.tag
      BY <1>1, <2>1, NewChunk
    <2> HIDE DEF c
    <2>4. c.tag \in Nat /\ c.tag \notin Held(arena)
      <3>1. CASE c.tag = NULL
        BY <1>1, <3>1 DEF NULL
      <3>2. CASE c.tag # NULL
        <4>1. ASSUME c.tag \in Blocks(arena) PROVE FALSE
          <5>1. c.tag < Upto(arena, c.tag) /\ Upto(arena, c.tag) <= pool.next
                /\ Upto(arena, c.tag) \in Nat
            BY <1>1, <4>1, TileFields
          <5> QED BY <1>1, <2>3, <3>2, <5>1
        <4> QED BY <1>1, <2>3, <3>2, <4>1
      <3> QED BY <3>1, <3>2
    <2> QED BY <1>2, <2>2, <2>4
  <1> QED BY <1>3, <1>4

(* What a step can do to what callers hold: give back a pointer, hand out  *)
(* a new one, or hand out a new one for an old one.                        *)
LEMMA LiveChanges ==
    ASSUME IndInv, [Next]_vars
    PROVE  \/ live' = live
           \/ \E p \in DOMAIN live : live' = Without(live, p)
           \/ \E q \in Nat \ DOMAIN live : live' = With(live, q, req.size)
           \/ \E p \in DOMAIN live, q \in Nat \ DOMAIN live :
                 /\ live' = With(Without(live, p), q, req.size)
                 /\ Parted(With(live, q, req.size))
  <1>1. Types /\ Calls /\ Blocks(arena) \subseteq Nat
    BY IndFacts
  <1>2. CASE Call
    <2>1. CASE \E n \in PoolRequests : OtherAlloc(n)
      BY <2>1 DEF OtherAlloc
    <2>2. CASE \E n \in Sizes : Malloc(n)
      BY <2>2 DEF Malloc, BeginMalloc
    <2>3. CASE \E c \in Counts, n \in Sizes : Calloc(c, n)
      BY <2>3 DEF Calloc, BeginMalloc
    <2>4. CASE \E p \in DOMAIN live : Free(p)
      BY <2>4 DEF Free
    <2>5. CASE \E p \in DOMAIN live \cup {NULL}, n \in Sizes : Realloc(p, n)
      <3>1. PICK p \in DOMAIN live \cup {NULL}, n \in Sizes : Realloc(p, n)
        BY <2>5
      <3>2. \/ p \in DOMAIN live /\ live' = Without(live, p)
            \/ live' = live
        BY <3>1 DEF Realloc, Free, Malloc, BeginMalloc
      <3> QED BY <3>2
    <2> QED BY <1>2, <2>1, <2>2, <2>3, <2>4, <2>5 DEF Call
  <1>3. CASE SearchTake \/ SearchEnd
    BY <1>3, DeliverNew
  <1>4. CASE CallocClear
    <2>1. tag # NULL => tag + TAG \in Nat \ DOMAIN live
      BY <1>1, <1>4, GiveWorker DEF CallocClear, Types, TAG
    <2>2. live' = IF tag = NULL THEN live ELSE With(live, tag + TAG, req.size)
      BY <1>4 DEF CallocClear
    <2> QED BY <2>1, <2>2
  <1>5. CASE ReallocCopy
    <2>1. pc = "copy" /\ req.old \in DOMAIN live
      BY <1>1, <1>5 DEF ReallocCopy, Calls
    <2>2. CASE tag = NULL
      BY <1>5, <2>1, <2>2 DEF ReallocCopy
    <2>3. CASE tag # NULL
      <3> DEFINE L == With(live, tag + TAG, req.size)
      <3>1. /\ Owned(L, arena, NULL) /\ DOMAIN L \subseteq Nat /\ L \in [DOMAIN L -> Nat]
            /\ tag + TAG \notin DOMAIN live
        BY <2>1, <2>3, GiveWorker
      <3>2. tag + TAG \in Nat
        BY <1>1, <2>3 DEF Types, TAG
      <3>3. live' = With(Without(live, req.old), tag + TAG, req.size)
        BY <1>5, <2>3 DEF ReallocCopy
      <3> HIDE DEF L
      <3>4. Parted(L)
        BY <3>1, OwnedParted
      <3> QED BY <2>1, <3>1, <3>2, <3>3, <3>4 DEF L
    <2> QED BY <2>2, <2>3
  <1>6. CASE \/ SearchSkip \/ MeltLeft \/ MeltLeftDone \/ AbsorbRight \/ FreeList \/ FreeChunk
             \/ UNCHANGED vars
    BY <1>6 DEF SearchSkip, MeltLeft, MeltLeftDone, AbsorbRight, FreeList, FreeChunk, vars
  <1> QED BY <1>2, <1>3, <1>4, <1>5, <1>6 DEF Next, Step

(* Every step of malloc and free is a step of the allocator, or none.      *)
LEMMA StepImplements ==
    ASSUME IndInv, IndInv', [Next]_vars
    PROVE  [A!Next]_live
  <1>1. Parted(live')
    <2>1. (IndInv => Parted(live))'
      BY LiveParted, PTL
    <2> QED BY <2>1
  <1>2. CASE live' = live
    BY <1>2
  <1>3. CASE \E p \in DOMAIN live : live' = Without(live, p)
    <2>1. PICK p \in DOMAIN live : live' = Without(live, p)
      BY <1>3
    <2>2. live' = [q \in DOMAIN live \ {p} |-> live[q]]
      BY <2>1 DEF Without, Restrict
    <2>3. A!Release
      BY <2>2 DEF A!Release
    <2> QED BY <2>3 DEF A!Next
  <1>4. CASE \E q \in Nat \ DOMAIN live : live' = With(live, q, req.size)
    <2>1. PICK q \in Nat \ DOMAIN live : live' = With(live, q, req.size)
      BY <1>4
    <2>2. /\ q \in DOMAIN live' /\ q \notin DOMAIN live /\ DOMAIN live' = DOMAIN live \cup {q}
          /\ \A x \in DOMAIN live : x # q /\ live'[x] = live[x]
      BY <2>1 DEF With
    <2>3. live' = [x \in (DOMAIN live \ {}) \cup {q} |-> IF x = q THEN live'[q] ELSE live[x]]
      BY <2>1 DEF With
    <2>4. /\ kernel_end <= q /\ q + live'[q] <= pool_end
          /\ \A x \in DOMAIN live : q + live'[q] <= x \/ x + live[x] <= q
      BY <1>1, <2>2 DEF Parted
    <2>5. A!Allocate
      BY <2>2, <2>3, <2>4 DEF A!Allocate, A!Available, A!Update
    <2> QED BY <2>5 DEF A!Next
  <1>5. CASE \E p \in DOMAIN live, q \in Nat \ DOMAIN live :
                 /\ live' = With(Without(live, p), q, req.size)
                 /\ Parted(With(live, q, req.size))
    <2>1. PICK p \in DOMAIN live, q \in Nat \ DOMAIN live :
                 /\ live' = With(Without(live, p), q, req.size)
                 /\ Parted(With(live, q, req.size))
      BY <1>5
    <2> DEFINE L == With(live, q, req.size)
    <2>2. /\ DOMAIN L = DOMAIN live \cup {q} /\ L[q] = req.size
          /\ \A x \in DOMAIN live : x # q /\ L[x] = live[x]
      BY <2>1 DEF With
    <2>3. /\ q \in DOMAIN live' /\ q \notin DOMAIN live /\ live'[q] = req.size
      BY <2>1 DEF With, Without, Restrict
    <2>4. live' = [x \in (DOMAIN live \ {p}) \cup {q} |-> IF x = q THEN live'[q] ELSE live[x]]
      BY <2>1 DEF With, Without, Restrict
    <2> HIDE DEF L
    <2>5. /\ kernel_end <= q /\ q + live'[q] <= pool_end
          /\ \A x \in DOMAIN live : q + live'[q] <= x \/ x + live[x] <= q
      <3>1. Parted(L)
        BY <2>1 DEF L
      <3> QED BY <2>2, <2>3, <3>1 DEF Parted
    <2>6. A!Move
      BY <2>3, <2>4, <2>5 DEF A!Move, A!Available, A!Update
    <2> QED BY <2>6 DEF A!Next
  <1> QED BY <1>2, <1>3, <1>4, <1>5, LiveChanges

(* ImplementsAllocator: malloc, calloc, realloc and free never give a      *)
(* caller bytes that another caller holds, nor bytes outside the pool.     *)
THEOREM LiballocImplementsAllocator == Spec => ImplementsAllocator
  <1>1. Init => A!Init
    BY DEF Init, A!Init
  <1>2. IndInv /\ IndInv' /\ [Next]_vars => [A!Next]_live
    BY StepImplements
  <1> QED BY <1>1, <1>2, LiballocInvariance, PTL DEF Spec, ImplementsAllocator, A!Spec
=============================================================================
