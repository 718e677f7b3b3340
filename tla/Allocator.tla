------------------------------ MODULE Allocator -----------------------------
(***************************************************************************)
(* What callers rely on in any of the kernel's allocators (kmalloc,        *)
(* malloc): every pointer they hold owns its bytes.  live maps the         *)
(* pointers that callers hold to the number of bytes they asked for.       *)
(* A refused request is no step, and leaves every pointer as it is; but    *)
(* pointers may be given back at any time, so a request that is refused    *)
(* and takes its own pointer with it, as liballoc's realloc does, is a     *)
(* step Release.                                                           *)
(***************************************************************************)
EXTENDS Naturals

CONSTANTS Lo, Hi    \* the arena: the addresses Lo .. Hi - 1

VARIABLE live

(* The bytes p .. p + n - 1 are in the arena and belong to none of Q.      *)
Available(p, n, Q) ==
    /\ Lo <= p /\ p + n <= Hi
    /\ \A q \in Q : p + n <= q \/ q + live[q] <= p

(* The pointers and sizes after p got n bytes and those of D were given    *)
(* back.                                                                   *)
Update(p, n, D) ==
    live' = [q \in (DOMAIN live \ D) \cup {p} |-> IF q = p THEN n ELSE live[q]]

(* A new pointer to bytes nobody holds.                                    *)
Allocate ==
    \E p \in DOMAIN live' \ DOMAIN live :
        /\ Available(p, live'[p], DOMAIN live)
        /\ Update(p, live'[p], {})

(* A pointer is given back.                                                *)
Release ==
    \E p \in DOMAIN live : live' = [q \in DOMAIN live \ {p} |-> live[q]]

(* A pointer stays where it is, with another size.                         *)
Resize ==
    \E p \in DOMAIN live \cap DOMAIN live' :
        /\ Available(p, live'[p], DOMAIN live \ {p})
        /\ Update(p, live'[p], {})

(* A pointer is exchanged for another, to bytes nobody holds (not even     *)
(* through the old one, from which the contents are copied).               *)
Move ==
    \E p \in DOMAIN live, q \in DOMAIN live' \ DOMAIN live :
        /\ Available(q, live'[q], DOMAIN live)
        /\ Update(q, live'[q], {p})

Init == live = [q \in {} |-> 0]
Next == Allocate \/ Release \/ Resize \/ Move
Spec == Init /\ [][Next]_live
=============================================================================
