------------------------------ MODULE Allocator ------------------------------
(***************************************************************************)
(* What a vmalloc region promises its callers (spec 5, "block bodies once  *)
(* handed out are exclusively owned by the caller"): a set of live bodies, *)
(* each an address with a usable size, that never overlap; each call       *)
(* hands out one body, takes one back, resizes one in place, or moves one, *)
(* and leaves every other live body as it was.                             *)
(***************************************************************************)
EXTENDS Integers

VARIABLE live   \* body address -> usable size

Overlap(a, m, b, n) == a < b + n /\ b < a + m
Disjoint(l) == \A a, b \in DOMAIN l : a # b => ~Overlap(a, l[a], b, l[b])

\* The actions relate the live map l before a step to l2 after it.
\* every live body but d keeps its address and size
OthersKept(l, l2, d) == \A e \in DOMAIN l \ {d} : e \in DOMAIN l2 /\ l2[e] = l[e]

\* alloc, align, resize of NULL: one new body
Get(l, l2) == \E d \in DOMAIN l2 \ DOMAIN l :
                DOMAIN l2 = DOMAIN l \cup {d} /\ OthersKept(l, l2, d)

\* free, resize to 0: one body taken back
Put(l, l2) == \E d \in DOMAIN l :
                DOMAIN l2 = DOMAIN l \ {d} /\ OthersKept(l, l2, d)

\* resize in place: one body changes size
Change(l, l2) == \E d \in DOMAIN l :
                   DOMAIN l2 = DOMAIN l /\ OthersKept(l, l2, d)

\* a moving resize: one body replaced by another
Move(l, l2) == \E d \in DOMAIN l, e \in DOMAIN l2 \ DOMAIN l :
                 DOMAIN l2 = (DOMAIN l \ {d}) \cup {e} /\ OthersKept(l, l2, d)

Step(l, l2) == (Get(l, l2) \/ Put(l, l2) \/ Change(l, l2) \/ Move(l, l2)) /\ Disjoint(l2)

Init == live = [x \in {} |-> 0]

Next == Step(live, live')

Spec == Init /\ [][Next]_live
=============================================================================
