------------------------------ MODULE FreePages ------------------------------
(***************************************************************************)
(* What a free list promises: a set of free pages, from which regions are  *)
(* taken and to which they are given back.                                 *)
(***************************************************************************)
EXTENDS Integers

CONSTANTS MinPage, LastPage, MaxSize, Failed

VARIABLES free,  \* the pages that are free
          call,  \* the last operation and its arguments
          res    \* what the last allocation returned

Region(a, n) == a .. a + n - 1

Init == free = MinPage .. LastPage /\ call = <<"new">> /\ res = Failed

\* Take the region from a on if all of it is free.
AllocateAt(a, n) ==
    /\ call' = <<"at", a, n>>
    /\ IF Region(a, n) \subseteq free
       THEN free' = free \ Region(a, n) /\ res' = a
       ELSE free' = free /\ res' = Failed

\* Take any free region of n pages; fail only if there is none.
Allocate(n) ==
    /\ call' = <<"any", n>>
    /\ \/ \E a \in MinPage .. LastPage :
            /\ Region(a, n) \subseteq free
            /\ free' = free \ Region(a, n)
            /\ res' = a
       \/ /\ \A a \in MinPage .. LastPage : ~(Region(a, n) \subseteq free)
          /\ free' = free
          /\ res' = Failed

\* Give a region back, whatever part of it was taken.
Deallocate(a, n) ==
    /\ call' = <<"dealloc", a, n>>
    /\ free' = free \cup Region(a, n)
    /\ UNCHANGED res

Next ==
    \E n \in 1 .. MaxSize :
        \/ Allocate(n)
        \/ \E a \in MinPage .. LastPage - n + 1 : AllocateAt(a, n) \/ Deallocate(a, n)

Spec == Init /\ [][Next]_<<free, call, res>>

==============================================================================
