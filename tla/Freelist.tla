------------------------------ MODULE Freelist ------------------------------
(***************************************************************************)
(* The free list of the 32-bit guest address space: allocations at an      *)
(* address or anywhere, and deallocations of any region, allocated or not, *)
(* as munmap gives them.  A node is the pair of the first and the last     *)
(* page of a free region; the list holds the nodes in the order of the     *)
(* code's next pointers.  Addresses and sizes are whole pages, and an      *)
(* address is a u32: adding 1 to LastPage gives 0.  An allocation is one   *)
(* step; deallocate walks over the list a node at a time and consolidate   *)
(* merges a pair of nodes at a time.                                       *)
(***************************************************************************)
EXTENDS Integers, Sequences

CONSTANTS MinPage,  \* mmap_min_addr()
          LastPage, \* the page of UINT32_MAX
          TopPage,  \* no page above this one is asked for
          MaxSize   \* bound on the size of a region

\* Address 0 means anywhere, and a region at the very top is out of the list's
\* reach: end + 1 of its node is 0, and deallocate finds no node behind it.
ASSUME PagesAssumption ==
    /\ MinPage \in Nat \ {0} /\ LastPage \in Nat
    /\ TopPage \in MinPage .. LastPage - 1
    /\ MaxSize \in Nat

VARIABLES list,   \* Freelist::list
          call,   \* the last call and its arguments
          res,    \* what the last allocation returned
          pc,     \* "idle", or in which loop deallocate is: "walk", "merge"
          new,    \* new_start and new_end of deallocate
          current \* the place in the list that deallocate looks at

vars == <<list, call, res, pc, new, current>>

ENOMEM == -12

Node(start, last) == [start |-> start, last |-> last]

\* A new node before the i-th, and the i-th node deleted.
InsertAt(nodes, i, node) == SubSeq(nodes, 1, i - 1) \o <<node>> \o SubSeq(nodes, i, Len(nodes))
RemoveAt(nodes, i) == SubSeq(nodes, 1, i - 1) \o SubSeq(nodes, i + 1, Len(nodes))

\* current->end + 1 and cur_size, in 32 bits.
Past(node) == (node.last + 1) % (LastPage + 1)
Size(node) == (Past(node) - node.start) % (LastPage + 1)

Holds(node, part) == part.start >= node.start /\ part.last <= node.last

\* The free pages a list stands for.
Free(nodes) == UNION {nodes[i].start .. nodes[i].last : i \in DOMAIN nodes}

\* Freelist::Freelist
Init ==
    /\ list = <<Node(MinPage, LastPage)>>
    /\ call = <<"new">> /\ res = ENOMEM
    /\ pc = "idle" /\ new = Node(MinPage, MinPage) /\ current = 1     \* no call

-----------------------------------------------------------------------------
(* Freelist::allocate                                                      *)

\* The first node that the pages lie in.
FirstHolding(part, i) == Holds(list[i], part) /\ \A j \in 1 .. i - 1 : ~Holds(list[j], part)

\* A slip: the part of the node behind the allocated pages is lost.
BreakOffEnd(part, i) ==
    IF part.start = list[i].start THEN RemoveAt(list, i)
    ELSE [list EXCEPT ![i] = Node(list[i].start, part.start - 1)]

\* The list without pages that lie in its i-th node.
BreakOff(part, i) ==
    LET low == Node(list[i].start, part.start - 1)
        high == Node(part.last + 1, list[i].last)
    IN  IF part = list[i] THEN RemoveAt(list, i)
        ELSE IF part.last = list[i].last THEN [list EXCEPT ![i] = low]
        ELSE IF part.start = list[i].start THEN [list EXCEPT ![i] = high]
        ELSE InsertAt([list EXCEPT ![i] = low], i + 1, high)

\* allocate for an address that is not 0.
Allocate(part) ==
    \/ \E i \in DOMAIN list :
           /\ FirstHolding(part, i)
           /\ list' = BreakOff(part, i) /\ res' = part.start
    \/ /\ \A i \in DOMAIN list : ~Holds(list[i], part)
       /\ list' = list /\ res' = ENOMEM

\* The first of the largest nodes with room for n pages.
Best(n, i) ==
    /\ Size(list[i]) >= n
    /\ \A j \in DOMAIN list : Size(list[j]) <= Size(list[i]) /\ (j < i => Size(list[j]) < Size(list[i]))

AllocateFixed(a, n) ==
    /\ pc = "idle"
    /\ call' = <<"at", a, n>>
    /\ Allocate(Node(a, a + n - 1))
    /\ UNCHANGED <<pc, new, current>>

\* A result above TopPage is left out.
AllocateAny(n) ==
    /\ pc = "idle"
    /\ call' = <<"any", n>>
    /\ \/ \E i \in DOMAIN list :
              /\ Best(n, i) /\ list[i].start + n - 1 <= TopPage
              /\ Allocate(Node(list[i].start, list[i].start + n - 1))
       \/ /\ \A i \in DOMAIN list : Size(list[i]) < n
          /\ list' = list /\ res' = ENOMEM
    /\ UNCHANGED <<pc, new, current>>

-----------------------------------------------------------------------------
(* Freelist::deallocate                                                    *)

Deallocate(a, n) ==
    /\ pc = "idle"
    /\ call' = <<"dealloc", a, n>>
    /\ pc' = "walk" /\ new' = Node(a, a + n - 1) /\ current' = 1
    /\ UNCHANGED <<list, res>>

\* The locals are gone when deallocate returns.
Return == pc' = "idle" /\ new' = Node(MinPage, MinPage) /\ current' = 1

\* Entirely contained in an existing node: the call returns.
Contained ==
    /\ pc = "walk" /\ current <= Len(list)
    /\ Holds(list[current], new)
    /\ Return
    /\ UNCHANGED <<list, call, res>>

\* The new node goes before each node that does not start below it.
Visit ==
    /\ pc = "walk" /\ current <= Len(list)
    /\ ~Holds(list[current], new)
    /\ IF list[current].start >= new.start
       THEN list' = InsertAt(list, current, new) /\ current' = current + 2
       ELSE list' = list /\ current' = current + 1
    /\ UNCHANGED <<call, res, pc, new>>

WalkEnd ==
    /\ pc = "walk" /\ current > Len(list)
    /\ pc' = "merge"
    /\ UNCHANGED <<list, call, res, new, current>>

-----------------------------------------------------------------------------
(* Freelist::consolidate: the first pair of neighbours that touch becomes  *)
(* one node, until there is none.                                          *)

\* A slip: nodes that touch without overlapping are left apart.
Overlap(i) == i < Len(list) /\ list[i].last >= list[i + 1].start

Touch(i) == i < Len(list) /\ Past(list[i]) >= list[i + 1].start

Joined(i) == Node(list[i].start, IF list[i].last >= list[i + 1].last THEN list[i].last ELSE list[i + 1].last)

Merged(i) == RemoveAt([list EXCEPT ![i] = Joined(i)], i + 1)

Merge ==
    /\ pc = "merge"
    /\ \E i \in DOMAIN list :
           /\ Touch(i) /\ \A j \in 1 .. i - 1 : ~Touch(j)
           /\ list' = Merged(i)
    /\ UNCHANGED <<call, res, pc, new, current>>

Consolidated ==
    /\ pc = "merge"
    /\ \A i \in DOMAIN list : ~Touch(i)
    /\ Return
    /\ UNCHANGED <<list, call, res>>

-----------------------------------------------------------------------------

Next ==
    \/ \E n \in 1 .. MaxSize :
           \/ AllocateAny(n)
           \/ \E a \in MinPage .. TopPage - n + 1 : AllocateFixed(a, n) \/ Deallocate(a, n)
    \/ Contained \/ Visit \/ WalkEnd \/ Merge \/ Consolidated

Spec == Init /\ [][Next]_vars

-----------------------------------------------------------------------------
(* Properties. *)

\* Between calls the nodes are in order and neither touch nor overlap, so that a
\* free region lies in one node: allocate only ever looks into single nodes, and
\* deallocate, which inserts the new node many times, relies on it to end up with
\* one.
Normal ==
    pc = "idle" => \A i, j \in DOMAIN list : i < j => list[i].last + 1 < list[j].start

\* The list does what a set of free pages would: allocate takes exactly the
\* pages it returns and fails only when no region fits, deallocate gives back
\* exactly the region it is called with.  The region counts as free from the
\* call on: nobody looks before deallocate has returned.
Returning == IF pc = "idle" THEN {} ELSE new.start .. new.last
Abstract == INSTANCE FreePages WITH free <- Free(list) \cup Returning, Failed <- ENOMEM
Refines == Abstract!Spec

=============================================================================
