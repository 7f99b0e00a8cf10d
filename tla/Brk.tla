-------------------------------- MODULE Brk --------------------------------
(***************************************************************************)
(* BRK (hle/brk.cpp): the heap of the guest that brk(2) moves.  When a     *)
(* program is loaded felix86 reserves the largest heap there may be, makes *)
(* the first part of it usable, and doubles that part when the break moves *)
(* past its end.  `owner` says what each address belongs to.  BRK::set has *)
(* no lock: the store of the new break, the look at the size and the       *)
(* mapping of more are steps of their own.                                 *)
(***************************************************************************)
EXTENDS Integers, FiniteSets

CONSTANTS
    Page, Top,          \* the size of a page and the number of addresses
    Callers,            \* the threads that call brk
    FirstSize,          \* BRK::size32 or BRK::size64
    Limits,             \* values of g_config.max_brk_size, or what is taken if it is zero
    Hints,              \* values of g_config.brk_base, or g_program_end
    Breaks,             \* what the guest asks for
    Images              \* the sets of pages that are in use when the heap is allocated

ASSUME PageAssumption == Page \in Nat \ {0} /\ Top \in Nat
ASSUME SizesAssumption == FirstSize \in Nat \ {0} /\ Limits \subseteq Nat \ {0} /\ Hints \subseteq Nat /\ Breaks \subseteq Nat

VARIABLES
    phase,              \* "loading", "running" or, after ERROR or ASSERT, "stopped"
    owner,              \* address -> "free", "reserve", "heap" or "other"
    g_initial_brk, g_current_brk, g_current_brk_size, g_max_brk_size,
    place,               \* where each thread is in BRK::set
    plan,               \* what it has computed: the end of the heap and the new size
    beyond,             \* whether a break beyond the reserve was asked for
    overlapped          \* whether two threads were in BRK::set at once

heapVars == <<phase, owner, g_initial_brk, g_current_brk, g_current_brk_size, g_max_brk_size, place, plan, beyond, overlapped>>

Addresses == 0..(Top - 1)
Round(n) == ((n + Page - 1) \div Page) * Page
Span(a, n) == a..(a + Round(n) - 1)
Aligned(a) == a % Page = 0

\* mmap with MAP_FIXED, and whether MAP_FIXED_NOREPLACE would succeed.
Mapped(m, a, n, who) == [x \in Addresses |-> IF x \in Span(a, n) THEN who ELSE m[x]]
Unused(a, n) == Span(a, n) \subseteq {x \in Addresses : owner[x] = "free"}

HeapInit ==
    /\ phase = "loading"
    /\ \E image \in Images : owner = [x \in Addresses |-> IF x \div Page \in image THEN "other" ELSE "free"]
    /\ g_initial_brk = 0 /\ g_current_brk = 0 /\ g_current_brk_size = 0 /\ g_max_brk_size = 0
    /\ place = [t \in Callers |-> "outside"] /\ plan = [t \in Callers |-> <<0, 0>>]
    /\ beyond = FALSE /\ overlapped = FALSE

-----------------------------------------------------------------------------
(* BRK::allocate: at the hint if nothing is there, anywhere otherwise.     *)

Chosen(hint, max, base) ==
    /\ Aligned(base) /\ Unused(base, max)
    /\ LET wanted == hint - (hint % Page)
       IN  base # wanted => ~Unused(wanted, max)

allocate(hint, max, base) ==
    /\ phase = "loading"
    /\ Chosen(hint, max, base)
    /\ LET first == IF max < FirstSize THEN max ELSE FirstSize
       IN  /\ owner' = Mapped(Mapped(owner, base, max, "reserve"), base, first, "heap")
           /\ g_current_brk_size' = first
    /\ g_initial_brk' = base /\ g_current_brk' = base /\ g_max_brk_size' = max
    /\ phase' = "running"
    /\ UNCHANGED <<place, plan, beyond, overlapped>>

NoRoom(max) ==
    /\ phase = "loading"
    /\ ~\E base \in Addresses : Aligned(base) /\ Unused(base, max)
    /\ phase' = "stopped"
    /\ UNCHANGED <<owner, g_initial_brk, g_current_brk, g_current_brk_size, g_max_brk_size, place, plan, beyond, overlapped>>

-----------------------------------------------------------------------------
(* BRK::set.                                                               *)

\* Zero asks for the break.
Store(t, new_brk) ==
    /\ phase = "running" /\ place[t] = "outside"
    /\ g_current_brk' = IF new_brk = 0 THEN g_current_brk ELSE new_brk
    /\ place' = [place EXCEPT ![t] = "inside"]
    /\ beyond' = (beyond \/ new_brk > g_initial_brk + g_max_brk_size)
    /\ overlapped' = (overlapped \/ \E u \in Callers : place[u] # "outside")
    /\ UNCHANGED <<phase, owner, g_initial_brk, g_current_brk_size, g_max_brk_size, plan>>

Enough(t) ==
    /\ phase = "running" /\ place[t] = "inside"
    /\ g_current_brk <= g_initial_brk + g_current_brk_size
    /\ place' = [place EXCEPT ![t] = "outside"]
    /\ UNCHANGED <<phase, owner, g_initial_brk, g_current_brk, g_current_brk_size, g_max_brk_size, plan, beyond, overlapped>>

\* A slip: the usable part is doubled once, however far the break has moved.
DoubledOnce == g_current_brk_size * 2
\* A slip: the size is not limited.
Unlimited == (g_current_brk - g_initial_brk) * 2

NewSize ==
    LET new_size == (g_current_brk - g_initial_brk) * 2
    IN  IF g_current_brk_size < g_max_brk_size /\ new_size > g_max_brk_size THEN g_max_brk_size ELSE new_size

\* The end of what is usable has to be the end of a page.
Plan(t) ==
    LET end_brk == g_initial_brk + g_current_brk_size
    IN  /\ phase = "running" /\ place[t] = "inside"
        /\ g_current_brk > end_brk
        /\ IF Aligned(end_brk)
           THEN place' = [place EXCEPT ![t] = "growing"] /\ plan' = [plan EXCEPT ![t] = <<end_brk, NewSize>>] /\ UNCHANGED phase
           ELSE phase' = "stopped" /\ UNCHANGED <<place, plan>>
        /\ UNCHANGED <<owner, g_initial_brk, g_current_brk, g_current_brk_size, g_max_brk_size, beyond, overlapped>>

Past(t) == g_initial_brk + plan[t][2] - plan[t][1]      \* size_past_end

Grow(t) ==
    /\ phase = "running" /\ place[t] = "growing"
    /\ IF Span(plan[t][1], Past(t)) \subseteq Addresses
       THEN /\ owner' = Mapped(owner, plan[t][1], Past(t), "heap")
            /\ g_current_brk_size' = plan[t][2]
            /\ place' = [place EXCEPT ![t] = "outside"]
            /\ UNCHANGED phase
       ELSE phase' = "stopped" /\ UNCHANGED <<owner, g_current_brk_size, place>>
    /\ UNCHANGED <<g_initial_brk, g_current_brk, g_max_brk_size, plan, beyond, overlapped>>

-----------------------------------------------------------------------------
(* Other mappings come and go: mmap never chooses what is taken.           *)

MapOther(page) ==
    /\ phase = "running"
    /\ Unused(page * Page, Page)
    /\ owner' = Mapped(owner, page * Page, Page, "other")
    /\ UNCHANGED <<phase, g_initial_brk, g_current_brk, g_current_brk_size, g_max_brk_size, place, plan, beyond, overlapped>>

UnmapOther(page) ==
    /\ phase = "running"
    /\ Span(page * Page, Page) \subseteq {x \in Addresses : owner[x] = "other"}
    /\ owner' = Mapped(owner, page * Page, Page, "free")
    /\ UNCHANGED <<phase, g_initial_brk, g_current_brk, g_current_brk_size, g_max_brk_size, place, plan, beyond, overlapped>>

HeapNext ==
    \/ \E hint \in Hints, max \in Limits, base \in Addresses : allocate(hint, max, base)
    \/ \E max \in Limits : NoRoom(max)
    \/ \E t \in Callers :
        \/ \E new_brk \in Breaks : Store(t, new_brk)
        \/ Enough(t)
        \/ Plan(t)
        \/ Grow(t)
    \/ \E page \in 0..(Top \div Page) : MapOther(page) \/ UnmapOther(page)

HeapSpec == HeapInit /\ [][HeapNext]_heapVars

-----------------------------------------------------------------------------
\* brk(2) succeeds for every argument, so that whatever lies between the start
\* of the heap and the break has to be usable when no call is under way, as far
\* as the reserve goes: BRK::set doubles what is usable at the right moments,
\* and nothing else takes a part of it.
HeapInPlace ==
    (phase = "running" /\ ~overlapped /\ \A t \in Callers : place[t] = "outside")
        => \A x \in Addresses : g_initial_brk <= x /\ x < g_current_brk /\ x < g_initial_brk + g_max_brk_size => owner[x] = "heap"

\* What BRK::set is about to map with MAP_FIXED replaces a part of the reserve
\* and nothing else, neither the contents of the heap nor another mapping, as
\* long as nobody asks for more than the reserve and calls do not overlap.
GrowsIntoReserve ==
    \A t \in Callers : place[t] = "growing" /\ ~beyond /\ ~overlapped
        => \A x \in Span(plan[t][1], Past(t)) : x \in Addresses /\ owner[x] = "reserve"
=============================================================================
