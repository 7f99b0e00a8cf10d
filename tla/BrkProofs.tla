----------------------------- MODULE BrkProofs -----------------------------
(***************************************************************************)
(* The guest's heap stays where it was put and whole, for any sizes and    *)
(* any number of threads, as long as their calls of brk do not overlap.    *)
(***************************************************************************)
EXTENDS Brk, TLAPS

Owners == {"free", "reserve", "heap", "other"}

\* The values of the variables.
HeapTypeOK ==
    /\ phase \in {"loading", "running", "stopped"}
    /\ owner \in [Addresses -> Owners]
    /\ g_initial_brk \in Nat /\ g_current_brk \in Nat /\ g_current_brk_size \in Nat /\ g_max_brk_size \in Nat
    /\ place \in [Callers -> {"outside", "inside", "growing"}]
    /\ plan \in [Callers -> Nat \X Nat]
    /\ beyond \in BOOLEAN /\ overlapped \in BOOLEAN

\* The pages up to the usable size are the guest's, and when nobody has asked for
\* more than the reserve, the pages behind them are still reserved.
HeapOwned ==
    /\ Aligned(g_initial_brk)
    /\ \A x \in Addresses :
           g_initial_brk <= x /\ x < g_initial_brk + Round(g_current_brk_size) => owner[x] = "heap"
    /\ ~beyond => /\ g_current_brk_size <= g_max_brk_size
                  /\ g_current_brk <= g_initial_brk + g_max_brk_size
                  /\ Span(g_initial_brk, g_max_brk_size) \subseteq Addresses
                  /\ \A x \in Addresses :
                         g_initial_brk + Round(g_current_brk_size) <= x /\ x < g_initial_brk + Round(g_max_brk_size)
                             => owner[x] = "reserve"

\* What a thread has computed is still right when it maps more of the heap, and the
\* break is within the usable part between calls, or all of the reserve is usable.
PlansCurrent ==
    /\ \A t, u \in Callers : place[t] # "outside" /\ place[u] # "outside" => t = u
    /\ \A t \in Callers : place[t] = "growing" =>
           /\ plan[t] = <<g_initial_brk + g_current_brk_size, NewSize>>
           /\ g_current_brk > g_initial_brk + g_current_brk_size
           /\ Aligned(g_initial_brk + g_current_brk_size)
    /\ (\A t \in Callers : place[t] = "outside") =>
           g_current_brk <= g_initial_brk + g_current_brk_size \/ g_current_brk_size >= g_max_brk_size

\* The inductive invariant.  It speaks of calls that do not overlap: BRK::set has no lock.
HeapInv ==
    /\ HeapTypeOK
    /\ phase = "loading" => \A t \in Callers : place[t] = "outside"
    /\ phase = "stopped" /\ ~beyond /\ ~overlapped => \A t \in Callers : place[t] # "growing"
    /\ phase = "running" /\ ~overlapped => HeapOwned /\ PlansCurrent

-----------------------------------------------------------------------------
(* Rounding up to whole pages.                                             *)

\* What division by the size of a page gives.
LEMMA Division ==
    ASSUME NEW n \in Nat
    PROVE  /\ n \div Page \in Nat
           /\ (n \div Page) * Page <= n
           /\ n < (n \div Page) * Page + Page
           /\ n % Page = n - (n \div Page) * Page
  BY PageAssumption, Z3

\* Multiples of the size of a page are ordered like their factors.
LEMMA Factors ==
    ASSUME NEW a \in Int, NEW b \in Int, a * Page < b * Page + Page
    PROVE  a <= b
<1>1. Page \in Nat /\ Page > 0
  BY PageAssumption
<1>2. ASSUME a > b PROVE FALSE
  <2>1. PICK d \in Nat : a = b + 1 + d
    BY <1>2
  <2>2. a * Page = b * Page + Page + d * Page
    BY <1>1, <2>1
  <2>3. d * Page >= 0
    BY <1>1, <2>1
  <2> QED
    BY <1>1, <2>2, <2>3
<1> QED
  BY <1>2

\* Larger factors give larger multiples of the size of a page.
LEMMA FactorsOrdered ==
    ASSUME NEW a \in Int, NEW b \in Int, a <= b
    PROVE  a * Page <= b * Page
<1>1. Page \in Nat /\ Page > 0
  BY PageAssumption
<1>2. PICK d \in Nat : b = a + d
  BY b - a \in Nat
<1>3. b * Page = a * Page + d * Page
  BY <1>1, <1>2
<1>4. d * Page >= 0
  BY <1>1, <1>2
<1> QED
  BY <1>1, <1>3, <1>4

\* A size is rounded up, to whole pages, by less than a page.
LEMMA Rounds ==
    ASSUME NEW n \in Nat
    PROVE  /\ Round(n) \in Nat
           /\ n <= Round(n)
           /\ Round(n) < n + Page
           /\ \E q \in Nat : Round(n) = q * Page
<1> DEFINE q == (n + Page - 1) \div Page
<1>1. Page \in Nat /\ Page > 0 /\ n + Page - 1 \in Nat
  BY PageAssumption
<1>2. q \in Nat /\ q * Page <= n + Page - 1 /\ n + Page - 1 < q * Page + Page
  BY <1>1, Division
<1>3. Round(n) = q * Page
  BY DEF Round
<1> HIDE DEF q
<1>4. q * Page \in Nat
  BY <1>1, <1>2
<1> QED
  BY <1>1, <1>2, <1>3, <1>4

\* The whole pages between n and n + Page are the rounded size.
LEMMA RoundIs ==
    ASSUME NEW n \in Nat, NEW q \in Nat, n <= q * Page, q * Page < n + Page
    PROVE  Round(n) = q * Page
<1>1. Page \in Nat /\ Page > 0
  BY PageAssumption
<1>2. PICK p \in Nat : Round(n) = p * Page
  BY Rounds
<1>3. p * Page \in Nat /\ q * Page \in Nat
  BY <1>1
<1>4. n <= p * Page /\ p * Page < n + Page
  BY <1>2, Rounds
<1>5. p * Page < q * Page + Page /\ q * Page < p * Page + Page
  BY <1>1, <1>3, <1>4
<1>6. p <= q /\ q <= p
  BY <1>5, Factors
<1> QED
  BY <1>2, <1>6

\* A larger size is not rounded to less.
LEMMA RoundGrows ==
    ASSUME NEW m \in Nat, NEW n \in Nat, m <= n
    PROVE  Round(m) <= Round(n)
<1>1. Page \in Nat /\ Page > 0
  BY PageAssumption
<1>2. PICK p \in Nat : Round(m) = p * Page
  BY Rounds
<1>3. PICK q \in Nat : Round(n) = q * Page
  BY Rounds
<1>4. p * Page \in Nat /\ q * Page \in Nat
  BY <1>1
<1>5. p * Page < m + Page /\ n <= q * Page
  BY <1>2, <1>3, Rounds
<1>6. p * Page < q * Page + Page
  BY <1>1, <1>4, <1>5
<1>7. p <= q
  BY <1>6, Factors
<1> QED
  BY <1>2, <1>3, <1>7, FactorsOrdered

\* The end of a page is a multiple of the size of a page.
LEMMA AlignedIs ==
    ASSUME NEW a \in Nat, Aligned(a)
    PROVE  \E p \in Nat : a = p * Page
<1> DEFINE p == a \div Page
<1>1. p \in Nat /\ a % Page = a - p * Page
  BY Division
<1>2. a % Page = 0
  BY DEF Aligned
<1> HIDE DEF p
<1>3. a = p * Page
  BY <1>1, <1>2, PageAssumption
<1> QED
  BY <1>1, <1>3

\* What starts at the end of a page is rounded by itself.
LEMMA RoundFrom ==
    ASSUME NEW a \in Nat, NEW n \in Nat, a % Page = 0
    PROVE  Round(a + n) = a + Round(n)
<1>1. Page \in Nat /\ Page > 0
  BY PageAssumption
<1>2. PICK p \in Nat : a = p * Page
  BY <1>1, Division
<1>3. PICK q \in Nat : Round(n) = q * Page
  BY Rounds
<1>4. p * Page \in Nat /\ q * Page \in Nat /\ p + q \in Nat
  BY <1>1
<1>5. (p + q) * Page = p * Page + q * Page
  BY <1>1
<1>6. n <= q * Page /\ q * Page < n + Page
  BY <1>3, Rounds
<1>7. a + n <= (p + q) * Page /\ (p + q) * Page < a + n + Page
  BY <1>1, <1>2, <1>4, <1>5, <1>6
<1>8. Round(a + n) = (p + q) * Page
  BY <1>4, <1>7, RoundIs
<1> QED
  BY <1>2, <1>3, <1>5, <1>8

\* The distance between two ends of pages is whole pages.
LEMMA WholePages ==
    ASSUME NEW a \in Nat, NEW n \in Nat, Aligned(a), Aligned(a + n)
    PROVE  n % Page = 0
<1>1. Page \in Nat /\ Page > 0
  BY PageAssumption
<1>2. PICK p \in Nat : a = p * Page
  BY AlignedIs
<1>3. PICK q \in Nat : a + n = q * Page
  <2>1. a + n \in Nat
    OBVIOUS
  <2> QED
    BY <2>1, AlignedIs
<1>4. PICK r \in Nat : r * Page <= n /\ n < r * Page + Page /\ n % Page = n - r * Page
  BY Division
<1>5. p * Page \in Nat /\ q * Page \in Nat /\ r * Page \in Nat /\ p + r \in Nat
  BY <1>1
<1>6. (p + r) * Page = p * Page + r * Page
  BY <1>1
<1>7. q * Page < (p + r) * Page + Page /\ (p + r) * Page < q * Page + Page
  BY <1>1, <1>2, <1>3, <1>4, <1>5, <1>6
<1>8. q <= p + r /\ p + r <= q
  BY <1>5, <1>7, Factors
<1>9. q = p + r
  BY <1>5, <1>8
<1> QED
  BY <1>2, <1>3, <1>4, <1>5, <1>6, <1>9

-----------------------------------------------------------------------------
(* Mapping changes what belongs to the mapped pages and nothing else.      *)

\* mmap with MAP_FIXED gives the pages to the new owner and leaves the others.
LEMMA MappedOwners ==
    ASSUME NEW m \in [Addresses -> Owners], NEW a, NEW n, NEW who \in Owners
    PROVE  /\ Mapped(m, a, n, who) \in [Addresses -> Owners]
           /\ \A x \in Addresses : x \in Span(a, n) => Mapped(m, a, n, who)[x] = who
           /\ \A x \in Addresses : x \notin Span(a, n) => Mapped(m, a, n, who)[x] = m[x]
  BY DEF Mapped

-----------------------------------------------------------------------------
(* The steps.                                                              *)

\* Before the program is loaded there is no heap and nobody calls brk.
LEMMA HeapInitially == HeapInit => HeapInv
<1> SUFFICES ASSUME HeapInit PROVE HeapInv
  OBVIOUS
<1>1. owner \in [Addresses -> Owners]
  BY DEF HeapInit, Owners
<1>2. plan \in [Callers -> Nat \X Nat] /\ place \in [Callers -> {"outside", "inside", "growing"}]
  BY DEF HeapInit
<1> QED
  BY <1>1, <1>2 DEF HeapInit, HeapInv, HeapTypeOK

\* BRK::allocate reserves the largest heap and makes the first part of it usable.
LEMMA allocateStep ==
    ASSUME HeapInv, NEW hint \in Hints, NEW max \in Limits, NEW base \in Addresses, allocate(hint, max, base)
    PROVE  HeapInv'
<1> DEFINE first == IF max < FirstSize THEN max ELSE FirstSize
<1> DEFINE reserved == Mapped(owner, base, max, "reserve")
<1>1. max \in Nat /\ base \in Nat /\ first \in Nat /\ first <= max
  BY SizesAssumption, PageAssumption DEF Addresses
<1>2. owner' = Mapped(reserved, base, first, "heap") /\ g_current_brk_size' = first
  BY DEF allocate
<1>3. /\ g_initial_brk' = base /\ g_current_brk' = base /\ g_max_brk_size' = max /\ phase' = "running"
      /\ place' = place /\ plan' = plan /\ beyond' = beyond /\ overlapped' = overlapped
      /\ \A t \in Callers : place[t] = "outside"
      /\ Aligned(base) /\ Span(base, max) \subseteq Addresses
  BY DEF allocate, HeapInv, Chosen, Unused
<1> HIDE DEF first
<1>4. /\ reserved \in [Addresses -> Owners]
      /\ \A x \in Addresses : x \in Span(base, max) => reserved[x] = "reserve"
  BY MappedOwners DEF HeapInv, HeapTypeOK, Owners
<1> HIDE DEF reserved
<1>5. /\ owner' \in [Addresses -> Owners]
      /\ \A x \in Addresses : x \in Span(base, first) => owner'[x] = "heap"
      /\ \A x \in Addresses : x \notin Span(base, first) => owner'[x] = reserved[x]
  BY <1>2, <1>4, MappedOwners DEF Owners
<1>6. Round(first) \in Nat /\ Round(max) \in Nat
  BY <1>1, Rounds
<1>7. HeapTypeOK'
  BY <1>1, <1>2, <1>3, <1>5 DEF HeapInv, HeapTypeOK
<1>8. Addresses \subseteq Int
  BY PageAssumption DEF Addresses
<1>9. ASSUME NEW x \in Addresses, base <= x, x < base + Round(first)
      PROVE  owner'[x] = "heap"
  <2>1. x \in Span(base, first)
    BY <1>1, <1>6, <1>8, <1>9 DEF Span
  <2> QED
    BY <1>5, <2>1
<1>10. ASSUME NEW x \in Addresses, base + Round(first) <= x, x < base + Round(max)
       PROVE  owner'[x] = "reserve"
  <2>1. x \in Span(base, max) /\ x \notin Span(base, first)
    BY <1>1, <1>6, <1>8, <1>10 DEF Span
  <2> QED
    BY <1>4, <1>5, <2>1
<1>11. Aligned(base)' = Aligned(base) /\ Round(first)' = Round(first)
  BY <1>3
<1>12. HeapOwned'
  <2>1. base <= base + max
    BY <1>1
  <2> QED
    BY <1>1, <1>2, <1>3, <1>9, <1>10, <2>1 DEF HeapOwned
<1>13. PlansCurrent'
  BY <1>1, <1>2, <1>3 DEF PlansCurrent
<1> QED
  BY <1>3, <1>7, <1>12, <1>13 DEF HeapInv

\* felix86 stops when there is no room for the reserve.
LEMMA NoRoomStep ==
    ASSUME HeapInv, NEW max \in Limits, NoRoom(max)
    PROVE  HeapInv'
  BY DEF HeapInv, HeapTypeOK, NoRoom

\* BRK::set stores the break; from then on the call is under way.
LEMMA StoreStep ==
    ASSUME HeapInv, NEW t \in Callers, NEW new_brk \in Breaks, Store(t, new_brk)
    PROVE  HeapInv'
<1>1. new_brk \in Nat
  BY SizesAssumption
<1>2. HeapTypeOK'
  BY <1>1 DEF HeapInv, HeapTypeOK, Store
<1>3. ASSUME ~overlapped' PROVE HeapOwned' /\ PlansCurrent'
  <2>1. ~overlapped /\ \A u \in Callers : place[u] = "outside"
    BY <1>3 DEF Store
  <2>2. HeapOwned
    BY <2>1 DEF HeapInv, Store
  <2>3. HeapTypeOK
    BY DEF HeapInv
  <2>4. /\ owner' = owner /\ g_initial_brk' = g_initial_brk /\ g_max_brk_size' = g_max_brk_size
        /\ g_current_brk_size' = g_current_brk_size
        /\ g_current_brk' = IF new_brk = 0 THEN g_current_brk ELSE new_brk
        /\ ~beyond' => ~beyond /\ ~(new_brk > g_initial_brk + g_max_brk_size)
    BY DEF Store
  <2>5. ~beyond' => g_current_brk' <= g_initial_brk + g_max_brk_size
    BY <1>1, <2>2, <2>3, <2>4 DEF HeapOwned, HeapTypeOK
  <2>6. HeapOwned'
    BY <2>2, <2>4, <2>5 DEF HeapOwned
  <2>7. place' = [place EXCEPT ![t] = "inside"]
    BY DEF Store
  <2>8. \A u \in Callers : place'[u] = IF u = t THEN "inside" ELSE "outside"
    BY <2>1, <2>3, <2>7 DEF HeapTypeOK
  <2>9. PlansCurrent'
    BY <2>8 DEF PlansCurrent
  <2> QED
    BY <2>6, <2>9
<1> QED
  BY <1>2, <1>3 DEF HeapInv, Store

\* The break is within what is usable, and BRK::set returns.
LEMMA EnoughStep ==
    ASSUME HeapInv, NEW t \in Callers, Enough(t)
    PROVE  HeapInv'
<1>1. HeapTypeOK'
  BY DEF HeapInv, HeapTypeOK, Enough
<1>2. ASSUME ~overlapped' PROVE HeapOwned' /\ PlansCurrent'
  <2>1. HeapOwned /\ PlansCurrent /\ HeapTypeOK
    BY <1>2 DEF HeapInv, Enough
  <2>2. /\ owner' = owner /\ g_initial_brk' = g_initial_brk /\ g_max_brk_size' = g_max_brk_size
        /\ g_current_brk_size' = g_current_brk_size /\ g_current_brk' = g_current_brk
        /\ beyond' = beyond /\ plan' = plan
        /\ g_current_brk <= g_initial_brk + g_current_brk_size
        /\ place' = [place EXCEPT ![t] = "outside"]
    BY DEF Enough
  <2>3. HeapOwned'
    BY <2>1, <2>2 DEF HeapOwned
  <2>4. \A u \in Callers : place'[u] = IF u = t THEN "outside" ELSE place[u]
    BY <2>1, <2>2 DEF HeapTypeOK
  <2>5. NewSize' = NewSize
    BY <2>2 DEF NewSize
  <2>6. PlansCurrent'
    BY <2>1, <2>2, <2>4, <2>5 DEF PlansCurrent
  <2> QED
    BY <2>3, <2>6
<1> QED
  BY <1>1, <1>2 DEF HeapInv, Enough

\* The new size is more than the break needs, or all of the reserve.
LEMMA NewSizes ==
    ASSUME HeapTypeOK, g_current_brk > g_initial_brk + g_current_brk_size
    PROVE  /\ NewSize \in Nat
           /\ g_current_brk <= g_initial_brk + NewSize \/ NewSize >= g_max_brk_size
           /\ NewSize >= g_current_brk_size
           /\ g_current_brk <= g_initial_brk + g_max_brk_size => NewSize <= g_max_brk_size
  BY DEF NewSize, HeapTypeOK

\* BRK::set computes the end of the heap and its new size, or its assertion stops felix86.
LEMMA PlanStep ==
    ASSUME HeapInv, NEW t \in Callers, Plan(t)
    PROVE  HeapInv'
<1> DEFINE end_brk == g_initial_brk + g_current_brk_size
<1>1. HeapTypeOK
  BY DEF HeapInv
<1>2. /\ owner' = owner /\ g_initial_brk' = g_initial_brk /\ g_max_brk_size' = g_max_brk_size
      /\ g_current_brk_size' = g_current_brk_size /\ g_current_brk' = g_current_brk
      /\ beyond' = beyond /\ overlapped' = overlapped
      /\ phase = "running" /\ place[t] = "inside" /\ g_current_brk > end_brk
  BY DEF Plan
<1>3. NewSize \in Nat /\ end_brk \in Nat
  BY <1>1, <1>2, NewSizes DEF HeapTypeOK
<1>4. CASE Aligned(end_brk)
  <2>1. /\ place' = [place EXCEPT ![t] = "growing"]
        /\ plan' = [plan EXCEPT ![t] = <<end_brk, NewSize>>] /\ phase' = phase
    BY <1>4 DEF Plan
  <2> HIDE DEF end_brk
  <2>2. HeapTypeOK'
    BY <1>1, <1>2, <1>3, <2>1 DEF HeapTypeOK
  <2>3. ASSUME ~overlapped PROVE HeapOwned' /\ PlansCurrent'
    <3>1. HeapOwned /\ PlansCurrent
      BY <1>2, <2>3 DEF HeapInv
    <3>2. HeapOwned'
      BY <1>2, <3>1 DEF HeapOwned
    <3>3. \A u \in Callers : place[u] # "outside" => u = t
      BY <1>2, <3>1 DEF PlansCurrent
    <3>4. \A u \in Callers : place'[u] = IF u = t THEN "growing" ELSE "outside"
      BY <1>1, <2>1, <3>3 DEF HeapTypeOK
    <3>5. NewSize' = NewSize
      BY <1>2 DEF NewSize
    <3>6. plan'[t] = <<end_brk, NewSize>>
      BY <1>1, <2>1 DEF HeapTypeOK
    <3>7. PlansCurrent'
      BY <1>2, <1>4, <3>4, <3>5, <3>6 DEF PlansCurrent, end_brk
    <3> QED
      BY <3>2, <3>7
  <2> QED
    BY <1>2, <2>1, <2>2, <2>3 DEF HeapInv
<1>5. CASE ~Aligned(end_brk)
  <2>1. phase' = "stopped" /\ place' = place /\ plan' = plan
    BY <1>5 DEF Plan
  <2>2. HeapTypeOK'
    BY <1>1, <1>2, <2>1 DEF HeapTypeOK
  <2>3. ~overlapped => \A u \in Callers : place[u] # "growing"
    BY <1>2 DEF HeapInv, PlansCurrent
  <2> QED
    BY <1>2, <2>1, <2>2, <2>3 DEF HeapInv
<1> QED
  BY <1>4, <1>5

\* What is mapped to make the heap larger starts where the usable pages end, and
\* ends with the page that the new size ends in.
LEMMA GrownPages ==
    ASSUME HeapTypeOK, Aligned(g_initial_brk), NEW t \in Callers,
           plan[t] = <<g_initial_brk + g_current_brk_size, NewSize>>,
           g_current_brk > g_initial_brk + g_current_brk_size,
           Aligned(g_initial_brk + g_current_brk_size)
    PROVE  /\ Round(g_current_brk_size) \in Nat /\ Round(NewSize) \in Nat
           /\ Round(g_current_brk_size) <= Round(NewSize)
           /\ Span(plan[t][1], Past(t)) =
                  (g_initial_brk + Round(g_current_brk_size))..(g_initial_brk + Round(NewSize) - 1)
<1> DEFINE more == NewSize - g_current_brk_size
<1>1. g_initial_brk \in Nat /\ g_current_brk_size \in Nat /\ NewSize \in Nat /\ NewSize >= g_current_brk_size
  BY NewSizes DEF HeapTypeOK
<1>2. more \in Nat /\ g_current_brk_size + more = NewSize
  BY <1>1
<1>3. Past(t) = more /\ plan[t][1] = g_initial_brk + g_current_brk_size
  BY <1>1 DEF Past
<1> HIDE DEF more
<1>4. g_current_brk_size % Page = 0
  BY <1>1, WholePages
<1>5. Round(NewSize) = g_current_brk_size + Round(more)
  BY <1>1, <1>2, <1>4, RoundFrom
<1>6. Round(0) = 0
  <2>1. Page \in Nat /\ Page > 0 /\ 0 * Page = 0
    BY PageAssumption
  <2> QED
    BY <2>1, RoundIs
<1>7. Round(g_current_brk_size) = g_current_brk_size
  <2>1. Round(g_current_brk_size + 0) = g_current_brk_size + Round(0)
    BY <1>1, <1>4, RoundFrom
  <2> QED
    BY <1>1, <1>6, <2>1
<1>8. Round(more) \in Nat
  BY <1>2, Rounds
<1>9. g_initial_brk + g_current_brk_size + Round(more) - 1 = g_initial_brk + Round(NewSize) - 1
  BY <1>1, <1>5, <1>8
<1>10. Span(plan[t][1], Past(t)) = (g_initial_brk + g_current_brk_size)..(g_initial_brk + g_current_brk_size + Round(more) - 1)
  BY <1>3 DEF Span
<1> QED
  BY <1>1, <1>5, <1>7, <1>8, <1>9, <1>10

\* BRK::set maps the pages up to the new size, or stops felix86 when it cannot.
LEMMA GrowStep ==
    ASSUME HeapInv, NEW t \in Callers, Grow(t)
    PROVE  HeapInv'
<1> DEFINE pages == Span(plan[t][1], Past(t))
<1>1. HeapTypeOK
  BY DEF HeapInv
<1>2. /\ g_initial_brk' = g_initial_brk /\ g_max_brk_size' = g_max_brk_size /\ g_current_brk' = g_current_brk
      /\ beyond' = beyond /\ overlapped' = overlapped /\ plan' = plan
      /\ phase = "running" /\ place[t] = "growing"
  BY DEF Grow
<1>3. ASSUME ~overlapped
      PROVE  /\ HeapOwned /\ PlansCurrent
             /\ plan[t] = <<g_initial_brk + g_current_brk_size, NewSize>>
             /\ g_current_brk > g_initial_brk + g_current_brk_size
             /\ Aligned(g_initial_brk + g_current_brk_size)
             /\ Aligned(g_initial_brk)
  BY <1>2, <1>3 DEF HeapInv, HeapOwned, PlansCurrent
<1>4. ASSUME ~overlapped
      PROVE  /\ Round(g_current_brk_size) \in Nat /\ Round(NewSize) \in Nat
             /\ Round(g_current_brk_size) <= Round(NewSize)
             /\ pages = (g_initial_brk + Round(g_current_brk_size))..(g_initial_brk + Round(NewSize) - 1)
  BY <1>1, <1>3, <1>4, GrownPages
<1>5. ASSUME ~overlapped
      PROVE  /\ NewSize \in Nat
             /\ g_current_brk <= g_initial_brk + NewSize \/ NewSize >= g_max_brk_size
             /\ g_current_brk <= g_initial_brk + g_max_brk_size => NewSize <= g_max_brk_size
  BY <1>1, <1>3, <1>5, NewSizes
<1>6. ASSUME ~overlapped, ~beyond
      PROVE  /\ NewSize <= g_max_brk_size
             /\ Round(g_max_brk_size) \in Nat /\ Round(NewSize) <= Round(g_max_brk_size)
             /\ Span(g_initial_brk, g_max_brk_size) \subseteq Addresses
  <2>1. g_max_brk_size \in Nat /\ NewSize \in Nat /\ NewSize <= g_max_brk_size
    BY <1>1, <1>3, <1>5, <1>6 DEF HeapTypeOK, HeapOwned
  <2>2. Round(g_max_brk_size) \in Nat /\ Round(NewSize) <= Round(g_max_brk_size)
    BY <2>1, Rounds, RoundGrows
  <2> QED
    BY <1>3, <1>6, <2>1, <2>2 DEF HeapOwned
<1>7. Addresses \subseteq Int /\ g_initial_brk \in Nat
  BY <1>1, PageAssumption DEF Addresses, HeapTypeOK
<1>8. CASE pages \subseteq Addresses
  <2>1. /\ owner' = Mapped(owner, plan[t][1], Past(t), "heap")
        /\ g_current_brk_size' = plan[t][2]
        /\ place' = [place EXCEPT ![t] = "outside"]
        /\ phase' = phase
    BY <1>8 DEF Grow
  <2>2. /\ owner' \in [Addresses -> Owners]
        /\ \A x \in Addresses : x \in pages => owner'[x] = "heap"
        /\ \A x \in Addresses : x \notin pages => owner'[x] = owner[x]
    BY <1>1, <2>1, MappedOwners DEF HeapTypeOK, Owners
  <2> HIDE DEF pages
  <2>3. HeapTypeOK'
    <3>1. plan[t][2] \in Nat
      BY <1>1 DEF HeapTypeOK
    <3> QED
      BY <1>1, <1>2, <2>1, <2>2, <3>1 DEF HeapTypeOK
  <2>4. ASSUME ~overlapped PROVE HeapOwned' /\ PlansCurrent'
    <3>1. g_current_brk_size' = NewSize
      BY <1>3, <2>1, <2>4
    <3>2. ASSUME NEW x \in Addresses, g_initial_brk <= x, x < g_initial_brk + Round(NewSize)
          PROVE  owner'[x] = "heap"
      <4>1. CASE x \in pages
        BY <2>2, <4>1
      <4>2. CASE x \notin pages
        <5>1. x < g_initial_brk + Round(g_current_brk_size)
          BY <1>4, <1>7, <2>4, <3>2, <4>2
        <5>2. owner[x] = "heap"
          BY <1>3, <2>4, <3>2, <5>1 DEF HeapOwned
        <5> QED
          BY <2>2, <4>2, <5>2
      <4> QED
        BY <4>1, <4>2
    <3>3. ASSUME NEW x \in Addresses, ~beyond,
                 g_initial_brk + Round(NewSize) <= x, x < g_initial_brk + Round(g_max_brk_size)
          PROVE  owner'[x] = "reserve"
      <4>1. x \notin pages /\ g_initial_brk + Round(g_current_brk_size) <= x
        BY <1>4, <1>7, <2>4, <3>3
      <4>2. owner[x] = "reserve"
        BY <1>3, <2>4, <3>3, <4>1 DEF HeapOwned
      <4> QED
        BY <2>2, <4>1, <4>2
    <3>4. HeapOwned'
      BY <1>2, <1>3, <1>6, <2>4, <3>1, <3>2, <3>3 DEF HeapOwned
    <3>5. \A u \in Callers : place[u] # "outside" => u = t
      BY <1>2, <1>3, <2>4 DEF PlansCurrent
    <3>6. \A u \in Callers : place'[u] = "outside"
      BY <1>1, <2>1, <3>5 DEF HeapTypeOK
    <3>7. PlansCurrent'
      BY <1>2, <1>5, <2>4, <3>1, <3>6 DEF PlansCurrent
    <3> QED
      BY <3>4, <3>7
  <2> QED
    BY <1>2, <2>1, <2>3, <2>4 DEF HeapInv
<1>9. CASE ~(pages \subseteq Addresses)
  <2>1. phase' = "stopped" /\ owner' = owner /\ g_current_brk_size' = g_current_brk_size /\ place' = place
    BY <1>9 DEF Grow
  <2>2. HeapTypeOK'
    BY <1>1, <1>2, <2>1 DEF HeapTypeOK
  <2>3. ASSUME ~overlapped, ~beyond PROVE FALSE
    <3> HIDE DEF pages
    <3>1. ASSUME NEW x \in pages PROVE x \in Span(g_initial_brk, g_max_brk_size)
      BY <1>4, <1>6, <1>7, <2>3, <3>1 DEF Span
    <3> QED
      BY <1>6, <1>9, <2>3, <3>1
  <2> QED
    BY <1>2, <2>1, <2>2, <2>3 DEF HeapInv
<1> QED
  BY <1>8, <1>9

\* Other mappings come and go outside of the heap and its reserve.
LEMMA OthersStep ==
    ASSUME HeapInv, phase = "running", NEW a, NEW n, NEW who \in {"free", "other"},
           \A x \in Span(a, n) : x \in Addresses /\ owner[x] \in {"free", "other"},
           owner' = Mapped(owner, a, n, who),
           UNCHANGED <<phase, g_initial_brk, g_current_brk, g_current_brk_size, g_max_brk_size, place, plan, beyond, overlapped>>
    PROVE  HeapInv'
<1>1. HeapTypeOK
  BY DEF HeapInv
<1>2. who \in Owners
  BY DEF Owners
<1>3. /\ owner' \in [Addresses -> Owners]
      /\ \A x \in Addresses : owner[x] \in {"heap", "reserve"} => owner'[x] = owner[x]
  BY <1>1, <1>2, MappedOwners DEF HeapTypeOK
<1>4. HeapTypeOK'
  BY <1>1, <1>3 DEF HeapTypeOK
<1>5. ASSUME HeapOwned PROVE HeapOwned'
  BY <1>3, <1>5 DEF HeapOwned
<1>6. NewSize' = NewSize
  BY DEF NewSize
<1>7. ASSUME PlansCurrent PROVE PlansCurrent'
  BY <1>6, <1>7 DEF PlansCurrent
<1> QED
  BY <1>4, <1>5, <1>7 DEF HeapInv

\* mmap of something else takes free pages.
LEMMA MapOtherStep ==
    ASSUME HeapInv, NEW page, MapOther(page)
    PROVE  HeapInv'
<1>1. \A x \in Span(page * Page, Page) : x \in Addresses /\ owner[x] \in {"free", "other"}
  BY DEF MapOther, Unused
<1>2. owner' = Mapped(owner, page * Page, Page, "other") /\ phase = "running"
  BY DEF MapOther
<1>3. UNCHANGED <<phase, g_initial_brk, g_current_brk, g_current_brk_size, g_max_brk_size, place, plan, beyond, overlapped>>
  BY DEF MapOther
<1> QED
  BY <1>1, <1>2, <1>3, OthersStep

\* munmap of something else leaves the heap alone.
LEMMA UnmapOtherStep ==
    ASSUME HeapInv, NEW page, UnmapOther(page)
    PROVE  HeapInv'
<1>1. \A x \in Span(page * Page, Page) : x \in Addresses /\ owner[x] \in {"free", "other"}
  BY DEF UnmapOther
<1>2. owner' = Mapped(owner, page * Page, Page, "free") /\ phase = "running"
  BY DEF UnmapOther
<1>3. UNCHANGED <<phase, g_initial_brk, g_current_brk, g_current_brk_size, g_max_brk_size, place, plan, beyond, overlapped>>
  BY DEF UnmapOther
<1> QED
  BY <1>1, <1>2, <1>3, OthersStep

-----------------------------------------------------------------------------
(* The theorems.                                                           *)

\* Every step of the loader, of BRK::set in any thread and of other mappings keeps
\* the inductive invariant.
THEOREM HeapInvariant == HeapSpec => []HeapInv
<1>1. HeapInit => HeapInv
  BY HeapInitially
<1>2. HeapInv /\ [HeapNext]_heapVars => HeapInv'
  <2> SUFFICES ASSUME HeapInv, [HeapNext]_heapVars PROVE HeapInv'
    OBVIOUS
  <2>1. CASE UNCHANGED heapVars
    <3>1. NewSize' = NewSize
      BY <2>1 DEF heapVars, NewSize
    <3> QED
      BY <2>1, <3>1 DEF heapVars, HeapInv, HeapTypeOK, HeapOwned, PlansCurrent
  <2>2. CASE \E hint \in Hints, max \in Limits, base \in Addresses : allocate(hint, max, base)
    BY <2>2, allocateStep
  <2>3. CASE \E max \in Limits : NoRoom(max)
    BY <2>3, NoRoomStep
  <2>4. CASE \E t \in Callers, new_brk \in Breaks : Store(t, new_brk)
    BY <2>4, StoreStep
  <2>5. CASE \E t \in Callers : Enough(t)
    BY <2>5, EnoughStep
  <2>6. CASE \E t \in Callers : Plan(t)
    BY <2>6, PlanStep
  <2>7. CASE \E t \in Callers : Grow(t)
    BY <2>7, GrowStep
  <2>8. CASE \E page \in 0..(Top \div Page) : MapOther(page) \/ UnmapOther(page)
    BY <2>8, MapOtherStep, UnmapOtherStep
  <2> QED
    BY <2>1, <2>2, <2>3, <2>4, <2>5, <2>6, <2>7, <2>8 DEF HeapNext
<1> QED
  BY <1>1, <1>2, PTL DEF HeapSpec

\* Between calls of brk whatever lies between the start of the heap and the break is
\* usable, as far as the reserve goes: BRK::set (hle/brk.cpp) makes enough of the
\* reserve usable, and no other mapping takes a part of it.
THEOREM HeapStaysInPlace == HeapSpec => []HeapInPlace
<1>1. HeapInv => HeapInPlace
  <2> SUFFICES ASSUME HeapInv, phase = "running", ~overlapped, \A t \in Callers : place[t] = "outside",
                      NEW x \in Addresses, g_initial_brk <= x, x < g_current_brk, x < g_initial_brk + g_max_brk_size
               PROVE  owner[x] = "heap"
    BY DEF HeapInPlace
  <2>1. HeapTypeOK /\ HeapOwned /\ PlansCurrent /\ x \in Int
    BY PageAssumption DEF HeapInv, Addresses
  <2>2. x < g_initial_brk + g_current_brk_size
    BY <2>1 DEF PlansCurrent, HeapTypeOK
  <2>3. Round(g_current_brk_size) \in Nat /\ g_current_brk_size <= Round(g_current_brk_size)
    BY <2>1, Rounds DEF HeapTypeOK
  <2>4. x < g_initial_brk + Round(g_current_brk_size)
    BY <2>1, <2>2, <2>3 DEF HeapTypeOK
  <2> QED
    BY <2>1, <2>4 DEF HeapOwned
<1> QED
  BY <1>1, HeapInvariant, PTL

\* What BRK::set maps over what is there is a part of the reserve, never the heap's
\* contents and never another mapping, as long as no break is beyond the reserve.
THEOREM HeapGrowsIntoReserve == HeapSpec => []GrowsIntoReserve
<1>1. HeapInv => GrowsIntoReserve
  <2> SUFFICES ASSUME HeapInv, NEW t \in Callers, place[t] = "growing", ~beyond, ~overlapped,
                      NEW x \in Span(plan[t][1], Past(t))
               PROVE  x \in Addresses /\ owner[x] = "reserve"
    BY DEF GrowsIntoReserve
  <2>1. HeapTypeOK /\ phase = "running"
    BY DEF HeapInv, HeapTypeOK
  <2>2. HeapOwned /\ PlansCurrent
    BY <2>1 DEF HeapInv
  <2>3. /\ plan[t] = <<g_initial_brk + g_current_brk_size, NewSize>>
        /\ g_current_brk > g_initial_brk + g_current_brk_size
        /\ Aligned(g_initial_brk + g_current_brk_size) /\ Aligned(g_initial_brk)
    BY <2>2 DEF HeapOwned, PlansCurrent
  <2>4. /\ Round(g_current_brk_size) \in Nat /\ Round(NewSize) \in Nat
        /\ x \in (g_initial_brk + Round(g_current_brk_size))..(g_initial_brk + Round(NewSize) - 1)
    BY <2>1, <2>3, GrownPages
  <2>5. NewSize \in Nat /\ NewSize <= g_max_brk_size /\ g_max_brk_size \in Nat /\ g_initial_brk \in Nat
    BY <2>1, <2>2, <2>3, NewSizes DEF HeapOwned, HeapTypeOK
  <2>6. Round(g_max_brk_size) \in Nat /\ Round(NewSize) <= Round(g_max_brk_size)
    BY <2>5, Rounds, RoundGrows
  <2>7. /\ g_initial_brk + Round(g_current_brk_size) <= x /\ x < g_initial_brk + Round(g_max_brk_size)
        /\ x \in Span(g_initial_brk, g_max_brk_size)
    BY <2>4, <2>5, <2>6 DEF Span
  <2> QED
    BY <2>2, <2>7 DEF HeapOwned
<1> QED
  BY <1>1, HeapInvariant, PTL
=============================================================================
