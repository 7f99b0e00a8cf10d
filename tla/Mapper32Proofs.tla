--------------------------- MODULE Mapper32Proofs ---------------------------
(***************************************************************************)
(* The 32-bit Mapper keeps the free list and the kernel's mappings         *)
(* complementary, for any number of threads and pages.                     *)
(***************************************************************************)
EXTENDS Mapper32, TLAPS

\* What unmap32 has unmapped and not yet freed stays unmapped, unless another thread
\* maps it in between.
PendingIsUnmapped ==
    "race" \notin rough /\ ~aborted => \A t \in Threads : Pages(unmapping[t]) \cap mapped = {}

\* NothingLeaks, page by page.
NoPageLeaks ==
    rough \cap {"reject", "stale"} = {} /\ ~aborted =>
        \A a \in MinPage .. LastPage :
            a \in free \/ a \in mapped \/ \E t \in Threads : a \in Pages(unmapping[t])

\* The inductive invariant.
MapperInv ==
    TypeOK /\ PendingIsUnmapped /\ FreeIsUnmapped /\ NoPageLeaks /\ AttachedIsKnown /\ NoAbort

-----------------------------------------------------------------------------
(* Regions and events. *)

\* A region asked for lies in the guest's part of the address space.
LEMMA RequestPages ==
    ASSUME NEW r \in Requests
    PROVE  Pages(r) \subseteq MinPage .. TopPage /\ r.start \in MinPage .. TopPage
  BY PagesAssumption DEF Requests, Pages

\* The guest's pages are among the pages of the list, and page 0 is not.
LEMMA GuestPages == MinPage .. TopPage \subseteq MinPage .. LastPage /\ 0 \notin MinPage .. TopPage
  BY PagesAssumption

\* A thread that is not in unmap32 has nothing still to be freed.
LEMMA NoPages == Pages(None) = {}
  BY DEF Pages, None

\* An idle thread that maps pages without a race maps none that are still to be
\* freed.
LEMMA NoRace ==
    ASSUME NEW t \in Threads, Idle(t), NEW pages, Race(t, pages) = {}
    PROVE  \A u \in Threads : pages \cap Pages(unmapping[u]) = {}
<1>1. Pages(unmapping[t]) = {}
  BY NoPages DEF Idle
<1> QED
  BY <1>1 DEF Race, Event

\* A race is one event.
LEMMA RaceIsRough ==
    ASSUME NEW t, NEW pages
    PROVE  Race(t, pages) = {} \/ Race(t, pages) = {"race"}
  BY DEF Race, Event

-----------------------------------------------------------------------------
(* The actions. *)

\* map32 with MAP_FIXED.
LEMMA MapFixedStep ==
    ASSUME MapperInv, NEW t \in Threads, NEW r \in Requests, MapFixed(t, r)
    PROVE  MapperInv'
<1>1. /\ TypeOK /\ PendingIsUnmapped /\ FreeIsUnmapped /\ NoPageLeaks /\ AttachedIsKnown /\ NoAbort
  BY DEF MapperInv
<1>2. /\ ~aborted /\ unmapping' = unmapping /\ detaching' = detaching /\ stale' = stale /\ shmids' = shmids
      /\ mapped' = mapped \cup Pages(r) /\ attached' = attached \ Pages(r)
      /\ aborted' = FALSE /\ free' = free \ Pages(r)
      /\ rough' = rough \cup Race(t, Pages(r))
  BY DEF MapFixed, Idle, AllocateOrAbort
<1>3. Race(t, Pages(r)) = {} \/ Race(t, Pages(r)) = {"race"}
  BY RaceIsRough
<1>4. Race(t, Pages(r)) = {} => \A u \in Threads : Pages(r) \cap Pages(unmapping[u]) = {}
  BY NoRace DEF MapFixed
<1>5. Pages(r) \subseteq MinPage .. TopPage
  BY RequestPages
<1>6. TypeOK'
  BY <1>1, <1>2, <1>3, <1>5 DEF TypeOK, RoughEvents
<1>7. PendingIsUnmapped'
  BY <1>1, <1>2, <1>3, <1>4 DEF PendingIsUnmapped
<1>8. FreeIsUnmapped'
  BY <1>1, <1>2, <1>3 DEF FreeIsUnmapped
<1>9. NoPageLeaks'
  BY <1>1, <1>2, <1>3 DEF NoPageLeaks
<1>10. AttachedIsKnown'
  BY <1>1, <1>2, <1>3 DEF AttachedIsKnown
<1>11. NoAbort'
  BY <1>2 DEF NoAbort
<1> QED
  BY <1>6, <1>7, <1>8, <1>9, <1>10, <1>11 DEF MapperInv

\* An address that the kernel found empty is free, but for the events noted.
LEMMA UnmappedIsFree ==
    ASSUME MapperInv, NEW t \in Threads, Idle(t), NEW pages, pages \subseteq MinPage .. TopPage,
           pages \cap mapped = {}, rough \cup Race(t, pages) = {}
    PROVE  pages \subseteq free
<1>1. \A u \in Threads : pages \cap Pages(unmapping[u]) = {}
  BY NoRace
<1>2. \A a \in MinPage .. LastPage : a \in free \/ a \in mapped \/ \E u \in Threads : a \in Pages(unmapping[u])
  BY DEF MapperInv, NoPageLeaks, Idle
<1> QED
  BY <1>1, <1>2, GuestPages

\* map32 with MAP_FIXED_NOREPLACE.
LEMMA MapNoReplaceStep ==
    ASSUME MapperInv, NEW t \in Threads, NEW r \in Requests, MapNoReplace(t, r)
    PROVE  MapperInv'
<1>1. /\ TypeOK /\ PendingIsUnmapped /\ FreeIsUnmapped /\ NoPageLeaks /\ AttachedIsKnown /\ NoAbort
  BY DEF MapperInv
<1>2. /\ Idle(t) /\ ~aborted /\ unmapping' = unmapping /\ detaching' = detaching /\ stale' = stale
      /\ shmids' = shmids /\ attached' = attached
      /\ Pages(r) \cap mapped = {} /\ mapped' = mapped \cup Pages(r)
      /\ aborted' = ~(Pages(r) \subseteq free)
      /\ free' = IF Pages(r) \subseteq free THEN free \ Pages(r) ELSE free
      /\ rough' = rough \cup Race(t, Pages(r))
  BY DEF MapNoReplace, Idle, AllocateOrAbort
<1>3. Race(t, Pages(r)) = {} \/ Race(t, Pages(r)) = {"race"}
  BY RaceIsRough
<1>4. Race(t, Pages(r)) = {} => \A u \in Threads : Pages(r) \cap Pages(unmapping[u]) = {}
  BY <1>2, NoRace
<1>5. Pages(r) \subseteq MinPage .. TopPage
  BY RequestPages
<1>6. TypeOK'
  BY <1>1, <1>2, <1>3, <1>5 DEF TypeOK, RoughEvents
<1>7. PendingIsUnmapped'
  BY <1>1, <1>2, <1>3, <1>4 DEF PendingIsUnmapped
<1>8. FreeIsUnmapped'
  BY <1>1, <1>2, <1>3 DEF FreeIsUnmapped
<1>9. NoPageLeaks'
  BY <1>1, <1>2, <1>3 DEF NoPageLeaks
<1>10. AttachedIsKnown'
  BY <1>1, <1>2, <1>3 DEF AttachedIsKnown
<1>11. NoAbort'
  <2>1. rough' = {} => Pages(r) \subseteq free
    BY <1>2, <1>5, UnmappedIsFree
  <2> QED
    BY <1>2, <2>1 DEF NoAbort
<1> QED
  BY <1>6, <1>7, <1>8, <1>9, <1>10, <1>11 DEF MapperInv

\* map32 without an address: the free list picks pages that are not mapped.
LEMMA MapAnywhereStep ==
    ASSUME MapperInv, NEW t \in Threads, NEW r \in Requests, MapAnywhere(t, r)
    PROVE  MapperInv'
<1>1. /\ TypeOK /\ PendingIsUnmapped /\ FreeIsUnmapped /\ NoPageLeaks /\ AttachedIsKnown /\ NoAbort
  BY DEF MapperInv
<1>2. /\ Idle(t) /\ ~aborted /\ unmapping' = unmapping /\ detaching' = detaching /\ stale' = stale
      /\ shmids' = shmids /\ attached' = attached /\ aborted' = aborted
      /\ Pages(r) \subseteq free /\ free' = free \ Pages(r)
      /\ \/ mapped' = mapped \cup Pages(r) /\ rough' = rough \cup Race(t, Pages(r))
         \/ mapped' = mapped /\ rough' = rough \cup {"reject"}
  BY DEF MapAnywhere, Idle
<1>3. Race(t, Pages(r)) = {} \/ Race(t, Pages(r)) = {"race"}
  BY RaceIsRough
<1>4. Race(t, Pages(r)) = {} => \A u \in Threads : Pages(r) \cap Pages(unmapping[u]) = {}
  BY <1>2, NoRace
<1>5. Pages(r) \subseteq MinPage .. TopPage
  BY RequestPages
<1>6. TypeOK'
  BY <1>1, <1>2, <1>3, <1>5 DEF TypeOK, RoughEvents
<1>7. PendingIsUnmapped'
  BY <1>1, <1>2, <1>3, <1>4 DEF PendingIsUnmapped
<1>8. FreeIsUnmapped'
  BY <1>1, <1>2, <1>3 DEF FreeIsUnmapped
<1>9. NoPageLeaks'
  BY <1>1, <1>2, <1>3 DEF NoPageLeaks
<1>10. AttachedIsKnown'
  BY <1>1, <1>2, <1>3 DEF AttachedIsKnown
<1>11. NoAbort'
  BY <1>2 DEF NoAbort
<1> QED
  BY <1>6, <1>7, <1>8, <1>9, <1>10, <1>11 DEF MapperInv

\* The munmap of unmap32, before the list is told.
LEMMA MunmapStep ==
    ASSUME MapperInv, NEW t \in Threads, NEW r \in Requests, Munmap(t, r)
    PROVE  MapperInv'
<1>1. /\ TypeOK /\ PendingIsUnmapped /\ FreeIsUnmapped /\ NoPageLeaks /\ AttachedIsKnown /\ NoAbort
  BY DEF MapperInv
<1>2. /\ ~aborted /\ detaching' = detaching /\ stale' = stale /\ free' = free
      /\ shmids' = shmids /\ aborted' = aborted /\ rough' = rough
      /\ mapped' = mapped \ Pages(r) /\ attached' = attached \ Pages(r)
      /\ unmapping[t] = None /\ unmapping' = [unmapping EXCEPT ![t] = r]
  BY DEF Munmap, Idle
<1>3. /\ DOMAIN unmapping = Threads /\ unmapping'[t] = r
      /\ \A u \in Threads : u # t => unmapping'[u] = unmapping[u]
  BY <1>1, <1>2 DEF TypeOK
<1>4. TypeOK'
  BY <1>1, <1>2 DEF TypeOK
<1>5. PendingIsUnmapped'
  BY <1>1, <1>2, <1>3 DEF PendingIsUnmapped
<1>6. FreeIsUnmapped'
  BY <1>1, <1>2 DEF FreeIsUnmapped
<1>7. NoPageLeaks'
  BY <1>1, <1>2, <1>3, NoPages DEF NoPageLeaks
<1>8. AttachedIsKnown'
  BY <1>1, <1>2 DEF AttachedIsKnown
<1>9. NoAbort'
  BY <1>2 DEF NoAbort
<1> QED
  BY <1>4, <1>5, <1>6, <1>7, <1>8, <1>9 DEF MapperInv

\* unmap32 frees what it has unmapped, which another thread may have mapped meanwhile.
LEMMA UnmapDeallocateStep ==
    ASSUME MapperInv, NEW t \in Threads, UnmapDeallocate(t)
    PROVE  MapperInv'
<1>1. /\ TypeOK /\ PendingIsUnmapped /\ FreeIsUnmapped /\ NoPageLeaks /\ AttachedIsKnown /\ NoAbort
  BY DEF MapperInv
<1>2. /\ ~aborted /\ detaching' = detaching /\ stale' = stale /\ mapped' = mapped /\ attached' = attached
      /\ shmids' = shmids /\ aborted' = aborted /\ rough' = rough
      /\ unmapping[t] # None /\ unmapping' = [unmapping EXCEPT ![t] = None]
      /\ free' = free \cup Pages(unmapping[t])
  BY DEF UnmapDeallocate
<1>3. /\ unmapping[t] \in Requests /\ unmapping'[t] = None
      /\ \A u \in Threads : u # t => unmapping'[u] = unmapping[u]
  BY <1>1, <1>2 DEF TypeOK
<1>4. Pages(unmapping[t]) \subseteq MinPage .. LastPage
  BY <1>3, RequestPages, GuestPages
<1>5. TypeOK'
  BY <1>1, <1>2, <1>4 DEF TypeOK
<1>6. PendingIsUnmapped'
  BY <1>1, <1>2, <1>3, NoPages DEF PendingIsUnmapped
<1>7. FreeIsUnmapped'
  BY <1>1, <1>2 DEF FreeIsUnmapped, PendingIsUnmapped
<1>8. NoPageLeaks'
  BY <1>1, <1>2, <1>3 DEF NoPageLeaks
<1>9. AttachedIsKnown'
  BY <1>1, <1>2 DEF AttachedIsKnown
<1>10. NoAbort'
  BY <1>2 DEF NoAbort
<1> QED
  BY <1>5, <1>6, <1>7, <1>8, <1>9, <1>10 DEF MapperInv

\* remap32 with MREMAP_FIXED.
LEMMA RemapFixedStep ==
    ASSUME MapperInv, NEW t \in Threads, NEW old \in Requests, NEW new \in Requests, NEW dontunmap \in BOOLEAN,
           RemapFixed(t, old, new, dontunmap)
    PROVE  MapperInv'
<1>1. /\ TypeOK /\ PendingIsUnmapped /\ FreeIsUnmapped /\ NoPageLeaks /\ AttachedIsKnown /\ NoAbort
  BY DEF MapperInv
<1> DEFINE from == IF dontunmap THEN free ELSE free \cup Pages(old)
           moved == Event(Moved(old, new) # {}, "moved")
           onto == Event(Pages(new) \cap mapped # {}, "remap")
<1>2. /\ Idle(t) /\ ~aborted /\ unmapping' = unmapping /\ detaching' = detaching /\ stale' = stale
      /\ shmids' = shmids /\ Pages(old) \subseteq mapped /\ Pages(old) \cap Pages(new) = {}
      /\ mapped' = (IF dontunmap THEN mapped ELSE mapped \ Pages(old)) \cup Pages(new)
      /\ attached' = (attached \ (Pages(old) \cup Pages(new))) \cup Moved(old, new)
      /\ aborted' = ~(Pages(new) \subseteq from)
      /\ free' = IF Pages(new) \subseteq from THEN from \ Pages(new) ELSE from
      /\ rough' = rough \cup Race(t, Pages(new)) \cup onto \cup moved
  BY DEF RemapFixed, Idle, AllocateOrAbort
<1>3. /\ Race(t, Pages(new)) = {} \/ Race(t, Pages(new)) = {"race"}
      /\ IF Moved(old, new) # {} THEN moved = {"moved"} ELSE moved = {}
      /\ IF Pages(new) \cap mapped # {} THEN onto = {"remap"} ELSE onto = {}
  BY RaceIsRough DEF Event
<1> HIDE DEF moved, onto
<1>4. Race(t, Pages(new)) = {} => \A u \in Threads : Pages(new) \cap Pages(unmapping[u]) = {}
  BY <1>2, NoRace
<1>5. /\ Pages(old) \subseteq MinPage .. TopPage /\ Pages(new) \subseteq MinPage .. TopPage
      /\ MinPage .. TopPage \subseteq MinPage .. LastPage
  BY RequestPages, GuestPages
<1>6. Moved(old, new) \subseteq Pages(new)
  BY DEF Moved
<1>7. TypeOK'
  <2>1. free' \subseteq MinPage .. LastPage /\ mapped' \subseteq MinPage .. TopPage
    BY <1>1, <1>2, <1>5 DEF TypeOK
  <2>2. attached' \subseteq mapped'
    BY <1>1, <1>2, <1>6 DEF TypeOK
  <2>3. rough' \subseteq RoughEvents /\ aborted' \in BOOLEAN
    BY <1>1, <1>2, <1>3 DEF TypeOK, RoughEvents
  <2> QED
    BY <1>1, <1>2, <2>1, <2>2, <2>3 DEF TypeOK
<1>8. PendingIsUnmapped'
  BY <1>1, <1>2, <1>3, <1>4 DEF PendingIsUnmapped
<1>9. FreeIsUnmapped'
  BY <1>1, <1>2, <1>3 DEF FreeIsUnmapped
<1>10. NoPageLeaks'
  BY <1>1, <1>2, <1>3 DEF NoPageLeaks
<1>11. AttachedIsKnown'
  BY <1>1, <1>2, <1>3 DEF AttachedIsKnown
<1>12. NoAbort'
  <2>1. rough' = {} => Pages(new) \cap mapped = {}
    BY <1>2, <1>3
  <2>2. rough' = {} => rough \cup Race(t, Pages(new)) = {}
    BY <1>2
  <2>3. rough' = {} => Pages(new) \subseteq free
    BY <1>2, <1>5, <2>1, <2>2, UnmappedIsFree
  <2> QED
    BY <1>2, <2>3 DEF NoAbort
<1> QED
  BY <1>7, <1>8, <1>9, <1>10, <1>11, <1>12 DEF MapperInv

\* remap32 without MREMAP_MAYMOVE.
LEMMA RemapInPlaceStep ==
    ASSUME MapperInv, NEW t \in Threads, NEW old \in Requests, NEW new \in Requests, NEW newAddress,
           RemapInPlace(t, old, new, newAddress)
    PROVE  MapperInv'
<1>1. /\ TypeOK /\ PendingIsUnmapped /\ FreeIsUnmapped /\ NoPageLeaks /\ AttachedIsKnown /\ NoAbort
  BY DEF MapperInv
<1> DEFINE from == free \cup Pages(old)
           elsewhere == Event(newAddress # old.start, "remap")
<1>2. /\ Idle(t) /\ ~aborted /\ unmapping' = unmapping /\ detaching' = detaching /\ stale' = stale
      /\ shmids' = shmids /\ Pages(old) \subseteq mapped /\ (Pages(new) \ Pages(old)) \cap mapped = {}
      /\ mapped' = (mapped \ Pages(old)) \cup Pages(new)
      /\ attached' = attached \ (Pages(old) \ Pages(new))
      /\ rough' = rough \cup Race(t, Pages(new)) \cup elsewhere
      /\ \/ /\ newAddress = old.start
            /\ aborted' = ~(Pages(new) \subseteq from)
            /\ free' = IF Pages(new) \subseteq from THEN from \ Pages(new) ELSE from
         \/ newAddress # old.start /\ aborted' = TRUE /\ free' = free
  BY DEF RemapInPlace, Idle, AllocateOrAbort
<1>3. /\ Race(t, Pages(new)) = {} \/ Race(t, Pages(new)) = {"race"}
      /\ IF newAddress # old.start THEN elsewhere = {"remap"} ELSE elsewhere = {}
  BY RaceIsRough DEF Event
<1> HIDE DEF elsewhere
<1>4. Race(t, Pages(new)) = {} => \A u \in Threads : Pages(new) \cap Pages(unmapping[u]) = {}
  BY <1>2, NoRace
<1>5. /\ Pages(old) \subseteq MinPage .. TopPage /\ Pages(new) \subseteq MinPage .. TopPage
      /\ MinPage .. TopPage \subseteq MinPage .. LastPage
  BY RequestPages, GuestPages
<1>6. TypeOK'
  <2>1. free' \subseteq MinPage .. LastPage /\ mapped' \subseteq MinPage .. TopPage
    BY <1>1, <1>2, <1>5 DEF TypeOK
  <2>2. attached' \subseteq mapped'
    BY <1>1, <1>2 DEF TypeOK
  <2>3. rough' \subseteq RoughEvents /\ aborted' \in BOOLEAN
    BY <1>1, <1>2, <1>3 DEF TypeOK, RoughEvents
  <2> QED
    BY <1>1, <1>2, <2>1, <2>2, <2>3 DEF TypeOK
<1>7. PendingIsUnmapped'
  BY <1>1, <1>2, <1>3, <1>4 DEF PendingIsUnmapped
<1>8. FreeIsUnmapped'
  BY <1>1, <1>2, <1>3 DEF FreeIsUnmapped
<1>9. NoPageLeaks'
  BY <1>1, <1>2, <1>3 DEF NoPageLeaks
<1>10. AttachedIsKnown'
  BY <1>1, <1>2, <1>3 DEF AttachedIsKnown
<1>11. NoAbort'
  <2>1. SUFFICES ASSUME rough' = {}
                 PROVE  ~aborted'
    BY DEF NoAbort
  <2>2. newAddress = old.start /\ Race(t, Pages(new)) = {} /\ rough = {}
    BY <1>2, <1>3, <2>1
  <2>3. \A a \in MinPage .. LastPage : a \in free \/ a \in mapped \/ \E u \in Threads : a \in Pages(unmapping[u])
    BY <1>1, <1>2, <2>2 DEF NoPageLeaks
  <2>4. Pages(new) \subseteq from
    BY <1>2, <1>4, <1>5, <2>2, <2>3
  <2> QED
    BY <1>2, <2>2, <2>4
<1> QED
  BY <1>6, <1>7, <1>8, <1>9, <1>10, <1>11 DEF MapperInv

\* remap32 with MREMAP_MAYMOVE: the free list picks the new place.
LEMMA RemapMoveStep ==
    ASSUME MapperInv, NEW t \in Threads, NEW old \in Requests, NEW new \in Requests, NEW dontunmap \in BOOLEAN,
           RemapMove(t, old, new, dontunmap)
    PROVE  MapperInv'
<1>1. /\ TypeOK /\ PendingIsUnmapped /\ FreeIsUnmapped /\ NoPageLeaks /\ AttachedIsKnown /\ NoAbort
  BY DEF MapperInv
<1> DEFINE moved == Event(Moved(old, new) # {}, "moved")
           bad == Event(~(Pages(old) \subseteq mapped), "bad")
<1>2. /\ Idle(t) /\ ~aborted /\ unmapping' = unmapping /\ detaching' = detaching /\ stale' = stale
      /\ shmids' = shmids /\ Pages(new) \subseteq free
      /\ \/ /\ Pages(old) \subseteq mapped /\ Pages(old) \cap Pages(new) = {}
            /\ mapped' = (IF dontunmap THEN mapped ELSE mapped \ Pages(old)) \cup Pages(new)
            /\ attached' = (attached \ (Pages(old) \cup Pages(new))) \cup Moved(old, new)
            /\ free' = (free \ Pages(new)) \cup (IF dontunmap THEN {} ELSE Pages(old))
            /\ rough' = rough \cup Race(t, Pages(new)) \cup moved
            /\ aborted' = aborted
         \/ /\ ~(Pages(old) \subseteq mapped) \/ Pages(old) \cap Pages(new) # {}
            /\ aborted' = TRUE /\ rough' = rough \cup bad
            /\ free' = free /\ mapped' = mapped /\ attached' = attached
  BY DEF RemapMove, Idle
<1>3. /\ Race(t, Pages(new)) = {} \/ Race(t, Pages(new)) = {"race"}
      /\ IF Moved(old, new) # {} THEN moved = {"moved"} ELSE moved = {}
      /\ IF ~(Pages(old) \subseteq mapped) THEN bad = {"bad"} ELSE bad = {}
  BY RaceIsRough DEF Event
<1> HIDE DEF moved, bad
<1>4. Race(t, Pages(new)) = {} => \A u \in Threads : Pages(new) \cap Pages(unmapping[u]) = {}
  BY <1>2, NoRace
<1>5. /\ Pages(old) \subseteq MinPage .. TopPage /\ Pages(new) \subseteq MinPage .. TopPage
      /\ MinPage .. TopPage \subseteq MinPage .. LastPage
  BY RequestPages, GuestPages
<1>6. Moved(old, new) \subseteq Pages(new)
  BY DEF Moved
<1>7. TypeOK'
  <2>1. free' \subseteq MinPage .. LastPage /\ mapped' \subseteq MinPage .. TopPage
    BY <1>1, <1>2, <1>5 DEF TypeOK
  <2>2. attached' \subseteq mapped'
    BY <1>1, <1>2, <1>6 DEF TypeOK
  <2>3. rough' \subseteq RoughEvents /\ aborted' \in BOOLEAN
    BY <1>1, <1>2, <1>3 DEF TypeOK, RoughEvents
  <2> QED
    BY <1>1, <1>2, <2>1, <2>2, <2>3 DEF TypeOK
<1>8. PendingIsUnmapped'
  BY <1>1, <1>2, <1>3, <1>4 DEF PendingIsUnmapped
<1>9. FreeIsUnmapped'
  BY <1>1, <1>2, <1>3 DEF FreeIsUnmapped
<1>10. NoPageLeaks'
  BY <1>1, <1>2, <1>3 DEF NoPageLeaks
<1>11. AttachedIsKnown'
  BY <1>1, <1>2, <1>3 DEF AttachedIsKnown
<1>12. NoAbort'
  <2>1. rough = {} => free \cap mapped = {}
    BY <1>1, <1>2 DEF FreeIsUnmapped
  <2> QED
    BY <1>2, <1>3, <2>1 DEF NoAbort
<1> QED
  BY <1>7, <1>8, <1>9, <1>10, <1>11, <1>12 DEF MapperInv

\* shmat32 at an address of the guest's choice.
LEMMA ShmatAtStep ==
    ASSUME MapperInv, NEW t \in Threads, NEW a \in MinPage .. TopPage, ShmatAt(t, a)
    PROVE  MapperInv'
<1>1. /\ TypeOK /\ PendingIsUnmapped /\ FreeIsUnmapped /\ NoPageLeaks /\ AttachedIsKnown /\ NoAbort
  BY DEF MapperInv
<1>2. Pages(Page(a)) = {a}
  BY PagesAssumption DEF Pages, Page
<1>3. /\ Idle(t) /\ ~aborted /\ unmapping' = unmapping /\ detaching' = detaching /\ stale' = stale
      /\ shmids' = shmids \cup {a} /\ attached' = attached \cup {a}
      /\ a \notin mapped /\ mapped' = mapped \cup {a}
      /\ aborted' = ~(a \in free) /\ free' = free \ {a}
      /\ rough' = rough \cup Race(t, {a})
  BY <1>2 DEF ShmatAt, Idle, AllocateOrAbort
<1>4. Race(t, {a}) = {} \/ Race(t, {a}) = {"race"}
  BY RaceIsRough
<1>5. Race(t, {a}) = {} => \A u \in Threads : {a} \cap Pages(unmapping[u]) = {}
  BY <1>3, NoRace
<1>6. TypeOK'
  BY <1>1, <1>3, <1>4 DEF TypeOK, RoughEvents
<1>7. PendingIsUnmapped'
  BY <1>1, <1>3, <1>4, <1>5 DEF PendingIsUnmapped
<1>8. FreeIsUnmapped'
  BY <1>1, <1>3, <1>4 DEF FreeIsUnmapped
<1>9. NoPageLeaks'
  BY <1>1, <1>3, <1>4 DEF NoPageLeaks
<1>10. AttachedIsKnown'
  BY <1>1, <1>3, <1>4 DEF AttachedIsKnown
<1>11. NoAbort'
  <2>1. rough' = {} => {a} \subseteq free
    BY <1>3, UnmappedIsFree
  <2> QED
    BY <1>3, <2>1 DEF NoAbort
<1> QED
  BY <1>6, <1>7, <1>8, <1>9, <1>10, <1>11 DEF MapperInv

\* shmat32 where the free list says.
LEMMA ShmatAnywhereStep ==
    ASSUME MapperInv, NEW t \in Threads, NEW a \in MinPage .. TopPage, ShmatAnywhere(t, a)
    PROVE  MapperInv'
<1>1. /\ TypeOK /\ PendingIsUnmapped /\ FreeIsUnmapped /\ NoPageLeaks /\ AttachedIsKnown /\ NoAbort
  BY DEF MapperInv
<1>2. /\ Idle(t) /\ ~aborted /\ unmapping' = unmapping /\ detaching' = detaching /\ stale' = stale
      /\ a \in free /\ free' = free \ {a} /\ rough' = rough \cup Race(t, {a})
      /\ \/ /\ a \in mapped /\ aborted' = TRUE
            /\ mapped' = mapped /\ attached' = attached /\ shmids' = shmids
         \/ /\ a \notin mapped /\ aborted' = FALSE
            /\ mapped' = mapped \cup {a} /\ attached' = attached \cup {a} /\ shmids' = shmids \cup {a}
  BY <1>1 DEF ShmatAnywhere, Idle, TypeOK
<1>3. Race(t, {a}) = {} \/ Race(t, {a}) = {"race"}
  BY RaceIsRough
<1>4. Race(t, {a}) = {} => \A u \in Threads : {a} \cap Pages(unmapping[u]) = {}
  BY <1>2, NoRace
<1>5. TypeOK'
  BY <1>1, <1>2, <1>3 DEF TypeOK, RoughEvents
<1>6. PendingIsUnmapped'
  BY <1>1, <1>2, <1>3, <1>4 DEF PendingIsUnmapped
<1>7. FreeIsUnmapped'
  BY <1>1, <1>2, <1>3 DEF FreeIsUnmapped
<1>8. NoPageLeaks'
  BY <1>1, <1>2, <1>3 DEF NoPageLeaks
<1>9. AttachedIsKnown'
  BY <1>1, <1>2, <1>3 DEF AttachedIsKnown
<1>10. NoAbort'
  <2>1. rough = {} => free \cap mapped = {}
    BY <1>1, <1>2 DEF FreeIsUnmapped
  <2> QED
    BY <1>2, <2>1 DEF NoAbort
<1> QED
  BY <1>5, <1>6, <1>7, <1>8, <1>9, <1>10 DEF MapperInv

\* shmdt32 looks the segment up before it takes the lock.
LEMMA ShmdtFindStep ==
    ASSUME MapperInv, NEW t \in Threads, NEW a \in MinPage .. TopPage, ShmdtFind(t, a)
    PROVE  MapperInv'
<1>1. /\ free' = free /\ mapped' = mapped /\ attached' = attached /\ shmids' = shmids /\ unmapping' = unmapping
      /\ stale' = stale /\ aborted' = aborted /\ rough' = rough /\ detaching' = [detaching EXCEPT ![t] = a]
  BY DEF ShmdtFind
<1>2. TypeOK'
  <2>1. TypeOK
    BY DEF MapperInv
  <2>2. detaching' \in [Threads -> (MinPage .. TopPage) \cup {0}]
    BY <1>1, <2>1 DEF TypeOK
  <2>3. \A u \in Threads : detaching[u] # 0 => detaching'[u] # 0
    BY <1>1, <2>1, GuestPages DEF TypeOK
  <2> QED
    BY <1>1, <2>1, <2>2, <2>3 DEF TypeOK
<1> QED
  BY <1>1, <1>2 DEF MapperInv, PendingIsUnmapped, FreeIsUnmapped, NoPageLeaks, AttachedIsKnown, NoAbort

\* shmdt32 frees the page and detaches the segment.
LEMMA ShmdtDetachStep ==
    ASSUME MapperInv, NEW t \in Threads, ShmdtDetach(t)
    PROVE  MapperInv'
<1>1. /\ TypeOK /\ PendingIsUnmapped /\ FreeIsUnmapped /\ NoPageLeaks /\ AttachedIsKnown /\ NoAbort
  BY DEF MapperInv
<1> DEFINE a == detaching[t]
<1>2. a \in MinPage .. TopPage /\ a \in MinPage .. LastPage
  BY <1>1, GuestPages DEF TypeOK, ShmdtDetach
<1>3. /\ ~aborted /\ unmapping' = unmapping /\ aborted' = aborted
      /\ t \notin stale /\ a # 0 /\ detaching' = [detaching EXCEPT ![t] = 0]
      /\ \/ /\ free' = free \cup {a} /\ mapped' = mapped \ {a} /\ attached' = attached \ {a}
            /\ shmids' = shmids \ {a} /\ rough' = rough
            /\ stale' = stale \cup {u \in Threads \ {t} : detaching[u] = a}
         \/ /\ free' = free \/ free' = free \cup {a}
            /\ mapped' = mapped /\ attached' = attached /\ shmids' = shmids /\ stale' = stale
            /\ rough' = rough \cup {"shm"}
  BY DEF ShmdtDetach
<1> HIDE DEF a
<1>4. TypeOK'
  <2>1. detaching' \in [Threads -> (MinPage .. TopPage) \cup {0}]
    BY <1>1, <1>3 DEF TypeOK
  <2>2. \A u \in Threads : u # t => detaching'[u] = detaching[u]
    BY <1>1, <1>3 DEF TypeOK
  <2>3. stale' \subseteq {u \in Threads : detaching'[u] # 0}
    BY <1>1, <1>3, <2>2 DEF TypeOK
  <2>4. /\ free' \subseteq MinPage .. LastPage /\ mapped' \subseteq MinPage .. TopPage /\ attached' \subseteq mapped'
        /\ shmids' \subseteq MinPage .. TopPage
    BY <1>1, <1>2, <1>3 DEF TypeOK
  <2> QED
    BY <1>1, <1>3, <2>1, <2>3, <2>4 DEF TypeOK, RoughEvents
<1>5. PendingIsUnmapped'
  BY <1>1, <1>3 DEF PendingIsUnmapped
<1>6. FreeIsUnmapped'
  BY <1>1, <1>3 DEF FreeIsUnmapped
<1>7. NoPageLeaks'
  BY <1>1, <1>3 DEF NoPageLeaks
<1>8. AttachedIsKnown'
  BY <1>1, <1>3 DEF AttachedIsKnown
<1>9. NoAbort'
  BY <1>3 DEF NoAbort
<1> QED
  BY <1>4, <1>5, <1>6, <1>7, <1>8, <1>9 DEF MapperInv

\* shmdt32 uses an entry that another thread has erased.
LEMMA ShmdtStaleStep ==
    ASSUME MapperInv, NEW t \in Threads, ShmdtStale(t)
    PROVE  MapperInv'
<1>1. /\ TypeOK /\ PendingIsUnmapped /\ FreeIsUnmapped /\ NoPageLeaks /\ AttachedIsKnown /\ NoAbort
  BY DEF MapperInv
<1> DEFINE a == detaching[t]
<1>2. a \in MinPage .. TopPage /\ a \in MinPage .. LastPage
  BY <1>1, GuestPages DEF TypeOK, ShmdtStale
<1>3. /\ ~aborted /\ unmapping' = unmapping /\ detaching' = [detaching EXCEPT ![t] = 0]
      /\ free' = free \/ free' = free \cup {a}
      /\ mapped' = mapped \ (attached \cap {a}) /\ attached' = attached \ {a}
      /\ shmids' = shmids \/ shmids' = shmids \ {a}
      /\ aborted' \in BOOLEAN
      /\ stale' = stale \ {t} /\ rough' = rough \cup {"stale"}
  BY <1>1 DEF ShmdtStale, TypeOK
<1> HIDE DEF a
<1>4. TypeOK'
  <2>1. detaching' \in [Threads -> (MinPage .. TopPage) \cup {0}]
    BY <1>1, <1>3 DEF TypeOK
  <2>2. \A u \in Threads : u # t => detaching'[u] = detaching[u]
    BY <1>1, <1>3 DEF TypeOK
  <2>3. stale' \subseteq {u \in Threads : detaching'[u] # 0}
    BY <1>1, <1>3, <2>2 DEF TypeOK
  <2>4. /\ free' \subseteq MinPage .. LastPage /\ mapped' \subseteq MinPage .. TopPage /\ attached' \subseteq mapped'
        /\ shmids' \subseteq MinPage .. TopPage
    BY <1>1, <1>2, <1>3 DEF TypeOK
  <2> QED
    BY <1>1, <1>3, <2>1, <2>3, <2>4 DEF TypeOK, RoughEvents
<1>5. PendingIsUnmapped'
  BY <1>1, <1>3 DEF PendingIsUnmapped
<1>6. FreeIsUnmapped'
  BY <1>3 DEF FreeIsUnmapped
<1>7. NoPageLeaks'
  BY <1>3 DEF NoPageLeaks
<1>8. AttachedIsKnown'
  BY <1>1, <1>3 DEF AttachedIsKnown
<1>9. NoAbort'
  BY <1>3 DEF NoAbort
<1> QED
  BY <1>4, <1>5, <1>6, <1>7, <1>8, <1>9 DEF MapperInv

-----------------------------------------------------------------------------
(* The theorems. *)

\* The inductive invariant of the Mapper.
THEOREM MapperInvariant == Spec => []MapperInv
<1>1. Init => MapperInv
  <2> SUFFICES ASSUME Init
               PROVE  MapperInv
    OBVIOUS
  <2>1. TypeOK
    BY GuestPages DEF Init, TypeOK
  <2> QED
    BY <2>1 DEF Init, MapperInv, PendingIsUnmapped, FreeIsUnmapped, NoPageLeaks, AttachedIsKnown, NoAbort
<1>2. ASSUME MapperInv, NEW t \in Threads, Map(t) \/ Unmap(t)
      PROVE  MapperInv'
  BY <1>2, MapFixedStep, MapNoReplaceStep, MapAnywhereStep, MunmapStep, UnmapDeallocateStep DEF Map, Unmap
<1>3. ASSUME MapperInv, NEW t \in Threads, Remap(t)
      PROVE  MapperInv'
  BY <1>3, RemapFixedStep, RemapInPlaceStep, RemapMoveStep DEF Remap
<1>4. ASSUME MapperInv, NEW t \in Threads, Shm(t)
      PROVE  MapperInv'
  BY <1>4, ShmatAtStep, ShmatAnywhereStep, ShmdtFindStep, ShmdtDetachStep, ShmdtStaleStep DEF Shm
<1>5. ASSUME MapperInv, UNCHANGED vars
      PROVE  MapperInv'
  BY <1>5 DEF vars, MapperInv, TypeOK, PendingIsUnmapped, FreeIsUnmapped, NoPageLeaks, AttachedIsKnown, NoAbort
<1>6. MapperInv /\ [Next]_vars => MapperInv'
  BY <1>2, <1>3, <1>4, <1>5 DEF Next
<1> QED
  BY <1>1, <1>6, PTL DEF Spec

\* What the free list hands out is not mapped, as long as no thread maps pages that
\* another is unmapping and no shmdt meets a segment that is gone.
THEOREM FreePagesAreUnmapped == Spec => []FreeIsUnmapped
<1>1. MapperInv => FreeIsUnmapped
  BY DEF MapperInv
<1> QED
  BY <1>1, MapperInvariant, PTL

\* No page gets lost between the free list and the kernel, as long as the kernel
\* refuses no mapping and no two shmdt calls meet.
THEOREM NoPagesLeak == Spec => []NothingLeaks
<1>1. MapperInv => NothingLeaks
  BY DEF MapperInv, NoPageLeaks, NothingLeaks
<1> QED
  BY <1>1, MapperInvariant, PTL

\* shmdt32 knows every segment that was not moved.
THEOREM SegmentsAreKnown == Spec => []AttachedIsKnown
<1>1. MapperInv => AttachedIsKnown
  BY DEF MapperInv
<1> QED
  BY <1>1, MapperInvariant, PTL

\* No assertion about the free list's answer fails without one of the events.
THEOREM AssertionsHold == Spec => []NoAbort
<1>1. MapperInv => NoAbort
  BY DEF MapperInv
<1> QED
  BY <1>1, MapperInvariant, PTL

=============================================================================
