------------------------------ MODULE Mapper32 ------------------------------
(***************************************************************************)
(* Mapper: the 32-bit part of the guest's address space is mapped by the   *)
(* kernel and tracked by a Freelist, which picks the address of a mapping  *)
(* that names none.  The two must agree.  The free list is the set of free *)
(* pages that it implements.  map32, remap32 and shmat32 hold its lock     *)
(* from beginning to end and are one step each; unmap32 calls munmap, and  *)
(* shmdt32 looks the segment up, before they take the lock.                *)
(***************************************************************************)
EXTENDS Integers, FiniteSets

CONSTANTS Threads,
          MinPage,  \* mmap_min_addr()
          LastPage, \* the page of UINT32_MAX
          TopPage,  \* no page above this one is asked for
          MaxSize   \* bound on the size of a mapping, in pages

\* Address 0 is never given out.
ASSUME PagesAssumption ==
    /\ MinPage \in Nat \ {0} /\ LastPage \in Nat
    /\ TopPage \in MinPage .. LastPage
    /\ MaxSize \in Nat

VARIABLES
    free,      \* Mapper::freelist
    mapped,    \* the kernel: pages with a mapping
    attached,  \* the kernel: pages where a shared memory segment is attached
    shmids,    \* the domain of page_to_shmid
    unmapping, \* per thread, the region unmap32 has unmapped but not yet freed
    detaching, \* per thread, the page that shmdt32 has looked up, or 0
    stale,     \* the threads whose entry was erased since they looked it up
    aborted,   \* an ASSERT failed or ERROR was reached: felix86 exited
    rough      \* history: the events so far that the Mapper does not provide for

vars == <<free, mapped, attached, shmids, unmapping, detaching, stale, aborted, rough>>

\* "race": pages are mapped that another thread is still unmapping; "reject": the
\* kernel refuses a mapping; "remap": mremap onto a mapping, or with a new address
\* that does not count; "bad": mremap of what is not mapped; "moved": mremap of an
\* attached segment; "shm": shmdt of a segment that is no longer attached; "stale":
\* two shmdt calls for one segment at once.
RoughEvents == {"race", "reject", "remap", "bad", "moved", "shm", "stale"}
Event(condition, name) == IF condition THEN {name} ELSE {}

None == [start |-> 0, size |-> 0]
Pages(r) == r.start .. r.start + r.size - 1
Requests ==
    {r \in [start : MinPage .. TopPage, size : 1 .. MaxSize] : r.start + r.size - 1 <= TopPage}

Init ==
    /\ free = MinPage .. LastPage
    /\ mapped = {}
    /\ attached = {}
    /\ shmids = {}
    /\ unmapping = [t \in Threads |-> None]
    /\ detaching = [t \in Threads |-> 0]
    /\ stale = {}
    /\ aborted = FALSE
    /\ rough = {}

Idle(t) == ~aborted /\ unmapping[t] = None /\ detaching[t] = 0

\* Another thread has unmapped some of the pages and not yet freed them.
Race(t, pages) ==
    Event(\E u \in Threads \ {t} : pages \cap Pages(unmapping[u]) # {}, "race")

\* freelist.allocate(r), then ASSERT(mapping == result).
AllocateOrAbort(f, r) ==
    /\ aborted' = ~(Pages(r) \subseteq f)
    /\ free' = IF Pages(r) \subseteq f THEN f \ Pages(r) ELSE f

-----------------------------------------------------------------------------
(* map32 *)

\* A slip: the pages of an overwritten mapping are not given back first.
MapFixedUnbalanced(t, r) ==
    /\ Idle(t)
    /\ mapped' = mapped \cup Pages(r)
    /\ attached' = attached \ Pages(r)
    /\ AllocateOrAbort(free, r)
    /\ rough' = rough \cup Race(t, Pages(r))
    /\ UNCHANGED <<shmids, unmapping, detaching, stale>>

\* A slip: the pages are given back last.
MapFixedSwapped(t, r) ==
    /\ Idle(t)
    /\ mapped' = mapped \cup Pages(r)
    /\ attached' = attached \ Pages(r)
    /\ free' = free \cup Pages(r)
    /\ rough' = rough \cup Race(t, Pages(r))
    /\ UNCHANGED <<shmids, unmapping, detaching, stale, aborted>>

\* MAP_FIXED: the kernel replaces what is there.
MapFixed(t, r) ==
    /\ Idle(t)
    /\ mapped' = mapped \cup Pages(r)
    /\ attached' = attached \ Pages(r)
    /\ AllocateOrAbort(free \cup Pages(r), r)
    /\ rough' = rough \cup Race(t, Pages(r))
    /\ UNCHANGED <<shmids, unmapping, detaching, stale>>

\* MAP_FIXED_NOREPLACE: the kernel fails when something is there.
MapNoReplace(t, r) ==
    /\ Idle(t)
    /\ Pages(r) \cap mapped = {}
    /\ mapped' = mapped \cup Pages(r)
    /\ AllocateOrAbort(free, r)
    /\ rough' = rough \cup Race(t, Pages(r))
    /\ UNCHANGED <<attached, shmids, unmapping, detaching, stale>>

\* No address: the free list picks a free region, which the kernel should find
\* empty.
MapAnywhere(t, r) ==
    /\ Idle(t)
    /\ Pages(r) \subseteq free
    /\ free' = free \ Pages(r)
    /\ \/ /\ Pages(r) \cap mapped = {}
          /\ mapped' = mapped \cup Pages(r)
          /\ rough' = rough \cup Race(t, Pages(r))
       \/ UNCHANGED mapped /\ rough' = rough \cup {"reject"}
    /\ UNCHANGED <<attached, shmids, unmapping, detaching, stale, aborted>>

-----------------------------------------------------------------------------
(* unmap32 *)

Munmap(t, r) ==
    /\ Idle(t)
    /\ mapped' = mapped \ Pages(r)
    /\ attached' = attached \ Pages(r)
    /\ unmapping' = [unmapping EXCEPT ![t] = r]
    /\ UNCHANGED <<free, shmids, detaching, stale, aborted, rough>>

\* A slip: nothing is freed.
UnmapForgets(t) ==
    /\ ~aborted
    /\ unmapping[t] # None
    /\ unmapping' = [unmapping EXCEPT ![t] = None]
    /\ UNCHANGED <<free, mapped, attached, shmids, detaching, stale, aborted, rough>>

UnmapDeallocate(t) ==
    /\ ~aborted
    /\ unmapping[t] # None
    /\ free' = free \cup Pages(unmapping[t])
    /\ unmapping' = [unmapping EXCEPT ![t] = None]
    /\ UNCHANGED <<mapped, attached, shmids, detaching, stale, aborted, rough>>

-----------------------------------------------------------------------------
(* remap32: the kernel moves a mapped region; dontunmap leaves the old one. *)

\* The pages of the new region to which attached pages of the old one move.
Moved(old, new) == {a \in Pages(new) : old.start + (a - new.start) \in attached \cap Pages(old)}

\* MREMAP_FIXED: the kernel replaces what is at the new place.
RemapFixed(t, old, new, dontunmap) ==
    /\ Idle(t)
    /\ Pages(old) \subseteq mapped
    /\ Pages(old) \cap Pages(new) = {}
    /\ dontunmap => old.size = new.size
    /\ mapped' = (IF dontunmap THEN mapped ELSE mapped \ Pages(old)) \cup Pages(new)
    /\ attached' = (attached \ (Pages(old) \cup Pages(new))) \cup Moved(old, new)
    /\ AllocateOrAbort(IF dontunmap THEN free ELSE free \cup Pages(old), new)
    /\ rough' = rough \cup Race(t, Pages(new))
                     \cup Event(Pages(new) \cap mapped # {}, "remap")
                     \cup Event(Moved(old, new) # {}, "moved")
    /\ UNCHANGED <<shmids, unmapping, detaching, stale>>

\* Neither MREMAP_FIXED nor MREMAP_MAYMOVE: the region is resized in place, and
\* the address returned is asserted to be the new address the guest passed.
RemapInPlace(t, old, new, newAddress) ==
    /\ Idle(t)
    /\ new.start = old.start
    /\ Pages(old) \subseteq mapped
    /\ (Pages(new) \ Pages(old)) \cap mapped = {}
    /\ mapped' = (mapped \ Pages(old)) \cup Pages(new)
    /\ attached' = attached \ (Pages(old) \ Pages(new))
    /\ IF newAddress = old.start
       THEN AllocateOrAbort(free \cup Pages(old), new)
       ELSE aborted' = TRUE /\ UNCHANGED free
    /\ rough' = rough \cup Race(t, Pages(new))
                     \cup Event(newAddress # old.start, "remap")
    /\ UNCHANGED <<shmids, unmapping, detaching, stale>>

\* MREMAP_MAYMOVE: the free list picks the new place.  The host's mremap fails,
\* and felix86 exits, when the old region is not mapped or the two overlap.
RemapMove(t, old, new, dontunmap) ==
    /\ Idle(t)
    /\ Pages(new) \subseteq free
    /\ dontunmap => new.size = old.size
    /\ \/ /\ Pages(old) \subseteq mapped
          /\ Pages(old) \cap Pages(new) = {}
          /\ mapped' = (IF dontunmap THEN mapped ELSE mapped \ Pages(old)) \cup Pages(new)
          /\ attached' = (attached \ (Pages(old) \cup Pages(new))) \cup Moved(old, new)
          /\ free' = (free \ Pages(new)) \cup (IF dontunmap THEN {} ELSE Pages(old))
          /\ rough' = rough \cup Race(t, Pages(new)) \cup Event(Moved(old, new) # {}, "moved")
          /\ UNCHANGED aborted
       \/ /\ ~(Pages(old) \subseteq mapped) \/ Pages(old) \cap Pages(new) # {}
          /\ aborted' = TRUE
          /\ rough' = rough \cup Event(~(Pages(old) \subseteq mapped), "bad")
          /\ UNCHANGED <<free, mapped, attached>>
    /\ UNCHANGED <<shmids, unmapping, detaching, stale>>

-----------------------------------------------------------------------------
(* shmat32 and shmdt32, for segments of one page. *)

Page(a) == [start |-> a, size |-> 1]

\* A slip: the segment is not entered in page_to_shmid.
ShmatForgets(t, a) ==
    /\ Idle(t)
    /\ a \notin mapped
    /\ mapped' = mapped \cup {a}
    /\ attached' = attached \cup {a}
    /\ AllocateOrAbort(free, Page(a))
    /\ rough' = rough \cup Race(t, {a})
    /\ UNCHANGED <<shmids, unmapping, detaching, stale>>

\* shmat at an address of the guest's choice, where nothing is mapped.
ShmatAt(t, a) ==
    /\ Idle(t)
    /\ a \notin mapped
    /\ mapped' = mapped \cup {a}
    /\ attached' = attached \cup {a}
    /\ AllocateOrAbort(free, Page(a))
    /\ rough' = rough \cup Race(t, {a})
    /\ shmids' = shmids \cup {a}
    /\ UNCHANGED <<unmapping, detaching, stale>>

\* shmat where the free list says; the kernel refuses a place that is taken.
ShmatAnywhere(t, a) ==
    /\ Idle(t)
    /\ a \in free
    /\ free' = free \ {a}
    /\ IF a \in mapped
       THEN aborted' = TRUE /\ UNCHANGED <<mapped, attached, shmids>>
       ELSE /\ mapped' = mapped \cup {a}
            /\ attached' = attached \cup {a}
            /\ shmids' = shmids \cup {a}
            /\ UNCHANGED aborted
    /\ rough' = rough \cup Race(t, {a})
    /\ UNCHANGED <<unmapping, detaching, stale>>

\* page_to_shmid.find, before the lock is taken.
ShmdtFind(t, a) ==
    /\ Idle(t)
    /\ a \in shmids
    /\ detaching' = [detaching EXCEPT ![t] = a]
    /\ UNCHANGED <<free, mapped, attached, shmids, unmapping, stale, aborted, rough>>

\* The free list is updated before the kernel is asked, and whether or not the
\* segment is still attached, unless it no longer exists.
ShmdtDetach(t) ==
    /\ ~aborted
    /\ detaching[t] # 0 /\ t \notin stale
    /\ \/ /\ detaching[t] \in attached
          /\ free' = free \cup {detaching[t]}
          /\ mapped' = mapped \ {detaching[t]}
          /\ attached' = attached \ {detaching[t]}
          /\ shmids' = shmids \ {detaching[t]}
          /\ stale' = stale \cup {u \in Threads \ {t} : detaching[u] = detaching[t]}
          /\ UNCHANGED rough
       \/ /\ detaching[t] \notin attached
          /\ free' \in {free, free \cup {detaching[t]}}
          /\ rough' = rough \cup {"shm"}
          /\ UNCHANGED <<mapped, attached, shmids, stale>>
    /\ detaching' = [detaching EXCEPT ![t] = 0]
    /\ UNCHANGED <<unmapping, aborted>>

\* The entry was erased after t looked it up: the segment read from it may or may
\* not exist, and to erase it once more may end felix86.
ShmdtStale(t) ==
    /\ ~aborted
    /\ t \in stale
    /\ free' \in {free, free \cup {detaching[t]}}
    /\ mapped' = mapped \ (attached \cap {detaching[t]})
    /\ attached' = attached \ {detaching[t]}
    /\ \/ /\ detaching[t] \in attached
          /\ shmids' \in {shmids, shmids \ {detaching[t]}}
          /\ aborted' \in BOOLEAN
       \/ detaching[t] \notin attached /\ UNCHANGED <<shmids, aborted>>
    /\ stale' = stale \ {t}
    /\ rough' = rough \cup {"stale"}
    /\ detaching' = [detaching EXCEPT ![t] = 0]
    /\ UNCHANGED unmapping

-----------------------------------------------------------------------------

Map(t) == \E r \in Requests : MapFixed(t, r) \/ MapNoReplace(t, r) \/ MapAnywhere(t, r)

Unmap(t) == UnmapDeallocate(t) \/ \E r \in Requests : Munmap(t, r)

Remap(t) ==
    \E old, new \in Requests :
        \/ \E d \in BOOLEAN : RemapFixed(t, old, new, d) \/ RemapMove(t, old, new, d)
        \/ \E x \in {0, old.start} : RemapInPlace(t, old, new, x)

Shm(t) ==
    \/ ShmdtDetach(t) \/ ShmdtStale(t)
    \/ \E a \in MinPage .. TopPage : ShmatAt(t, a) \/ ShmatAnywhere(t, a) \/ ShmdtFind(t, a)

Next == \E t \in Threads : Map(t) \/ Unmap(t) \/ Remap(t) \/ Shm(t)

Spec == Init /\ [][Next]_vars

-----------------------------------------------------------------------------
(* Properties. *)

TypeOK ==
    /\ free \subseteq MinPage .. LastPage
    /\ mapped \subseteq MinPage .. TopPage
    /\ attached \subseteq mapped
    /\ shmids \subseteq MinPage .. TopPage
    /\ unmapping \in [Threads -> Requests \cup {None}]
    /\ detaching \in [Threads -> (MinPage .. TopPage) \cup {0}]
    /\ stale \subseteq {t \in Threads : detaching[t] # 0}
    /\ aborted \in BOOLEAN
    /\ rough \subseteq RoughEvents

\* A page the free list may hand out is not mapped: the mmap, mremap and shmat
\* calls at an address of the list's choice rest on it.  Only a race with unmap32,
\* a shmdt of a segment that is gone, or an exit, can break it.
FreeIsUnmapped ==
    rough \cap {"race", "shm", "stale"} = {} /\ ~aborted => free \cap mapped = {}

\* A page that is not in the free list is mapped, or on its way back through
\* unmap32: no part of the 4 GB is lost to the guest.  Only a mapping the kernel
\* refuses, two shmdt calls for one segment at once, or an exit, can break it.
NothingLeaks ==
    rough \cap {"reject", "stale"} = {} /\ ~aborted =>
        (MinPage .. LastPage) \ free
            \subseteq mapped \cup UNION {Pages(unmapping[t]) : t \in Threads}

\* shmdt32 finds every segment that is attached where shmat32 put it.
AttachedIsKnown == "moved" \notin rough => attached \subseteq shmids

\* Without such an event the free list's answers are the ones map32, remap32 and
\* shmat32 assert.
NoAbort == aborted => rough # {}

=============================================================================
