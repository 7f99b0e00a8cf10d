-------------------------------- MODULE Smc --------------------------------
(***************************************************************************)
(* Self-modifying code.  Every guest thread owns a Recompiler with its own *)
(* code cache; all of them translate the same guest memory.  A page whose  *)
(* bytes were translated is made read-only on the host, so that a guest    *)
(* store to it faults; handle_smc then overwrites the entry of every block *)
(* translated from that page, in every thread, with a jump to a stub, and  *)
(* makes the page writable again.  This module interleaves those steps     *)
(* (Recompiler::compile, invalidateAt, invalidateRangeGlobal, handle_smc   *)
(* and the mprotect and mmap system calls) of any number of threads.       *)
(*                                                                         *)
(* A guest block is named by its first address (an element of Blocks); it  *)
(* covers the pages PagesOf[b].  What a page holds is one of Values.       *)
(***************************************************************************)
EXTENDS Integers

CONSTANTS NumThreads,  \* length of g_process_globals.states
          Pages,       \* guest pages that hold code
          Blocks,      \* guest blocks
          PagesOf,     \* the pages of [guest_address, guest_address_end)
          Values,      \* contents a page can have
          NoBlock      \* no block is being dispatched to

ASSUME NumThreadsAssumption == NumThreads \in Nat \ {0}
ASSUME PagesOfAssumption == PagesOf \in [Blocks -> (SUBSET Pages) \ {{}}]
ASSUME ValuesAssumption == Values # {}
ASSUME NoBlockAssumption == NoBlock \notin Blocks

Threads == 1 .. NumThreads

VARIABLES
    mem,         \* guest memory: what each page holds
    prot,        \* host protection of each page: "rw" or "ro"
    code,        \* per thread and block: "none" (BlockMetadata::address is 0),
                 \* "live", or "stub" (entry overwritten by invalidateBlock)
    bytes,       \* what scanAhead last read for the block, on its pages
    pageMap,     \* Recompiler::page_map of each thread
    statesSem,   \* value of the semaphore g_process_globals.states_lock
    pageSem,     \* values of the semaphores Recompiler::page_map_lock
    pc,          \* where each thread is
    blk,         \* the block a thread dispatches to or translates
    cause,       \* why a thread is in invalidateRangeGlobal
    range,       \* the pages it invalidates
    who,         \* index in states of the recompiler it is at
    victims,     \* blocks of that recompiler whose entry is still to be patched
    killed       \* the host process died of a store to address 0

guestVars == <<mem, prot>>
cacheVars == <<code, bytes, pageMap>>
semVars == <<statesSem, pageSem>>
ctlVars == <<pc, blk, cause, range, who, victims>>
vars == <<guestVars, cacheVars, semVars, ctlVars, killed>>

\* Inside Recompiler::compile, before and after the block is in page_map.
Translating == {"scan", "emit", "insert"}
Compiling == Translating \cup {"protect"}

\* Inside Recompiler::invalidateRangeGlobal.
Invalidating == {"states", "page", "patch"}

Labels == {"run", "dispatch", "clear", "unprotect", "retry"}
              \cup Compiling \cup Invalidating

Init ==
    /\ mem \in [Pages -> Values]
    /\ prot = [p \in Pages |-> "rw"]
    /\ code = [t \in Threads |-> [b \in Blocks |-> "none"]]
    /\ bytes = [t \in Threads |-> [b \in Blocks |-> mem]]
    /\ pageMap = [t \in Threads |-> [p \in Pages |-> {}]]
    /\ statesSem = 1
    /\ pageSem = [t \in Threads |-> 1]
    /\ pc = [t \in Threads |-> "run"]
    /\ blk = [t \in Threads |-> NoBlock]
    /\ cause = [t \in Threads |-> "smc"]
    /\ range = [t \in Threads |-> {}]
    /\ who = [t \in Threads |-> 1]
    /\ victims = [t \in Threads |-> {}]
    /\ killed = FALSE

Goto(t, label) == pc' = [pc EXCEPT ![t] = label]

-----------------------------------------------------------------------------
(* The dispatcher and the translation of a block *)

\* Guest control flow reaches block b, which has no code: the link or the
\* address cache misses and the dispatcher calls Emulator::CompileNext.
Branch(t, b) ==
    /\ pc[t] = "run"
    /\ code[t][b] = "none"
    /\ Goto(t, "dispatch")
    /\ blk' = [blk EXCEPT ![t] = b]
    /\ UNCHANGED <<guestVars, cacheVars, semVars, cause, range, who, victims, killed>>

\* Mutant of InvalidateAt: the stub does not go back to the dispatcher.
InvalidateAtStays(t, b) ==
    /\ pc[t] = "run"
    /\ code[t][b] = "stub"
    /\ code' = [code EXCEPT ![t][b] = "none"]
    /\ UNCHANGED <<guestVars, bytes, pageMap, semVars, ctlVars, killed>>

\* Guest control flow reaches a patched entry: the stub calls invalidateAt,
\* which forgets the block's address, and goes back to the dispatcher.
InvalidateAt(t, b) ==
    /\ pc[t] = "run"
    /\ code[t][b] = "stub"
    /\ code' = [code EXCEPT ![t][b] = "none"]
    /\ Goto(t, "dispatch")
    /\ blk' = [blk EXCEPT ![t] = b]
    /\ UNCHANGED <<guestVars, bytes, pageMap, semVars, cause, range, who, victims, killed>>

\* compile finds less than 100KB left in the code cache.
CacheFull(t) ==
    /\ pc[t] = "dispatch"
    /\ code[t][blk[t]] = "none"
    /\ Goto(t, "clear")
    /\ UNCHANGED <<guestVars, cacheVars, semVars, blk, cause, range, who, victims, killed>>

\* Mutant of ClearCodeCache: after the clear, compile starts over.
ClearCodeCacheAndStartOver(t) ==
    /\ pc[t] = "clear"
    /\ pageSem[t] > 0
    /\ code' = [code EXCEPT ![t] = [b \in Blocks |-> "none"]]
    /\ pageMap' = [pageMap EXCEPT ![t] = [p \in Pages |-> {}]]
    /\ Goto(t, "dispatch")
    /\ UNCHANGED <<guestVars, bytes, semVars, blk, cause, range, who, victims, killed>>

\* clearCodeCache, then "Map it immediately": the block gets its address.
ClearCodeCache(t) ==
    /\ pc[t] = "clear"
    /\ pageSem[t] > 0
    /\ code' = [code EXCEPT ![t] = [b \in Blocks |-> IF b = blk[t] THEN "live" ELSE "none"]]
    /\ pageMap' = [pageMap EXCEPT ![t] = [p \in Pages |-> {}]]
    /\ Goto(t, "scan")
    /\ UNCHANGED <<guestVars, bytes, semVars, blk, cause, range, who, victims, killed>>

\* compile with room left: the block gets its address before it has code.
Compile(t) ==
    /\ pc[t] = "dispatch"
    /\ code[t][blk[t]] = "none"
    /\ code' = [code EXCEPT ![t][blk[t]] = "live"]
    /\ Goto(t, "scan")
    /\ UNCHANGED <<guestVars, bytes, pageMap, semVars, blk, cause, range, who, victims, killed>>

\* compileSequence, first part: scanAhead decodes the guest's bytes.
ScanAhead(t) ==
    /\ pc[t] = "scan"
    /\ bytes' = [bytes EXCEPT ![t][blk[t]] =
                    [p \in Pages |-> IF p \in PagesOf[blk[t]] THEN mem[p] ELSE @[p]]]
    /\ Goto(t, "emit")
    /\ UNCHANGED <<guestVars, code, pageMap, semVars, blk, cause, range, who, victims, killed>>

\* compileSequence, second part: host code is emitted from the entry on, over
\* whatever another thread's invalidateBlock stored there in the meantime.
Emit(t) ==
    /\ pc[t] = "emit"
    /\ code' = [code EXCEPT ![t][blk[t]] = "live"]
    /\ Goto(t, "insert")
    /\ UNCHANGED <<guestVars, bytes, pageMap, semVars, blk, cause, range, who, victims, killed>>

\* Mutant of InsertPageMap: the loop over the pages stops before the last one.
InsertPageMapButLast(t) ==
    /\ pc[t] = "insert"
    /\ pageSem[t] > 0
    /\ \E last \in PagesOf[blk[t]] :
          pageMap' = [pageMap EXCEPT ![t] =
                         [p \in Pages |-> IF p \in PagesOf[blk[t]] \ {last}
                                          THEN pageMap[t][p] \cup {blk[t]}
                                          ELSE pageMap[t][p]]]
    /\ Goto(t, "protect")
    /\ UNCHANGED <<guestVars, code, bytes, semVars, blk, cause, range, who, victims, killed>>

\* The critical section of compile: the block joins page_map.
InsertPageMap(t) ==
    /\ pc[t] = "insert"
    /\ pageSem[t] > 0
    /\ pageMap' = [pageMap EXCEPT ![t] =
                      [p \in Pages |-> IF p \in PagesOf[blk[t]]
                                       THEN pageMap[t][p] \cup {blk[t]}
                                       ELSE pageMap[t][p]]]
    /\ Goto(t, "protect")
    /\ UNCHANGED <<guestVars, code, bytes, semVars, blk, cause, range, who, victims, killed>>

\* Mutant of MarkPagesAsReadOnly: a block's second page stays writable.
MarkOnePageAsReadOnly(t) ==
    /\ pc[t] = "protect"
    /\ \E q \in PagesOf[blk[t]] : prot' = [prot EXCEPT ![q] = "ro"]
    /\ Goto(t, "run")
    /\ blk' = [blk EXCEPT ![t] = NoBlock]
    /\ UNCHANGED <<mem, cacheVars, semVars, cause, range, who, victims, killed>>

\* markPagesAsReadOnly; compile returns and the block is entered.
MarkPagesAsReadOnly(t) ==
    /\ pc[t] = "protect"
    /\ prot' = [p \in Pages |-> IF p \in PagesOf[blk[t]] THEN "ro" ELSE prot[p]]
    /\ Goto(t, "run")
    /\ blk' = [blk EXCEPT ![t] = NoBlock]
    /\ UNCHANGED <<mem, cacheVars, semVars, cause, range, who, victims, killed>>

-----------------------------------------------------------------------------
(* Invalidation of a range in every thread *)

\* A call of invalidateRangeGlobal begins.
StartInvalidation(t, why, R) ==
    /\ Goto(t, "states")
    /\ cause' = [cause EXCEPT ![t] = why]
    /\ range' = [range EXCEPT ![t] = R]

\* A guest store to a writable page.
Store(t, p, v) ==
    /\ pc[t] = "run"
    /\ prot[p] = "rw"
    /\ mem' = [mem EXCEPT ![p] = v]
    /\ UNCHANGED <<prot, cacheVars, semVars, ctlVars, killed>>

\* A guest store to a read-only page: SIGSEGV, SEGV_ACCERR, handle_smc.
StoreFaults(t, p) ==
    /\ pc[t] = "run"
    /\ prot[p] = "ro"
    /\ StartInvalidation(t, "smc", {p})
    /\ UNCHANGED <<guestVars, cacheVars, semVars, blk, who, victims, killed>>

\* The guest calls mprotect with PROT_WRITE; the kernel does it first.
Mprotect(t, R) ==
    /\ pc[t] = "run"
    /\ prot' = [p \in Pages |-> IF p \in R THEN "rw" ELSE prot[p]]
    /\ StartInvalidation(t, "mprotect", R)
    /\ UNCHANGED <<mem, cacheVars, semVars, blk, who, victims, killed>>

\* The guest maps new contents over R; the kernel does it first.
Mmap(t, R, v) ==
    /\ pc[t] = "run"
    /\ mem' = [p \in Pages |-> IF p \in R THEN v ELSE mem[p]]
    /\ prot' = [p \in Pages |-> IF p \in R THEN "rw" ELSE prot[p]]
    /\ StartInvalidation(t, "mmap", R)
    /\ UNCHANGED <<cacheVars, semVars, blk, who, victims, killed>>

\* Mutant of LockStates: the guard is a temporary that is gone at once.
LockStatesTemporarily(t) ==
    /\ pc[t] = "states"
    /\ statesSem > 0
    /\ who' = [who EXCEPT ![t] = 1]
    /\ Goto(t, "page")
    /\ UNCHANGED <<guestVars, cacheVars, semVars, blk, cause, range, victims, killed>>

LockStates(t) ==
    /\ pc[t] = "states"
    /\ statesSem > 0
    /\ statesSem' = statesSem - 1
    /\ who' = [who EXCEPT ![t] = 1]
    /\ Goto(t, "page")
    /\ UNCHANGED <<guestVars, cacheVars, pageSem, blk, cause, range, victims, killed>>

\* invalidateRange of the next recompiler: take its lock, find its blocks.
LockPageMap(t) ==
    /\ pc[t] = "page"
    /\ who[t] \in Threads
    /\ pageSem[who[t]] > 0
    /\ pageSem' = [pageSem EXCEPT ![who[t]] = @ - 1]
    /\ victims' = [victims EXCEPT ![t] = UNION {pageMap[who[t]][p] : p \in range[t]}]
    /\ Goto(t, "patch")
    /\ UNCHANGED <<guestVars, cacheVars, statesSem, blk, cause, range, who, killed>>

\* Mutant of InvalidateBlock: the stub is emitted into a buffer that is never
\* copied to the entry of the block.
InvalidateBlockNotStored(t, b) ==
    /\ pc[t] = "patch"
    /\ b \in victims[t]
    /\ code[who[t]][b] # "none"
    /\ victims' = [victims EXCEPT ![t] = @ \ {b}]
    /\ UNCHANGED <<guestVars, cacheVars, semVars, pc, blk, cause, range, who, killed>>

\* invalidateBlock: one atomic store of the stub at BlockMetadata::address.
InvalidateBlock(t, b) ==
    /\ pc[t] = "patch"
    /\ b \in victims[t]
    /\ code[who[t]][b] # "none"
    /\ code' = [code EXCEPT ![who[t]][b] = "stub"]
    /\ victims' = [victims EXCEPT ![t] = @ \ {b}]
    /\ UNCHANGED <<guestVars, bytes, pageMap, semVars, pc, blk, cause, range, who, killed>>

\* invalidateBlock of a block whose address is 0 stores to address 0.
NullStore(t, b) ==
    /\ pc[t] = "patch"
    /\ b \in victims[t]
    /\ code[who[t]][b] = "none"
    /\ killed' = TRUE
    /\ UNCHANGED <<guestVars, cacheVars, semVars, ctlVars>>

\* The pages' vectors are cleared and page_map_lock is released.
ClearPages(t) ==
    /\ pc[t] = "patch"
    /\ victims[t] = {}
    /\ pageMap' = [pageMap EXCEPT ![who[t]] =
                      [p \in Pages |-> IF p \in range[t] THEN {} ELSE pageMap[who[t]][p]]]
    /\ pageSem' = [pageSem EXCEPT ![who[t]] = @ + 1]
    /\ who' = [who EXCEPT ![t] = @ + 1]
    /\ Goto(t, "page")
    /\ UNCHANGED <<guestVars, code, bytes, statesSem, blk, cause, range, victims, killed>>

\* All recompilers are done: flush the icache and release states_lock.
UnlockStates(t) ==
    /\ pc[t] = "page"
    /\ who[t] \notin Threads
    /\ statesSem' = statesSem + 1
    /\ who' = [who EXCEPT ![t] = 1]
    /\ Goto(t, IF cause[t] = "smc" THEN "unprotect" ELSE "run")
    /\ range' = [range EXCEPT ![t] = IF cause[t] = "smc" THEN @ ELSE {}]
    /\ UNCHANGED <<guestVars, cacheVars, pageSem, blk, cause, victims, killed>>

\* Mutant of Unprotect: handle_smc returns past the store instead of to it.
UnprotectAndSkip(t) ==
    /\ pc[t] = "unprotect"
    /\ prot' = [p \in Pages |-> IF p \in range[t] THEN "rw" ELSE prot[p]]
    /\ Goto(t, "run")
    /\ UNCHANGED <<mem, cacheVars, semVars, blk, cause, range, who, victims, killed>>

\* handle_smc makes the page writable and returns to the faulting store.
Unprotect(t) ==
    /\ pc[t] = "unprotect"
    /\ prot' = [p \in Pages |-> IF p \in range[t] THEN "rw" ELSE prot[p]]
    /\ Goto(t, "retry")
    /\ UNCHANGED <<mem, cacheVars, semVars, blk, cause, range, who, victims, killed>>

\* The store is executed again and hits a writable page ...
RetryStore(t, v) ==
    /\ pc[t] = "retry"
    /\ \A p \in range[t] : prot[p] = "rw"
    /\ mem' = [p \in Pages |-> IF p \in range[t] THEN v ELSE mem[p]]
    /\ Goto(t, "run")
    /\ range' = [range EXCEPT ![t] = {}]
    /\ UNCHANGED <<prot, cacheVars, semVars, blk, cause, who, victims, killed>>

\* ... or one that was made read-only again, and faults again.
RetryFaults(t) ==
    /\ pc[t] = "retry"
    /\ \E p \in range[t] : prot[p] = "ro"
    /\ Goto(t, "states")
    /\ UNCHANGED <<guestVars, cacheVars, semVars, blk, cause, range, who, victims, killed>>

\* What thread t does on its own once it is inside the emulator.
Emulator(t) ==
    \/ CacheFull(t) \/ ClearCodeCache(t) \/ Compile(t)
    \/ ScanAhead(t) \/ Emit(t) \/ InsertPageMap(t) \/ MarkPagesAsReadOnly(t)
    \/ LockStates(t) \/ LockPageMap(t)
    \/ \E b \in Blocks : InvalidateBlock(t, b) \/ NullStore(t, b)
    \/ ClearPages(t) \/ UnlockStates(t) \/ Unprotect(t)
    \/ \E v \in Values : RetryStore(t, v)
    \/ RetryFaults(t)

\* What the guest program running on thread t asks for.
Guest(t) ==
    \/ \E b \in Blocks : Branch(t, b) \/ InvalidateAt(t, b)
    \/ \E p \in Pages : StoreFaults(t, p)
    \/ \E p \in Pages, v \in Values : Store(t, p, v)
    \/ \E R \in (SUBSET Pages) \ {{}} : Mprotect(t, R)
    \/ \E R \in (SUBSET Pages) \ {{}}, v \in Values : Mmap(t, R, v)

Next == ~killed /\ \E t \in Threads : Emulator(t) \/ Guest(t)

Spec == Init /\ [][Next]_vars

\* A waiting sem_wait gets the semaphore if it is released again and again,
\* and a thread inside the emulator is scheduled.
Fairness ==
    \A t \in Threads : /\ WF_vars(~killed /\ Emulator(t))
                       /\ SF_vars(~killed /\ LockStates(t))
                       /\ SF_vars(~killed /\ InsertPageMap(t))
                       /\ SF_vars(~killed /\ ClearCodeCache(t))

FairSpec == Spec /\ Fairness

-----------------------------------------------------------------------------
(* Properties *)

TypeOK ==
    /\ mem \in [Pages -> Values]
    /\ prot \in [Pages -> {"rw", "ro"}]
    /\ code \in [Threads -> [Blocks -> {"none", "live", "stub"}]]
    /\ bytes \in [Threads -> [Blocks -> [Pages -> Values]]]
    /\ pageMap \in [Threads -> [Pages -> SUBSET Blocks]]
    /\ statesSem \in {0, 1}
    /\ pageSem \in [Threads -> {0, 1}]
    /\ pc \in [Threads -> Labels]
    /\ blk \in [Threads -> Blocks \cup {NoBlock}]
    /\ cause \in [Threads -> {"smc", "mprotect", "mmap"}]
    /\ range \in [Threads -> SUBSET Pages]
    /\ who \in [Threads -> 1 .. NumThreads + 1]
    /\ victims \in [Threads -> SUBSET Blocks]
    /\ killed \in BOOLEAN

\* The block can be entered and runs its translation.
Live(t, b) == code[t][b] = "live" /\ ~(pc[t] \in Compiling /\ blk[t] = b)

\* Some thread is about to patch what was translated from page p.
BeingInvalidated(p) == \E t \in Threads : pc[t] \in Invalidating /\ p \in range[t]

\* Every block that can be entered is in page_map of all the pages it covers,
\* whatever invalidations, cache clears and translations overlap: what
\* invalidateRange walks is all there is to invalidate.
LiveBlocksRegistered ==
    \A t \in Threads, b \in Blocks :
        Live(t, b) => \A p \in PagesOf[b] : b \in pageMap[t][p]

\* At most one thread walks or changes a recompiler's page_map at a time
\* although two different locks are taken on the way: whoever patches a
\* recompiler holds its semaphore and states_lock.
PatchingIsExclusive ==
    \A t, u \in Threads :
        pc[t] = "patch" /\ pc[u] \in {"page", "patch"} => t = u /\ pageSem[who[t]] = 0

\* The inductive strengthening of the two above, for any number of threads.
\* The block a thread dispatches to or translates is a block.
DispatchInv ==
    \A t \in Threads : pc[t] \in {"dispatch", "clear"} \cup Compiling => blk[t] \in Blocks

\* A thread past LockStates has states_lock alone; one that patches also has
\* the page_map_lock of the recompiler it is at.
LockInv ==
    /\ \A t \in Threads : pc[t] \in {"page", "patch"} => statesSem = 0
    /\ \A t, u \in Threads :
           pc[t] \in {"page", "patch"} /\ pc[u] \in {"page", "patch"} => t = u
    /\ \A t \in Threads : pc[t] = "patch" => who[t] \in Threads /\ pageSem[who[t]] = 0

\* A block with code is in page_map unless its translation has not got there.
RegisterInv ==
    \A t \in Threads, b \in Blocks :
        code[t][b] = "live" /\ ~(pc[t] \in Translating /\ blk[t] = b)
            => \A p \in PagesOf[b] : b \in pageMap[t][p]

\* What a patching thread has dealt with stays dealt with until it clears the
\* vectors: at most a new translation of it waits for page_map_lock.
PatchInv ==
    \A t \in Threads : pc[t] = "patch" =>
        \A p \in range[t] : \A b \in pageMap[who[t]][p] \ victims[t] :
            code[who[t]][b] = "live" => pc[who[t]] \in Translating /\ blk[who[t]] = b

CacheInv == DispatchInv /\ LockInv /\ RegisterInv /\ PatchInv

IndInv == TypeOK /\ CacheInv

\* No thread can run a translation of bytes that are no longer in memory,
\* unless their invalidation is under way.
Coherent ==
    \A t \in Threads, b \in Blocks :
        Live(t, b) => \A p \in PagesOf[b] :
                          bytes[t][b][p] = mem[p] \/ BeingInvalidated(p)

\* "Mark the page as read-only to catch self-modifying code": a store to any
\* page of a block that can be entered will fault.
LiveBlocksProtected ==
    \A t \in Threads, b \in Blocks :
        Live(t, b) => \A p \in PagesOf[b] : prot[p] = "ro" \/ BeingInvalidated(p)

\* "Setting it to 0 should be enough": no block whose address is 0 is left
\* where invalidateRange finds it, so that no stub is stored to address 0.
NoNullStore == ~killed

\* The inductive strengthening of the three above for a single thread.
\* Nothing changes the bytes between scanAhead and markPagesAsReadOnly.
FreshInv(t) ==
    pc[t] \in {"emit", "insert", "protect"} =>
        \A p \in PagesOf[blk[t]] : bytes[t][blk[t]][p] = mem[p]

\* A block that can be entered is up to date on protected pages.
GuardedInv(t) ==
    \A b \in Blocks : Live(t, b) =>
        \A p \in PagesOf[b] : \/ bytes[t][b][p] = mem[p] /\ prot[p] = "ro"
                              \/ pc[t] \in Invalidating /\ p \in range[t]

\* Once the range is invalidated no block of it can be entered.
DoneInv(t) ==
    pc[t] \in {"unprotect", "retry"} \/ (pc[t] = "page" /\ who[t] \notin Threads) =>
        \A b \in Blocks : code[t][b] = "live" => PagesOf[b] \cap range[t] = {}

\* Only the block about to be translated may be in page_map with address 0.
AddressInv(t) ==
    /\ pc[t] \in Compiling => code[t][blk[t]] # "none"
    /\ \A p \in Pages : \A b \in pageMap[t][p] :
           code[t][b] = "none" => pc[t] \in {"dispatch", "clear"} /\ blk[t] = b

\* What is still to be patched is in page_map.
VictimInv(t) ==
    pc[t] = "patch" =>
        \A b \in victims[t] : \E p \in Pages : b \in pageMap[who[t]][p]

OneThreadInv ==
    /\ NoNullStore
    /\ \A t \in Threads :
           FreshInv(t) /\ GuardedInv(t) /\ DoneInv(t) /\ AddressInv(t) /\ VictimInv(t)

\* The handler of a faulting store returns to the store: no thread waits
\* for ever on states_lock or on a page_map_lock.
FaultIsHandled ==
    \A t \in Threads : pc[t] = "states" /\ cause[t] = "smc" ~> pc[t] = "retry" \/ killed

\* A block that is being translated gets to run.
TranslationEnds ==
    \A t \in Threads : pc[t] = "dispatch" ~> pc[t] = "run" \/ killed
=============================================================================
