----------------------------- MODULE SmcProofs -----------------------------
(***************************************************************************)
(* Proofs about Smc for every number of threads, pages and blocks, and for *)
(* a guest with a single thread, whose translations are never stale.       *)
(***************************************************************************)
EXTENDS Smc, TLAPS

\* The initial state satisfies the inductive invariant.
LEMMA InitIndInv == Init => IndInv
<1> SUFFICES ASSUME Init PROVE IndInv
  OBVIOUS
<1> USE NumThreadsAssumption, PagesOfAssumption, ValuesAssumption, NoBlockAssumption
<1> USE DEF Init, Threads, Labels, Compiling, Translating, Invalidating
<1>1. TypeOK
  <2>1. mem \in [Pages -> Values] /\ prot \in [Pages -> {"rw", "ro"}]
    OBVIOUS
  <2>2. code \in [Threads -> [Blocks -> {"none", "live", "stub"}]]
    OBVIOUS
  <2>3. bytes \in [Threads -> [Blocks -> [Pages -> Values]]]
    OBVIOUS
  <2>4. pageMap \in [Threads -> [Pages -> SUBSET Blocks]]
    OBVIOUS
  <2>5. who \in [Threads -> 1 .. NumThreads + 1] /\ pageSem \in [Threads -> {0, 1}]
    OBVIOUS
  <2>6. blk \in [Threads -> Blocks \cup {NoBlock}] /\ pc \in [Threads -> Labels]
    OBVIOUS
  <2>7. range \in [Threads -> SUBSET Pages] /\ victims \in [Threads -> SUBSET Blocks]
    OBVIOUS
  <2>8. cause \in [Threads -> {"smc", "mprotect", "mmap"}]
    OBVIOUS
  <2>9. QED
    BY <2>1, <2>2, <2>3, <2>4, <2>5, <2>6, <2>7, <2>8 DEF TypeOK
<1>2. CacheInv
  BY DEF CacheInv, DispatchInv, LockInv, RegisterInv, PatchInv
<1>3. QED
  BY <1>1, <1>2 DEF IndInv

\* Every step preserves the types: a semaphore released by its holder goes
\* from 0 to 1, and the block being translated is a block.
LEMMA NextTypeOK == IndInv /\ [Next]_vars => TypeOK'
<1> SUFFICES ASSUME IndInv, [Next]_vars PROVE TypeOK'
  OBVIOUS
<1> USE NumThreadsAssumption, PagesOfAssumption, ValuesAssumption, NoBlockAssumption
<1> USE DEF IndInv, TypeOK, CacheInv, Threads, Labels, Compiling, Translating, Invalidating,
            guestVars, cacheVars, semVars, ctlVars, Goto
<1>1. ASSUME NEW t \in Threads, NEW b \in Blocks, Branch(t, b) PROVE TypeOK'
  BY <1>1 DEF Branch
<1>2. ASSUME NEW t \in Threads, NEW b \in Blocks, InvalidateAt(t, b) PROVE TypeOK'
  BY <1>2 DEF InvalidateAt
<1>3. ASSUME NEW t \in Threads, CacheFull(t) PROVE TypeOK'
  BY <1>3 DEF CacheFull
<1>4. ASSUME NEW t \in Threads, ClearCodeCache(t) PROVE TypeOK'
  BY <1>4 DEF ClearCodeCache
<1>5. ASSUME NEW t \in Threads, Compile(t) PROVE TypeOK'
  BY <1>5 DEF Compile, DispatchInv
<1>6. ASSUME NEW t \in Threads, ScanAhead(t) PROVE TypeOK'
  BY <1>6 DEF ScanAhead, DispatchInv
<1>7. ASSUME NEW t \in Threads, Emit(t) PROVE TypeOK'
  BY <1>7 DEF Emit, DispatchInv
<1>8. ASSUME NEW t \in Threads, InsertPageMap(t) PROVE TypeOK'
  BY <1>8 DEF InsertPageMap, DispatchInv
<1>9. ASSUME NEW t \in Threads, MarkPagesAsReadOnly(t) PROVE TypeOK'
  BY <1>9 DEF MarkPagesAsReadOnly
<1>10. ASSUME NEW t \in Threads, NEW p \in Pages, NEW v \in Values, Store(t, p, v) PROVE TypeOK'
  BY <1>10 DEF Store
<1>11. ASSUME NEW t \in Threads, NEW p \in Pages, StoreFaults(t, p) PROVE TypeOK'
  BY <1>11 DEF StoreFaults, StartInvalidation
<1>12. ASSUME NEW t \in Threads, NEW R \in SUBSET Pages, Mprotect(t, R) PROVE TypeOK'
  BY <1>12 DEF Mprotect, StartInvalidation
<1>13. ASSUME NEW t \in Threads, NEW R \in SUBSET Pages, NEW v \in Values, Mmap(t, R, v) PROVE TypeOK'
  BY <1>13 DEF Mmap, StartInvalidation
<1>14. ASSUME NEW t \in Threads, LockStates(t) PROVE TypeOK'
  BY <1>14 DEF LockStates
<1>15. ASSUME NEW t \in Threads, LockPageMap(t) PROVE TypeOK'
  <2>1. UNION {pageMap[who[t]][p] : p \in range[t]} \in SUBSET Blocks
    BY <1>15 DEF LockPageMap
  <2>2. QED
    BY <1>15, <2>1 DEF LockPageMap
<1>16. ASSUME NEW t \in Threads, NEW b \in Blocks, InvalidateBlock(t, b) PROVE TypeOK'
  BY <1>16 DEF InvalidateBlock, LockInv
<1>17. ASSUME NEW t \in Threads, NEW b \in Blocks, NullStore(t, b) PROVE TypeOK'
  BY <1>17 DEF NullStore
<1>18. ASSUME NEW t \in Threads, ClearPages(t) PROVE TypeOK'
  BY <1>18 DEF ClearPages, LockInv
<1>19. ASSUME NEW t \in Threads, UnlockStates(t) PROVE TypeOK'
  BY <1>19 DEF UnlockStates, LockInv
<1>20. ASSUME NEW t \in Threads, Unprotect(t) PROVE TypeOK'
  BY <1>20 DEF Unprotect
<1>21. ASSUME NEW t \in Threads, NEW v \in Values, RetryStore(t, v) PROVE TypeOK'
  BY <1>21 DEF RetryStore
<1>22. ASSUME NEW t \in Threads, RetryFaults(t) PROVE TypeOK'
  BY <1>22 DEF RetryFaults
<1>23. ASSUME UNCHANGED vars PROVE TypeOK'
  BY <1>23 DEF vars
<1>24. QED
  BY <1>1, <1>2, <1>3, <1>4, <1>5, <1>6, <1>7, <1>8, <1>9, <1>10, <1>11, <1>12, <1>13,
     <1>14, <1>15, <1>16, <1>17, <1>18, <1>19, <1>20, <1>21, <1>22, <1>23
     DEF Next, Emulator, Guest

\* Every step preserves the lock discipline and the registration of blocks:
\* a block translated while another thread patches waits at page_map_lock, so
\* that clearing the vectors forgets no block that can be entered.
LEMMA NextCacheInv == IndInv /\ [Next]_vars => CacheInv'
<1> SUFFICES ASSUME IndInv, [Next]_vars PROVE CacheInv'
  OBVIOUS
<1> USE NumThreadsAssumption, PagesOfAssumption, ValuesAssumption, NoBlockAssumption
<1> USE DEF IndInv, TypeOK, CacheInv, Threads, Labels, Compiling, Translating, Invalidating,
            guestVars, cacheVars, semVars, ctlVars, Goto
<1>1. ASSUME NEW t \in Threads, NEW b \in Blocks, Branch(t, b) PROVE CacheInv'
  <2>1. DispatchInv'
    BY <1>1 DEF Branch, DispatchInv
  <2>2. LockInv'
    BY <1>1 DEF Branch, LockInv
  <2>3. RegisterInv'
    BY <1>1 DEF Branch, DispatchInv, RegisterInv
  <2>4. PatchInv'
    BY <1>1 DEF Branch, DispatchInv, LockInv, PatchInv
  <2> QED
    BY <2>1, <2>2, <2>3, <2>4
<1>2. ASSUME NEW t \in Threads, NEW b \in Blocks, InvalidateAt(t, b) PROVE CacheInv'
  <2>1. DispatchInv'
    BY <1>2 DEF InvalidateAt, DispatchInv
  <2>2. LockInv'
    BY <1>2 DEF InvalidateAt, LockInv
  <2>3. RegisterInv'
    BY <1>2 DEF InvalidateAt, DispatchInv, RegisterInv
  <2>4. PatchInv'
    BY <1>2 DEF InvalidateAt, DispatchInv, LockInv, PatchInv
  <2> QED
    BY <2>1, <2>2, <2>3, <2>4
<1>3. ASSUME NEW t \in Threads, CacheFull(t) PROVE CacheInv'
  <2>1. DispatchInv'
    BY <1>3 DEF CacheFull, DispatchInv
  <2>2. LockInv'
    BY <1>3 DEF CacheFull, LockInv
  <2>3. RegisterInv'
    BY <1>3 DEF CacheFull, DispatchInv, RegisterInv
  <2>4. PatchInv'
    BY <1>3 DEF CacheFull, DispatchInv, LockInv, PatchInv
  <2> QED
    BY <2>1, <2>2, <2>3, <2>4
<1>4. ASSUME NEW t \in Threads, ClearCodeCache(t) PROVE CacheInv'
  <2>1. DispatchInv'
    BY <1>4 DEF ClearCodeCache, DispatchInv
  <2>2. LockInv'
    BY <1>4 DEF ClearCodeCache, LockInv
  <2>3. RegisterInv'
    BY <1>4 DEF ClearCodeCache, DispatchInv, RegisterInv
  <2>4. PatchInv'
    BY <1>4 DEF ClearCodeCache, DispatchInv, LockInv, PatchInv
  <2> QED
    BY <2>1, <2>2, <2>3, <2>4
<1>5. ASSUME NEW t \in Threads, Compile(t) PROVE CacheInv'
  <2>1. DispatchInv'
    BY <1>5 DEF Compile, DispatchInv
  <2>2. LockInv'
    BY <1>5 DEF Compile, LockInv
  <2>3. RegisterInv'
    BY <1>5 DEF Compile, DispatchInv, RegisterInv
  <2>4. PatchInv'
    BY <1>5 DEF Compile, DispatchInv, LockInv, PatchInv
  <2> QED
    BY <2>1, <2>2, <2>3, <2>4
<1>6. ASSUME NEW t \in Threads, ScanAhead(t) PROVE CacheInv'
  <2>1. DispatchInv'
    BY <1>6 DEF ScanAhead, DispatchInv
  <2>2. LockInv'
    BY <1>6 DEF ScanAhead, LockInv
  <2>3. RegisterInv'
    BY <1>6 DEF ScanAhead, DispatchInv, RegisterInv
  <2>4. PatchInv'
    BY <1>6 DEF ScanAhead, DispatchInv, LockInv, PatchInv
  <2> QED
    BY <2>1, <2>2, <2>3, <2>4
<1>7. ASSUME NEW t \in Threads, Emit(t) PROVE CacheInv'
  <2>1. DispatchInv'
    BY <1>7 DEF Emit, DispatchInv
  <2>2. LockInv'
    BY <1>7 DEF Emit, LockInv
  <2>3. RegisterInv'
    BY <1>7 DEF Emit, DispatchInv, RegisterInv
  <2>4. PatchInv'
    BY <1>7 DEF Emit, DispatchInv, LockInv, PatchInv
  <2> QED
    BY <2>1, <2>2, <2>3, <2>4
<1>8. ASSUME NEW t \in Threads, InsertPageMap(t) PROVE CacheInv'
  <2>1. DispatchInv'
    BY <1>8 DEF InsertPageMap, DispatchInv
  <2>2. LockInv'
    BY <1>8 DEF InsertPageMap, LockInv
  <2>3. RegisterInv'
    BY <1>8 DEF InsertPageMap, DispatchInv, RegisterInv
  <2>4. PatchInv'
    BY <1>8 DEF InsertPageMap, DispatchInv, LockInv, PatchInv
  <2> QED
    BY <2>1, <2>2, <2>3, <2>4
<1>9. ASSUME NEW t \in Threads, MarkPagesAsReadOnly(t) PROVE CacheInv'
  <2>1. DispatchInv'
    BY <1>9 DEF MarkPagesAsReadOnly, DispatchInv
  <2>2. LockInv'
    BY <1>9 DEF MarkPagesAsReadOnly, LockInv
  <2>3. RegisterInv'
    BY <1>9 DEF MarkPagesAsReadOnly, DispatchInv, RegisterInv
  <2>4. PatchInv'
    BY <1>9 DEF MarkPagesAsReadOnly, DispatchInv, LockInv, PatchInv
  <2> QED
    BY <2>1, <2>2, <2>3, <2>4
<1>10. ASSUME NEW t \in Threads, NEW p \in Pages, NEW v \in Values, Store(t, p, v) PROVE CacheInv'
  <2>1. DispatchInv'
    BY <1>10 DEF Store, DispatchInv
  <2>2. LockInv'
    BY <1>10 DEF Store, LockInv
  <2>3. RegisterInv'
    BY <1>10 DEF Store, DispatchInv, RegisterInv
  <2>4. PatchInv'
    BY <1>10 DEF Store, DispatchInv, LockInv, PatchInv
  <2> QED
    BY <2>1, <2>2, <2>3, <2>4
<1>11. ASSUME NEW t \in Threads, NEW p \in Pages, StoreFaults(t, p) PROVE CacheInv'
  <2>1. DispatchInv'
    BY <1>11 DEF StoreFaults, StartInvalidation, DispatchInv
  <2>2. LockInv'
    BY <1>11 DEF StoreFaults, StartInvalidation, LockInv
  <2>3. RegisterInv'
    BY <1>11 DEF StoreFaults, StartInvalidation, DispatchInv, RegisterInv
  <2>4. PatchInv'
    BY <1>11 DEF StoreFaults, StartInvalidation, DispatchInv, LockInv, PatchInv
  <2> QED
    BY <2>1, <2>2, <2>3, <2>4
<1>12. ASSUME NEW t \in Threads, NEW R \in SUBSET Pages, Mprotect(t, R) PROVE CacheInv'
  <2>1. DispatchInv'
    BY <1>12 DEF Mprotect, StartInvalidation, DispatchInv
  <2>2. LockInv'
    BY <1>12 DEF Mprotect, StartInvalidation, LockInv
  <2>3. RegisterInv'
    BY <1>12 DEF Mprotect, StartInvalidation, DispatchInv, RegisterInv
  <2>4. PatchInv'
    BY <1>12 DEF Mprotect, StartInvalidation, DispatchInv, LockInv, PatchInv
  <2> QED
    BY <2>1, <2>2, <2>3, <2>4
<1>13. ASSUME NEW t \in Threads, NEW R \in SUBSET Pages, NEW v \in Values, Mmap(t, R, v) PROVE CacheInv'
  <2>1. DispatchInv'
    BY <1>13 DEF Mmap, StartInvalidation, DispatchInv
  <2>2. LockInv'
    BY <1>13 DEF Mmap, StartInvalidation, LockInv
  <2>3. RegisterInv'
    BY <1>13 DEF Mmap, StartInvalidation, DispatchInv, RegisterInv
  <2>4. PatchInv'
    BY <1>13 DEF Mmap, StartInvalidation, DispatchInv, LockInv, PatchInv
  <2> QED
    BY <2>1, <2>2, <2>3, <2>4
<1>14. ASSUME NEW t \in Threads, LockStates(t) PROVE CacheInv'
  <2>1. DispatchInv'
    BY <1>14 DEF LockStates, DispatchInv
  <2>2. LockInv'
    BY <1>14 DEF LockStates, LockInv
  <2>3. RegisterInv'
    BY <1>14 DEF LockStates, DispatchInv, RegisterInv
  <2>4. PatchInv'
    BY <1>14 DEF LockStates, DispatchInv, LockInv, PatchInv
  <2> QED
    BY <2>1, <2>2, <2>3, <2>4
<1>15. ASSUME NEW t \in Threads, LockPageMap(t) PROVE CacheInv'
  <2>1. DispatchInv'
    BY <1>15 DEF LockPageMap, DispatchInv
  <2>2. LockInv'
    BY <1>15 DEF LockPageMap, LockInv
  <2>3. RegisterInv'
    BY <1>15 DEF LockPageMap, DispatchInv, RegisterInv
  <2>4. PatchInv'
    BY <1>15 DEF LockPageMap, LockInv, PatchInv
  <2> QED
    BY <2>1, <2>2, <2>3, <2>4
<1>16. ASSUME NEW t \in Threads, NEW b \in Blocks, InvalidateBlock(t, b) PROVE CacheInv'
  <2>1. DispatchInv'
    BY <1>16 DEF InvalidateBlock, DispatchInv
  <2>2. LockInv'
    BY <1>16 DEF InvalidateBlock, LockInv
  <2>3. RegisterInv'
    BY <1>16 DEF InvalidateBlock, DispatchInv, RegisterInv
  <2>4. PatchInv'
    BY <1>16 DEF InvalidateBlock, DispatchInv, LockInv, PatchInv
  <2> QED
    BY <2>1, <2>2, <2>3, <2>4
<1>17. ASSUME NEW t \in Threads, NEW b \in Blocks, NullStore(t, b) PROVE CacheInv'
  <2>1. DispatchInv'
    BY <1>17 DEF NullStore, DispatchInv
  <2>2. LockInv'
    BY <1>17 DEF NullStore, LockInv
  <2>3. RegisterInv'
    BY <1>17 DEF NullStore, DispatchInv, RegisterInv
  <2>4. PatchInv'
    BY <1>17 DEF NullStore, DispatchInv, LockInv, PatchInv
  <2> QED
    BY <2>1, <2>2, <2>3, <2>4
<1>18. ASSUME NEW t \in Threads, ClearPages(t) PROVE CacheInv'
  <2>1. DispatchInv'
    BY <1>18 DEF ClearPages, DispatchInv
  <2>2. LockInv'
    BY <1>18 DEF ClearPages, LockInv
  <2>3. RegisterInv'
    BY <1>18 DEF ClearPages, DispatchInv, LockInv, PatchInv, RegisterInv
  <2>4. PatchInv'
    BY <1>18 DEF ClearPages, DispatchInv, LockInv, PatchInv
  <2> QED
    BY <2>1, <2>2, <2>3, <2>4
<1>19. ASSUME NEW t \in Threads, UnlockStates(t) PROVE CacheInv'
  <2>1. DispatchInv'
    BY <1>19 DEF UnlockStates, DispatchInv
  <2>2. LockInv'
    BY <1>19 DEF UnlockStates, LockInv
  <2>3. RegisterInv'
    BY <1>19 DEF UnlockStates, DispatchInv, RegisterInv
  <2>4. PatchInv'
    BY <1>19 DEF UnlockStates, DispatchInv, LockInv, PatchInv
  <2> QED
    BY <2>1, <2>2, <2>3, <2>4
<1>20. ASSUME NEW t \in Threads, Unprotect(t) PROVE CacheInv'
  <2>1. DispatchInv'
    BY <1>20 DEF Unprotect, DispatchInv
  <2>2. LockInv'
    BY <1>20 DEF Unprotect, LockInv
  <2>3. RegisterInv'
    BY <1>20 DEF Unprotect, DispatchInv, RegisterInv
  <2>4. PatchInv'
    BY <1>20 DEF Unprotect, DispatchInv, LockInv, PatchInv
  <2> QED
    BY <2>1, <2>2, <2>3, <2>4
<1>21. ASSUME NEW t \in Threads, NEW v \in Values, RetryStore(t, v) PROVE CacheInv'
  <2>1. DispatchInv'
    BY <1>21 DEF RetryStore, DispatchInv
  <2>2. LockInv'
    BY <1>21 DEF RetryStore, LockInv
  <2>3. RegisterInv'
    BY <1>21 DEF RetryStore, DispatchInv, RegisterInv
  <2>4. PatchInv'
    BY <1>21 DEF RetryStore, DispatchInv, LockInv, PatchInv
  <2> QED
    BY <2>1, <2>2, <2>3, <2>4
<1>22. ASSUME NEW t \in Threads, RetryFaults(t) PROVE CacheInv'
  <2>1. DispatchInv'
    BY <1>22 DEF RetryFaults, DispatchInv
  <2>2. LockInv'
    BY <1>22 DEF RetryFaults, LockInv
  <2>3. RegisterInv'
    BY <1>22 DEF RetryFaults, DispatchInv, RegisterInv
  <2>4. PatchInv'
    BY <1>22, SMTT(30) DEF RetryFaults, DispatchInv, LockInv, PatchInv
  <2> QED
    BY <2>1, <2>2, <2>3, <2>4
<1>23. ASSUME UNCHANGED vars PROVE CacheInv'
  <2>1. DispatchInv'
    BY <1>23 DEF vars, DispatchInv
  <2>2. LockInv'
    BY <1>23 DEF vars, LockInv
  <2>3. RegisterInv'
    BY <1>23 DEF vars, DispatchInv, RegisterInv
  <2>4. PatchInv'
    BY <1>23 DEF vars, DispatchInv, LockInv, PatchInv
  <2> QED
    BY <2>1, <2>2, <2>3, <2>4
<1>24. QED
  BY <1>1, <1>2, <1>3, <1>4, <1>5, <1>6, <1>7, <1>8, <1>9, <1>10, <1>11, <1>12, <1>13,
     <1>14, <1>15, <1>16, <1>17, <1>18, <1>19, <1>20, <1>21, <1>22, <1>23
     DEF Next, Emulator, Guest

\* The invariant holds in every reachable state, for any number of threads.
LEMMA Invariance == Spec => []IndInv
<1>1. IndInv /\ [Next]_vars => IndInv'
  BY NextTypeOK, NextCacheInv DEF IndInv
<1>2. QED
  BY InitIndInv, <1>1, PTL DEF Spec

\* Types, and both kinds of semaphore stay at 0 or 1: whatever the threads'
\* translations and invalidations, each release matches an acquisition.
THEOREM TypeCorrect == Spec => []TypeOK
<1>1. IndInv => TypeOK
  BY DEF IndInv
<1>2. QED
  BY Invariance, <1>1, PTL

\* No block escapes invalidation: whatever invalidateRange, clearCodeCache and
\* compile do concurrently, a block that can be entered is in page_map under
\* every page it covers.
THEOREM InvalidationIsComplete == Spec => []LiveBlocksRegistered
<1>1. IndInv => LiveBlocksRegistered
  BY DEF IndInv, CacheInv, RegisterInv, LiveBlocksRegistered, Live, Compiling
<1>2. QED
  BY Invariance, <1>1, PTL

\* The order states_lock, page_map_lock gives one patching thread at a time.
THEOREM PatchingExcludes == Spec => []PatchingIsExclusive
<1>1. IndInv => PatchingIsExclusive
  BY DEF IndInv, CacheInv, LockInv, PatchingIsExclusive
<1>2. QED
  BY Invariance, <1>1, PTL

-----------------------------------------------------------------------------
(* A guest with a single thread.                                           *)


\* With a single thread nothing comes between scanAhead and
\* markPagesAsReadOnly, nor between the invalidation and the store.
LEMMA NextOneThreadInv ==
  ASSUME NumThreads = 1
  PROVE  IndInv /\ OneThreadInv /\ [Next]_vars => OneThreadInv'
<1> SUFFICES ASSUME IndInv, OneThreadInv, [Next]_vars PROVE OneThreadInv'
  OBVIOUS
<1>one. Threads = {1}
  BY DEF Threads
<1>pc. pc \in [Threads -> Labels] /\ blk \in [Threads -> Blocks \cup {NoBlock}]
  BY DEF IndInv, TypeOK
<1>blk. \A t \in Threads : pc[t] \in {"dispatch", "clear"} \cup Compiling => blk[t] \in Blocks
  BY DEF IndInv, CacheInv, DispatchInv
<1>code. code \in [Threads -> [Blocks -> {"none", "live", "stub"}]]
  BY DEF IndInv, TypeOK
<1>mem. mem \in [Pages -> Values] /\ prot \in [Pages -> {"rw", "ro"}]
  BY DEF IndInv, TypeOK
<1>bytes. bytes \in [Threads -> [Blocks -> [Pages -> Values]]]
  BY DEF IndInv, TypeOK
<1>map. pageMap \in [Threads -> [Pages -> SUBSET Blocks]]
  BY DEF IndInv, TypeOK
<1>sub. \A t \in Threads, p \in Pages : pageMap[t][p] \subseteq Blocks
  BY <1>map
<1>ctl. /\ range \in [Threads -> SUBSET Pages]
        /\ victims \in [Threads -> SUBSET Blocks]
        /\ who \in [Threads -> 1 .. NumThreads + 1]
  BY DEF IndInv, TypeOK
<1>own. \A t \in Threads : pc[t] = "patch" => who[t] = t
  BY <1>one DEF IndInv, CacheInv, LockInv
<1>inv. \A t \in Threads :
            FreshInv(t) /\ GuardedInv(t) /\ DoneInv(t) /\ AddressInv(t) /\ VictimInv(t)
  BY DEF OneThreadInv
<1>goal. ASSUME NEW t \in Threads, NoNullStore', FreshInv(t)', GuardedInv(t)', DoneInv(t)',
                AddressInv(t)', VictimInv(t)'
         PROVE  OneThreadInv'
  BY <1>one, <1>goal DEF OneThreadInv, Threads
<1> USE DEF Compiling, Translating, Invalidating, guestVars, cacheVars, semVars, ctlVars, Goto
<1>1. ASSUME NEW t \in Threads, NEW b \in Blocks, Branch(t, b) PROVE OneThreadInv'
  <2>1. FreshInv(t)'
    BY <1>1, <1>pc, <1>inv DEF Branch, FreshInv
  <2>2. GuardedInv(t)'
    BY <1>1, <1>pc, <1>blk, <1>code, <1>inv DEF Branch, GuardedInv, Live
  <2>3. DoneInv(t)'
    BY <1>1, <1>pc, <1>inv DEF Branch, DoneInv
  <2>4. AddressInv(t)'
    BY <1>1, <1>pc, <1>blk, <1>code, <1>inv DEF Branch, AddressInv
  <2>5. VictimInv(t)'
    BY <1>1, <1>pc, <1>inv DEF Branch, VictimInv
  <2>6. NoNullStore'
    BY <1>1 DEF Branch, NoNullStore, OneThreadInv
  <2> QED
    BY <2>1, <2>2, <2>3, <2>4, <2>5, <2>6, <1>goal
<1>2. ASSUME NEW t \in Threads, NEW b \in Blocks, InvalidateAt(t, b) PROVE OneThreadInv'
  <2>1. FreshInv(t)'
    BY <1>2, <1>pc, <1>inv DEF InvalidateAt, FreshInv
  <2>2. GuardedInv(t)'
    BY <1>2, <1>pc, <1>blk, <1>code, <1>inv DEF InvalidateAt, GuardedInv, Live
  <2>3. DoneInv(t)'
    BY <1>2, <1>pc, <1>inv DEF InvalidateAt, DoneInv
  <2>4. AddressInv(t)'
    <3>1. pc[t] = "run" /\ pc'[t] = "dispatch" /\ blk'[t] = b /\ pageMap' = pageMap
      BY <1>2, <1>pc DEF InvalidateAt
    <3>2. code'[t] = [code[t] EXCEPT ![b] = "none"]
      BY <1>2, <1>code DEF InvalidateAt
    <3>3. \A p \in Pages : \A c \in pageMap[t][p] : code[t][c] # "none"
      BY <3>1, <1>inv DEF AddressInv
    <3> QED
      BY <3>1, <3>2, <3>3, <1>code, <1>sub DEF AddressInv
  <2>5. VictimInv(t)'
    BY <1>2, <1>pc, <1>inv DEF InvalidateAt, VictimInv
  <2>6. NoNullStore'
    BY <1>2 DEF InvalidateAt, NoNullStore, OneThreadInv
  <2> QED
    BY <2>1, <2>2, <2>3, <2>4, <2>5, <2>6, <1>goal
<1>3. ASSUME NEW t \in Threads, CacheFull(t) PROVE OneThreadInv'
  <2>1. FreshInv(t)'
    BY <1>3, <1>pc, <1>inv DEF CacheFull, FreshInv
  <2>2. GuardedInv(t)'
    BY <1>3, <1>pc, <1>blk, <1>code, <1>inv DEF CacheFull, GuardedInv, Live
  <2>3. DoneInv(t)'
    BY <1>3, <1>pc, <1>inv DEF CacheFull, DoneInv
  <2>4. AddressInv(t)'
    <3>1. pc[t] = "dispatch" /\ pc'[t] = "clear" /\ UNCHANGED <<blk, code, pageMap>>
      BY <1>3, <1>pc DEF CacheFull
    <3>2. \A p \in Pages : \A c \in pageMap[t][p] : code[t][c] = "none" => blk[t] = c
      BY <3>1, <1>inv DEF AddressInv
    <3> QED
      BY <3>1, <3>2 DEF AddressInv
  <2>5. VictimInv(t)'
    BY <1>3, <1>pc, <1>inv DEF CacheFull, VictimInv
  <2>6. NoNullStore'
    BY <1>3 DEF CacheFull, NoNullStore, OneThreadInv
  <2> QED
    BY <2>1, <2>2, <2>3, <2>4, <2>5, <2>6, <1>goal
<1>4. ASSUME NEW t \in Threads, ClearCodeCache(t) PROVE OneThreadInv'
  <2>1. FreshInv(t)'
    BY <1>4, <1>pc, <1>inv DEF ClearCodeCache, FreshInv
  <2>2. GuardedInv(t)'
    BY <1>4, <1>pc, <1>blk, <1>code, <1>inv DEF ClearCodeCache, GuardedInv, Live
  <2>3. DoneInv(t)'
    BY <1>4, <1>pc, <1>inv DEF ClearCodeCache, DoneInv
  <2>4. AddressInv(t)'
    BY <1>4, <1>pc, <1>blk, <1>code, <1>inv, <1>map DEF ClearCodeCache, AddressInv
  <2>5. VictimInv(t)'
    BY <1>4, <1>pc, <1>inv DEF ClearCodeCache, VictimInv
  <2>6. NoNullStore'
    BY <1>4 DEF ClearCodeCache, NoNullStore, OneThreadInv
  <2> QED
    BY <2>1, <2>2, <2>3, <2>4, <2>5, <2>6, <1>goal
<1>5. ASSUME NEW t \in Threads, Compile(t) PROVE OneThreadInv'
  <2>1. FreshInv(t)'
    BY <1>5, <1>pc, <1>inv DEF Compile, FreshInv
  <2>2. GuardedInv(t)'
    BY <1>5, <1>pc, <1>blk, <1>code, <1>inv DEF Compile, GuardedInv, Live
  <2>3. DoneInv(t)'
    BY <1>5, <1>pc, <1>inv DEF Compile, DoneInv
  <2>4. AddressInv(t)'
    <3>1. pc[t] = "dispatch" /\ pc'[t] = "scan" /\ blk' = blk /\ pageMap' = pageMap
      BY <1>5, <1>pc DEF Compile
    <3>2. blk[t] \in Blocks /\ code'[t] = [code[t] EXCEPT ![blk[t]] = "live"]
      BY <1>5, <3>1, <1>code, <1>blk DEF Compile
    <3>3. \A p \in Pages : \A c \in pageMap[t][p] : code[t][c] = "none" => blk[t] = c
      BY <3>1, <1>inv DEF AddressInv
    <3> QED
      BY <3>1, <3>2, <3>3, <1>code, <1>sub DEF AddressInv
  <2>5. VictimInv(t)'
    BY <1>5, <1>pc, <1>inv DEF Compile, VictimInv
  <2>6. NoNullStore'
    BY <1>5 DEF Compile, NoNullStore, OneThreadInv
  <2> QED
    BY <2>1, <2>2, <2>3, <2>4, <2>5, <2>6, <1>goal
<1>6. ASSUME NEW t \in Threads, ScanAhead(t) PROVE OneThreadInv'
  <2>1. FreshInv(t)'
    BY <1>6, <1>pc, <1>inv, <1>blk, <1>bytes, PagesOfAssumption DEF ScanAhead, FreshInv
  <2>2. GuardedInv(t)'
    BY <1>6, <1>pc, <1>blk, <1>code, <1>inv, <1>bytes, PagesOfAssumption
       DEF ScanAhead, GuardedInv, Live
  <2>3. DoneInv(t)'
    BY <1>6, <1>pc, <1>inv DEF ScanAhead, DoneInv
  <2>4. AddressInv(t)'
    BY <1>6, <1>pc, <1>blk, <1>code, <1>inv DEF ScanAhead, AddressInv
  <2>5. VictimInv(t)'
    BY <1>6, <1>pc, <1>inv DEF ScanAhead, VictimInv
  <2>6. NoNullStore'
    BY <1>6 DEF ScanAhead, NoNullStore, OneThreadInv
  <2> QED
    BY <2>1, <2>2, <2>3, <2>4, <2>5, <2>6, <1>goal
<1>7. ASSUME NEW t \in Threads, Emit(t) PROVE OneThreadInv'
  <2>1. FreshInv(t)'
    BY <1>7, <1>pc, <1>inv DEF Emit, FreshInv
  <2>2. GuardedInv(t)'
    BY <1>7, <1>pc, <1>blk, <1>code, <1>inv DEF Emit, GuardedInv, Live
  <2>3. DoneInv(t)'
    BY <1>7, <1>pc, <1>inv DEF Emit, DoneInv
  <2>4. AddressInv(t)'
    <3>1. pc[t] = "emit" /\ pc'[t] = "insert" /\ blk' = blk /\ pageMap' = pageMap
      BY <1>7, <1>pc DEF Emit
    <3>2. blk[t] \in Blocks /\ code'[t] = [code[t] EXCEPT ![blk[t]] = "live"]
      BY <1>7, <3>1, <1>code, <1>blk DEF Emit
    <3>3. \A p \in Pages : \A c \in pageMap[t][p] : code[t][c] # "none"
      BY <3>1, <1>inv DEF AddressInv
    <3> QED
      BY <3>1, <3>2, <3>3, <1>code, <1>sub DEF AddressInv
  <2>5. VictimInv(t)'
    BY <1>7, <1>pc, <1>inv DEF Emit, VictimInv
  <2>6. NoNullStore'
    BY <1>7 DEF Emit, NoNullStore, OneThreadInv
  <2> QED
    BY <2>1, <2>2, <2>3, <2>4, <2>5, <2>6, <1>goal
<1>8. ASSUME NEW t \in Threads, InsertPageMap(t) PROVE OneThreadInv'
  <2>1. FreshInv(t)'
    BY <1>8, <1>pc, <1>inv DEF InsertPageMap, FreshInv
  <2>2. GuardedInv(t)'
    BY <1>8, <1>pc, <1>blk, <1>code, <1>inv DEF InsertPageMap, GuardedInv, Live
  <2>3. DoneInv(t)'
    BY <1>8, <1>pc, <1>inv DEF InsertPageMap, DoneInv
  <2>4. AddressInv(t)'
    BY <1>8, <1>pc, <1>blk, <1>code, <1>inv, <1>map DEF InsertPageMap, AddressInv
  <2>5. VictimInv(t)'
    BY <1>8, <1>pc, <1>inv DEF InsertPageMap, VictimInv
  <2>6. NoNullStore'
    BY <1>8 DEF InsertPageMap, NoNullStore, OneThreadInv
  <2> QED
    BY <2>1, <2>2, <2>3, <2>4, <2>5, <2>6, <1>goal
<1>9. ASSUME NEW t \in Threads, MarkPagesAsReadOnly(t) PROVE OneThreadInv'
  <2>1. FreshInv(t)'
    BY <1>9, <1>pc, <1>inv DEF MarkPagesAsReadOnly, FreshInv
  <2>2. GuardedInv(t)'
    <3>1. /\ pc[t] = "protect" /\ pc'[t] = "run" /\ UNCHANGED <<code, bytes, mem, range>>
          /\ \A p \in Pages : prot'[p] = IF p \in PagesOf[blk[t]] THEN "ro" ELSE prot[p]
      BY <1>9, <1>pc DEF MarkPagesAsReadOnly
    <3> SUFFICES ASSUME NEW c \in Blocks, Live(t, c)', NEW q \in PagesOf[c]
                 PROVE  bytes[t][c][q] = mem[q] /\ prot'[q] = "ro"
      BY <3>1 DEF GuardedInv
    <3>2. q \in Pages
      BY PagesOfAssumption
    <3>3. CASE c = blk[t]
      BY <3>1, <3>2, <3>3, <1>inv DEF FreshInv
    <3>4. CASE c # blk[t]
      <4>1. Live(t, c)
        BY <3>1, <3>4 DEF Live
      <4>2. bytes[t][c][q] = mem[q] /\ prot[q] = "ro"
        BY <3>1, <4>1, <1>inv DEF GuardedInv
      <4> QED
        BY <3>1, <3>2, <4>2
    <3> QED
      BY <3>3, <3>4
  <2>3. DoneInv(t)'
    BY <1>9, <1>pc, <1>inv DEF MarkPagesAsReadOnly, DoneInv
  <2>4. AddressInv(t)'
    BY <1>9, <1>pc, <1>blk, <1>code, <1>inv DEF MarkPagesAsReadOnly, AddressInv
  <2>5. VictimInv(t)'
    BY <1>9, <1>pc, <1>inv DEF MarkPagesAsReadOnly, VictimInv
  <2>6. NoNullStore'
    BY <1>9 DEF MarkPagesAsReadOnly, NoNullStore, OneThreadInv
  <2> QED
    BY <2>1, <2>2, <2>3, <2>4, <2>5, <2>6, <1>goal
<1>10. ASSUME NEW t \in Threads, NEW p \in Pages, NEW v \in Values, Store(t, p, v)
      PROVE OneThreadInv'
  <2>1. FreshInv(t)'
    BY <1>10, <1>pc, <1>inv DEF Store, FreshInv
  <2>2. GuardedInv(t)'
    BY <1>10, <1>pc, <1>blk, <1>code, <1>inv, <1>mem, PagesOfAssumption
       DEF Store, GuardedInv, Live
  <2>3. DoneInv(t)'
    BY <1>10, <1>pc, <1>inv DEF Store, DoneInv
  <2>4. AddressInv(t)'
    BY <1>10, <1>pc, <1>blk, <1>code, <1>inv DEF Store, AddressInv
  <2>5. VictimInv(t)'
    BY <1>10, <1>pc, <1>inv DEF Store, VictimInv
  <2>6. NoNullStore'
    BY <1>10 DEF Store, NoNullStore, OneThreadInv
  <2> QED
    BY <2>1, <2>2, <2>3, <2>4, <2>5, <2>6, <1>goal
<1>11. ASSUME NEW t \in Threads, NEW p \in Pages, StoreFaults(t, p) PROVE OneThreadInv'
  <2>1. FreshInv(t)'
    BY <1>11, <1>pc, <1>inv DEF StoreFaults, StartInvalidation, FreshInv
  <2>2. GuardedInv(t)'
    BY <1>11, <1>pc, <1>blk, <1>code, <1>inv, <1>ctl
       DEF StoreFaults, StartInvalidation, GuardedInv, Live
  <2>3. DoneInv(t)'
    BY <1>11, <1>pc, <1>inv DEF StoreFaults, StartInvalidation, DoneInv
  <2>4. AddressInv(t)'
    BY <1>11, <1>pc, <1>blk, <1>code, <1>inv DEF StoreFaults, StartInvalidation, AddressInv
  <2>5. VictimInv(t)'
    BY <1>11, <1>pc, <1>inv DEF StoreFaults, StartInvalidation, VictimInv
  <2>6. NoNullStore'
    BY <1>11 DEF StoreFaults, StartInvalidation, NoNullStore, OneThreadInv
  <2> QED
    BY <2>1, <2>2, <2>3, <2>4, <2>5, <2>6, <1>goal
<1>12. ASSUME NEW t \in Threads, NEW R \in SUBSET Pages, Mprotect(t, R) PROVE OneThreadInv'
  <2>1. FreshInv(t)'
    BY <1>12, <1>pc, <1>inv DEF Mprotect, StartInvalidation, FreshInv
  <2>2. GuardedInv(t)'
    BY <1>12, <1>pc, <1>blk, <1>code, <1>inv, <1>mem, <1>ctl, PagesOfAssumption
       DEF Mprotect, StartInvalidation, GuardedInv, Live
  <2>3. DoneInv(t)'
    BY <1>12, <1>pc, <1>inv DEF Mprotect, StartInvalidation, DoneInv
  <2>4. AddressInv(t)'
    BY <1>12, <1>pc, <1>blk, <1>code, <1>inv DEF Mprotect, StartInvalidation, AddressInv
  <2>5. VictimInv(t)'
    BY <1>12, <1>pc, <1>inv DEF Mprotect, StartInvalidation, VictimInv
  <2>6. NoNullStore'
    BY <1>12 DEF Mprotect, StartInvalidation, NoNullStore, OneThreadInv
  <2> QED
    BY <2>1, <2>2, <2>3, <2>4, <2>5, <2>6, <1>goal
<1>13. ASSUME NEW t \in Threads, NEW R \in SUBSET Pages, NEW v \in Values, Mmap(t, R, v)
      PROVE OneThreadInv'
  <2>1. FreshInv(t)'
    BY <1>13, <1>pc, <1>inv DEF Mmap, StartInvalidation, FreshInv
  <2>2. GuardedInv(t)'
    BY <1>13, <1>pc, <1>blk, <1>code, <1>inv, <1>mem, <1>ctl, PagesOfAssumption
       DEF Mmap, StartInvalidation, GuardedInv, Live
  <2>3. DoneInv(t)'
    BY <1>13, <1>pc, <1>inv DEF Mmap, StartInvalidation, DoneInv
  <2>4. AddressInv(t)'
    BY <1>13, <1>pc, <1>blk, <1>code, <1>inv DEF Mmap, StartInvalidation, AddressInv
  <2>5. VictimInv(t)'
    BY <1>13, <1>pc, <1>inv DEF Mmap, StartInvalidation, VictimInv
  <2>6. NoNullStore'
    BY <1>13 DEF Mmap, StartInvalidation, NoNullStore, OneThreadInv
  <2> QED
    BY <2>1, <2>2, <2>3, <2>4, <2>5, <2>6, <1>goal
<1>14. ASSUME NEW t \in Threads, LockStates(t) PROVE OneThreadInv'
  <2>1. FreshInv(t)'
    BY <1>14, <1>pc, <1>inv DEF LockStates, FreshInv
  <2>2. GuardedInv(t)'
    BY <1>14, <1>pc, <1>blk, <1>code, <1>inv DEF LockStates, GuardedInv, Live
  <2>3. DoneInv(t)'
    BY <1>14, <1>pc, <1>inv, <1>one, <1>ctl DEF LockStates, DoneInv
  <2>4. AddressInv(t)'
    BY <1>14, <1>pc, <1>blk, <1>code, <1>inv DEF LockStates, AddressInv
  <2>5. VictimInv(t)'
    BY <1>14, <1>pc, <1>inv DEF LockStates, VictimInv
  <2>6. NoNullStore'
    BY <1>14 DEF LockStates, NoNullStore, OneThreadInv
  <2> QED
    BY <2>1, <2>2, <2>3, <2>4, <2>5, <2>6, <1>goal
<1>15. ASSUME NEW t \in Threads, LockPageMap(t) PROVE OneThreadInv'
  <2>1. FreshInv(t)'
    BY <1>15, <1>pc, <1>inv DEF LockPageMap, FreshInv
  <2>2. GuardedInv(t)'
    BY <1>15, <1>pc, <1>blk, <1>code, <1>inv DEF LockPageMap, GuardedInv, Live
  <2>3. DoneInv(t)'
    BY <1>15, <1>pc, <1>inv DEF LockPageMap, DoneInv
  <2>4. AddressInv(t)'
    BY <1>15, <1>pc, <1>blk, <1>code, <1>inv DEF LockPageMap, AddressInv
  <2>5. VictimInv(t)'
    BY <1>15, <1>pc, <1>inv, <1>ctl, <1>map, <1>one DEF LockPageMap, VictimInv
  <2>6. NoNullStore'
    BY <1>15 DEF LockPageMap, NoNullStore, OneThreadInv
  <2> QED
    BY <2>1, <2>2, <2>3, <2>4, <2>5, <2>6, <1>goal
<1>16. ASSUME NEW t \in Threads, NEW b \in Blocks, InvalidateBlock(t, b) PROVE OneThreadInv'
  <2>1. FreshInv(t)'
    BY <1>16, <1>pc, <1>inv DEF InvalidateBlock, FreshInv
  <2>2. GuardedInv(t)'
    <3>1. pc[t] = "patch" /\ UNCHANGED <<pc, blk, bytes, mem, prot, range>>
      BY <1>16 DEF InvalidateBlock
    <3>2. \A c \in Blocks : code'[t][c] = "live" => code[t][c] = "live"
      BY <1>16, <1>code, <1>own DEF InvalidateBlock
    <3>3. \A c \in Blocks : Live(t, c)' => Live(t, c)
      BY <3>1, <3>2 DEF Live
    <3> QED
      BY <3>1, <3>3, <1>inv DEF GuardedInv
  <2>3. DoneInv(t)'
    BY <1>16, <1>pc, <1>inv DEF InvalidateBlock, DoneInv
  <2>4. AddressInv(t)'
    <3>1. pc[t] = "patch" /\ UNCHANGED <<pc, blk, pageMap>>
      BY <1>16 DEF InvalidateBlock
    <3>2. code'[t] = [code[t] EXCEPT ![b] = "stub"]
      BY <1>16, <1>code, <1>own DEF InvalidateBlock
    <3>3. \A p \in Pages : \A c \in pageMap[t][p] : code[t][c] # "none"
      BY <3>1, <1>inv DEF AddressInv
    <3> QED
      BY <3>1, <3>2, <3>3, <1>code, <1>sub DEF AddressInv
  <2>5. VictimInv(t)'
    BY <1>16, <1>pc, <1>inv, <1>ctl DEF InvalidateBlock, VictimInv
  <2>6. NoNullStore'
    BY <1>16 DEF InvalidateBlock, NoNullStore, OneThreadInv
  <2> QED
    BY <2>1, <2>2, <2>3, <2>4, <2>5, <2>6, <1>goal
<1>17. ASSUME NEW t \in Threads, NEW b \in Blocks, NullStore(t, b) PROVE OneThreadInv'
  <2>1. pc[t] = "patch" /\ b \in victims[t] /\ code[t][b] = "none"
    BY <1>17, <1>own DEF NullStore
  <2>2. PICK p \in Pages : b \in pageMap[t][p]
    BY <2>1, <1>inv, <1>own DEF VictimInv
  <2> QED
    BY <2>1, <2>2, <1>inv DEF AddressInv
<1>18. ASSUME NEW t \in Threads, ClearPages(t) PROVE OneThreadInv'
  <2>1. FreshInv(t)'
    BY <1>18, <1>pc, <1>inv DEF ClearPages, FreshInv
  <2>2. GuardedInv(t)'
    BY <1>18, <1>pc, <1>blk, <1>code, <1>inv DEF ClearPages, GuardedInv, Live
  <2>3. DoneInv(t)'
    <3>1. pc[t] = "patch" /\ victims[t] = {} /\ who[t] = t /\ UNCHANGED <<code, range>>
      BY <1>18, <1>own DEF ClearPages
    <3>2. \A b \in Blocks, p \in range[t] : code[t][b] = "live" => p \notin PagesOf[b]
      <4>1. \A b \in Blocks : code[t][b] = "live" => \A p \in PagesOf[b] : b \in pageMap[t][p]
        BY <3>1 DEF IndInv, CacheInv, RegisterInv
      <4>2. \A p \in range[t] : \A b \in pageMap[t][p] : code[t][b] # "live"
        BY <3>1 DEF IndInv, CacheInv, PatchInv
      <4> QED
        BY <4>1, <4>2
    <3> QED
      BY <3>1, <3>2 DEF DoneInv
  <2>4. AddressInv(t)'
    <3>1. pc[t] = "patch" /\ pc'[t] = "page" /\ UNCHANGED <<blk, code>>
      BY <1>18, <1>pc DEF ClearPages
    <3>2. \A p \in Pages : pageMap'[t][p] \subseteq pageMap[t][p]
      BY <1>18, <1>map, <1>own DEF ClearPages
    <3>3. \A p \in Pages : \A c \in pageMap[t][p] : code[t][c] # "none"
      BY <3>1, <1>inv DEF AddressInv
    <3> QED
      BY <3>1, <3>2, <3>3 DEF AddressInv
  <2>5. VictimInv(t)'
    BY <1>18, <1>pc, <1>inv DEF ClearPages, VictimInv
  <2>6. NoNullStore'
    BY <1>18 DEF ClearPages, NoNullStore, OneThreadInv
  <2> QED
    BY <2>1, <2>2, <2>3, <2>4, <2>5, <2>6, <1>goal
<1>19. ASSUME NEW t \in Threads, UnlockStates(t) PROVE OneThreadInv'
  <2>1. FreshInv(t)'
    BY <1>19, <1>pc, <1>inv DEF UnlockStates, FreshInv
  <2>2. GuardedInv(t)'
    BY <1>19, <1>pc, <1>blk, <1>code, <1>inv, <1>ctl DEF UnlockStates, GuardedInv, Live, DoneInv
  <2>3. DoneInv(t)'
    BY <1>19, <1>pc, <1>inv, <1>ctl DEF UnlockStates, DoneInv
  <2>4. AddressInv(t)'
    BY <1>19, <1>pc, <1>blk, <1>code, <1>inv DEF UnlockStates, AddressInv
  <2>5. VictimInv(t)'
    BY <1>19, <1>pc, <1>inv DEF UnlockStates, VictimInv
  <2>6. NoNullStore'
    BY <1>19 DEF UnlockStates, NoNullStore, OneThreadInv
  <2> QED
    BY <2>1, <2>2, <2>3, <2>4, <2>5, <2>6, <1>goal
<1>20. ASSUME NEW t \in Threads, Unprotect(t) PROVE OneThreadInv'
  <2>1. FreshInv(t)'
    BY <1>20, <1>pc, <1>inv DEF Unprotect, FreshInv
  <2>2. GuardedInv(t)'
    BY <1>20, <1>pc, <1>blk, <1>code, <1>inv, <1>mem, PagesOfAssumption
       DEF Unprotect, GuardedInv, Live, DoneInv
  <2>3. DoneInv(t)'
    BY <1>20, <1>pc, <1>inv DEF Unprotect, DoneInv
  <2>4. AddressInv(t)'
    BY <1>20, <1>pc, <1>blk, <1>code, <1>inv DEF Unprotect, AddressInv
  <2>5. VictimInv(t)'
    BY <1>20, <1>pc, <1>inv DEF Unprotect, VictimInv
  <2>6. NoNullStore'
    BY <1>20 DEF Unprotect, NoNullStore, OneThreadInv
  <2> QED
    BY <2>1, <2>2, <2>3, <2>4, <2>5, <2>6, <1>goal
<1>21. ASSUME NEW t \in Threads, NEW v \in Values, RetryStore(t, v) PROVE OneThreadInv'
  <2>1. FreshInv(t)'
    BY <1>21, <1>pc, <1>inv DEF RetryStore, FreshInv
  <2>2. GuardedInv(t)'
    BY <1>21, <1>pc, <1>blk, <1>code, <1>inv, <1>mem, <1>ctl, PagesOfAssumption
       DEF RetryStore, GuardedInv, Live, DoneInv
  <2>3. DoneInv(t)'
    BY <1>21, <1>pc, <1>inv DEF RetryStore, DoneInv
  <2>4. AddressInv(t)'
    BY <1>21, <1>pc, <1>blk, <1>code, <1>inv DEF RetryStore, AddressInv
  <2>5. VictimInv(t)'
    BY <1>21, <1>pc, <1>inv DEF RetryStore, VictimInv
  <2>6. NoNullStore'
    BY <1>21 DEF RetryStore, NoNullStore, OneThreadInv
  <2> QED
    BY <2>1, <2>2, <2>3, <2>4, <2>5, <2>6, <1>goal
<1>22. ASSUME NEW t \in Threads, RetryFaults(t) PROVE OneThreadInv'
  <2>1. FreshInv(t)'
    BY <1>22, <1>pc, <1>inv DEF RetryFaults, FreshInv
  <2>2. GuardedInv(t)'
    BY <1>22, <1>pc, <1>blk, <1>code, <1>inv DEF RetryFaults, GuardedInv, Live
  <2>3. DoneInv(t)'
    BY <1>22, <1>pc, <1>inv DEF RetryFaults, DoneInv
  <2>4. AddressInv(t)'
    BY <1>22, <1>pc, <1>blk, <1>code, <1>inv DEF RetryFaults, AddressInv
  <2>5. VictimInv(t)'
    BY <1>22, <1>pc, <1>inv DEF RetryFaults, VictimInv
  <2>6. NoNullStore'
    BY <1>22 DEF RetryFaults, NoNullStore, OneThreadInv
  <2> QED
    BY <2>1, <2>2, <2>3, <2>4, <2>5, <2>6, <1>goal
<1>23. CASE UNCHANGED vars
  <2>1. NoNullStore'
    BY <1>23 DEF vars, NoNullStore, OneThreadInv
  <2>2. ASSUME NEW t \in Threads PROVE FreshInv(t)'
    <3>1. UNCHANGED <<pc, blk, bytes, mem>>
      BY <1>23 DEF vars
    <3> QED
      BY <3>1, <1>inv DEF FreshInv
  <2>3. ASSUME NEW t \in Threads PROVE GuardedInv(t)'
    <3>1. UNCHANGED <<pc, blk, code, bytes, mem, prot, range>>
      BY <1>23 DEF vars
    <3> QED
      BY <3>1, <1>inv DEF GuardedInv, Live
  <2>4. ASSUME NEW t \in Threads PROVE DoneInv(t)'
    <3>1. UNCHANGED <<pc, code, range, who>>
      BY <1>23 DEF vars
    <3> QED
      BY <3>1, <1>inv DEF DoneInv
  <2>5. ASSUME NEW t \in Threads PROVE AddressInv(t)'
    <3>1. UNCHANGED <<pc, blk, code, pageMap>>
      BY <1>23 DEF vars
    <3> QED
      BY <3>1, <1>inv DEF AddressInv
  <2>6. ASSUME NEW t \in Threads PROVE VictimInv(t)'
    <3>1. UNCHANGED <<pc, who, victims, pageMap>>
      BY <1>23 DEF vars
    <3> QED
      BY <3>1, <1>inv DEF VictimInv
  <2> QED
    BY <2>1, <2>2, <2>3, <2>4, <2>5, <2>6 DEF OneThreadInv, Threads
<1>24. QED
  BY <1>1, <1>2, <1>3, <1>4, <1>5, <1>6, <1>7, <1>8, <1>9, <1>10, <1>11, <1>12, <1>13, <1>14, <1>15,
     <1>16, <1>17, <1>18, <1>19, <1>20, <1>21, <1>22, <1>23
     DEF Next, Emulator, Guest

\* The single-threaded strengthening holds in every reachable state.
LEMMA OneThreadInvariance ==
  ASSUME NumThreads = 1
  PROVE  Spec => []OneThreadInv
<1>1. Init => OneThreadInv
  <2> SUFFICES ASSUME Init PROVE OneThreadInv
    OBVIOUS
  <2>1. pc = [t \in Threads |-> "run"] /\ ~killed
    BY DEF Init
  <2>2. ASSUME NEW t \in Threads
        PROVE  /\ \A b \in Blocks : code[t][b] = "none"
               /\ \A p \in Pages : pageMap[t][p] = {}
    BY DEF Init
  <2>3. ASSUME NEW t \in Threads
        PROVE  FreshInv(t) /\ GuardedInv(t) /\ DoneInv(t) /\ AddressInv(t) /\ VictimInv(t)
    BY <2>1, <2>2 DEF FreshInv, GuardedInv, DoneInv, AddressInv, VictimInv, Live,
                      Compiling, Translating, Invalidating
  <2> QED
    BY <2>1, <2>3 DEF OneThreadInv, NoNullStore
<1>2. IndInv /\ OneThreadInv /\ [Next]_vars => OneThreadInv'
  BY NextOneThreadInv
<1>3. QED
  BY Invariance, <1>1, <1>2, PTL DEF Spec

\* A single-threaded guest never runs a stale translation, however many
\* blocks and pages its self-modifying code has.
THEOREM OneThreadCoherent ==
  ASSUME NumThreads = 1
  PROVE  Spec => []Coherent
<1>1. OneThreadInv => Coherent
  BY DEF OneThreadInv, GuardedInv, Coherent, BeingInvalidated
<1>2. QED
  BY OneThreadInvariance, <1>1, PTL

\* A single-threaded guest's translated pages are protected.
THEOREM OneThreadProtected ==
  ASSUME NumThreads = 1
  PROVE  Spec => []LiveBlocksProtected
<1>1. OneThreadInv => LiveBlocksProtected
  BY DEF OneThreadInv, GuardedInv, LiveBlocksProtected, BeingInvalidated
<1>2. QED
  BY OneThreadInvariance, <1>1, PTL

\* In a single-threaded guest invalidateBlock never finds address 0.
THEOREM OneThreadNoNullStore ==
  ASSUME NumThreads = 1
  PROVE  Spec => []NoNullStore
<1>1. OneThreadInv => NoNullStore
  BY DEF OneThreadInv
<1>2. QED
  BY OneThreadInvariance, <1>1, PTL
=============================================================================
