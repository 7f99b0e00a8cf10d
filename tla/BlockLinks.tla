----------------------------- MODULE BlockLinks -----------------------------
(***************************************************************************)
(* Linking and unlinking of translated blocks inside one code cache, word  *)
(* by word.  A block that jumps to a block not yet translated ends in a    *)
(* pair of words that goes back to the dispatcher, and the pair's address  *)
(* waits in pending_links; once the target is translated the pair becomes  *)
(* a direct jump that leaves its return address in t5.  Invalidating a     *)
(* block overwrites its first two words with a jump to                     *)
(* invalidate_caller_thunk; the next thread to come by there finds the     *)
(* block through host_pc_map, forgets its address and rewrites the link it *)
(* came from.  The module runs the words of the cache, so that a patch and *)
(* the code it lands on meet.                                              *)
(*                                                                         *)
(* A guest is a program, and whether other threads invalidate its blocks.  *)
(* Prog[r] lists the host words compileSequence emits for the guest block  *)
(* at rip r, each with an argument, 0 where it has none:  "op" is any      *)
(* instruction without effect here, "store" a guest store to a page,       *)
(* "bnez" a branch that may skip some words, "addi" the update of the      *)
(* guest rip register, "link" and "pad" the two words where jumpAndLink    *)
(* goes, "ret" a rip taken from the stack, "back1" and "back2" the words   *)
(* of backToDispatcher that follow it.                                     *)
(***************************************************************************)
EXTENDS Integers, Sequences, FiniteSets

CONSTANTS Rips,       \* guest addresses of blocks
          NoRip,      \* no block: AddressCacheEntry::guest = 0
          Guests,     \* the guests: records [prog, remote] under a name
          Pages,      \* guest pages
          PageOf,     \* the page each block lies in
          Slot,       \* rip & ((1 << address_cache_bits) - 1)
          CacheWords, \* size of the code cache, in words
          Reserve     \* compile clears the cache when fewer words are left

Body == {"op", "store", "bnez", "addi", "ret"}

\* The words of the block at r in the code of guest g: how many, what each does,
\* and to what.
Size(g, r) == Len(Guests[g].prog[r])
OpAt(g, r, i) == Guests[g].prog[r][i][1]
ArgAt(g, r, i) == Guests[g].prog[r][i][2]

\* Word i is run with the rip register at r: an instruction of the block, or a
\* link to the block itself.
Continues(g, r, i) ==
    /\ i \in 1 .. Size(g, r)
    /\ OpAt(g, r, i) \in Body \/ (OpAt(g, r, i) = "link" /\ ArgAt(g, r, i) = r)

\* What compileSequence emits: the rip register is updated right before a link
\* elsewhere, and a block ends with a link or in the dispatcher.
Shaped(g, r, i) ==
    LET op == OpAt(g, r, i)
        arg == ArgAt(g, r, i)
    IN  /\ op \in Body \cup {"link", "pad", "back1", "back2"}
        /\ op \in {"op", "store", "bnez"} => Continues(g, r, i + 1)
        /\ op = "store" => arg \in Pages
        /\ op = "bnez" => arg \in Nat /\ Continues(g, r, i + 1 + arg)
        /\ op = "addi" => i < Size(g, r) /\ Guests[g].prog[r][i + 1] = <<"link", arg>>
        /\ op = "link" => arg \in Rips /\ i < Size(g, r) /\ Guests[g].prog[r][i + 1] = <<"pad", arg>>
        /\ op = "pad" => i > 1 /\ Guests[g].prog[r][i - 1] = <<"link", arg>>
        /\ op = "ret" => i < Size(g, r) /\ OpAt(g, r, i + 1) = "back1"
        /\ op = "back1" => i < Size(g, r) /\ OpAt(g, r, i + 1) = "back2"

ASSUME GuestsAssumption ==
    \A g \in DOMAIN Guests :
        /\ Guests[g].remote \in BOOLEAN
        /\ \A r \in Rips : /\ Size(g, r) \in 2 .. Reserve
                          /\ Continues(g, r, 1)
                          /\ \A i \in 1 .. Size(g, r) : Shaped(g, r, i)

ASSUME PlacesAssumption ==
    /\ NoRip \notin Rips
    /\ PageOf \in [Rips -> Pages]
    /\ CacheWords \in Nat /\ Reserve \in Nat /\ Reserve <= CacheWords

Addresses == 1 .. CacheWords

\* The contents of a page: the bytes that were there and the ones a store puts.
Versions == {0, 1}

VARIABLES
    guest,    \* the guest that runs
    words,    \* the words of the code cache
    cursor,   \* as.GetCursorPointer(): where the next block goes
    address,  \* BlockMetadata::address, 0 when not translated
    end,      \* BlockMetadata::address_end
    pending,  \* BlockMetadata::pending_links
    hostMap,  \* host_pc_map: the pairs <<address_end, block>>
    cache,    \* address_cache: guest and host of each slot
    pageMap,  \* page_map
    prot,     \* pages made read-only by markPagesAsReadOnly
    ver,      \* contents of the guest's pages
    mode,     \* "jit", "dispatch", "thunk" (in invalidateAt), or how it died:
              \* "wild" (a jump through a stale t4), "abort" (a failed ASSERT)
    pc,       \* host pc, in mode "jit"
    rip,      \* the register of the guest rip
    t4,       \* t4 holds what the first word of a stub puts there
    t5,       \* return address of the last link, 0 from the dispatcher
    t6        \* return address of the last stub

codeVars == <<words, cursor, address, end, pending, hostMap, cache, pageMap>>
guestVars == <<guest, prot, ver>>
cpuVars == <<mode, pc, rip, t4, t5, t6>>
vars == <<codeVars, guestVars, cpuVars>>

Prog == Guests[guest].prog
Remote == Guests[guest].remote

-----------------------------------------------------------------------------

Word(op, arg, of, idx, v) == [op |-> op, arg |-> arg, of |-> of, idx |-> idx, ver |-> v]
Plain(op, arg) == Word(op, arg, NoRip, 0, 0)

Empty == Plain("empty", 0)

\* as.NOP(); as.JAL(t5, ...), or its far form AUIPC; JALR.
Nop == Plain("nop", 0)
Jal(target) == Plain("jal", target)

\* backToDispatcher: AUIPC(t6); JR(t6).
Back1 == Plain("back1", 0)
Back2 == Plain("back2", 0)

\* What invalidateBlock stores: AUIPC(t4); JALR(t6, t4).
Stub1 == Plain("stub1", 0)
Stub2 == Plain("stub2", 0)

NoEntry == [guest |-> NoRip, host |-> 0]

Init ==
    /\ guest \in DOMAIN Guests
    /\ words = [a \in Addresses |-> Empty]
    /\ cursor = 1
    /\ address = [r \in Rips |-> 0]
    /\ end = [r \in Rips |-> 0]
    /\ pending = [r \in Rips |-> {}]
    /\ hostMap = {}
    /\ cache = [s \in {Slot[r] : r \in Rips} |-> NoEntry]
    /\ pageMap = [p \in Pages |-> {}]
    /\ prot = {}
    /\ ver = [p \in Pages |-> 0]
    /\ mode = "dispatch"
    /\ pc = 1
    /\ rip \in Rips
    /\ t4 = FALSE
    /\ t5 = 0
    /\ t6 = 0

-----------------------------------------------------------------------------
(* jumpAndLink *)

\* The words of the code cache after jumpAndLink(r) with the cursor at site.
LinkAt(ws, site, r, addr) ==
    IF addr[r] = 0
    THEN [ws EXCEPT ![site] = Back1, ![site + 1] = Back2]
    ELSE [ws EXCEPT ![site] = Nop, ![site + 1] = Jal(addr[r])]

\* A slip: a site that was linked at once waits as well.
PendAlways(pend, site, r, addr) == [pend EXCEPT ![r] = @ \cup {site}]

\* The sites it leaves waiting in the target's pending_links.
PendAt(pend, site, r, addr) ==
    IF addr[r] = 0 THEN [pend EXCEPT ![r] = @ \cup {site}] ELSE pend

\* expirePendingLinks: jumpAndLink(r) at every site that waits for r.
ExpiredWords(ws, sites, host) ==
    [a \in Addresses |-> IF a \in sites THEN Nop
                         ELSE IF a - 1 \in sites THEN Jal(host)
                         ELSE ws[a]]

\* An entry of the address cache is direct-mapped.
Cached(c, r, host) == [c EXCEPT ![Slot[r]] = [guest |-> r, host |-> host]]

-----------------------------------------------------------------------------
(* The dispatcher and the translation of a block. *)

\* Leave the dispatcher for host code: t5 is zeroed.
Enter(host) ==
    /\ mode' = "jit"
    /\ pc' = host
    /\ t5' = 0
    /\ UNCHANGED <<rip, t4, t6>>

\* The lookup emitted in the dispatcher hits the address cache.
DispatchCached ==
    /\ mode = "dispatch"
    /\ rip # NoRip
    /\ cache[Slot[rip]].guest = rip
    /\ Enter(cache[Slot[rip]].host)
    /\ UNCHANGED <<codeVars, guestVars>>

\* getCompiledBlock finds the block in block_metadata.
DispatchTranslated ==
    /\ mode = "dispatch"
    /\ rip # NoRip
    /\ cache[Slot[rip]].guest # rip
    /\ address[rip] # 0
    /\ cache' = Cached(cache, rip, address[rip])
    /\ Enter(address[rip])
    /\ UNCHANGED <<words, cursor, address, end, pending, hostMap, pageMap, guestVars>>

\* The sites of jumpAndLink in a copy of block r that starts at s.
SitesOf(r, s) ==
    {<<s + i - 1, Prog[r][i][2]>> : i \in {j \in 1 .. Len(Prog[r]) : Prog[r][j][1] = "link"}}

\* compileSequence: the words of block r emitted at s, its address known.
Emitted(ws, r, s, addr) ==
    [a \in Addresses |->
        IF a \notin s .. s + Len(Prog[r]) - 1 THEN ws[a]
        ELSE LET w == Prog[r][a - s + 1]
             IN CASE w[1] = "link" -> IF addr[w[2]] = 0 THEN Back1 ELSE Nop
                  [] w[1] = "pad" -> IF addr[w[2]] = 0 THEN Back2 ELSE Jal(addr[w[2]])
                  [] OTHER -> Word(w[1], w[2], r, a - s + 1, ver[PageOf[r]])]

\* compile, from the emission to markPagesAsReadOnly, into the cache c.
CompileInto(c, r) ==
    LET s == c.cursor
        addr == [c.address EXCEPT ![r] = s]
        waiting == {x \in SitesOf(r, s) : addr[x[2]] = 0}
        pend == [q \in Rips |-> c.pending[q] \cup {x[1] : x \in {y \in waiting : y[2] = q}}]
    IN  /\ words' = ExpiredWords(Emitted(c.words, r, s, addr), pend[r], s)
        /\ cursor' = s + Len(Prog[r])
        /\ address' = addr
        /\ end' = [c.end EXCEPT ![r] = s + Len(Prog[r])]
        /\ pending' = [pend EXCEPT ![r] = {}]
        /\ hostMap' = c.hostMap \cup {<<s + Len(Prog[r]), r>>}
        /\ cache' = Cached(c.cache, r, s)
        /\ pageMap' = [c.pageMap EXCEPT ![PageOf[r]] = @ \cup {r}]
        /\ prot' = prot \cup {PageOf[r]}
        /\ Enter(s)
        /\ UNCHANGED <<guest, ver>>

Current == [words |-> words, cursor |-> cursor, address |-> address, end |-> end,
            pending |-> pending, hostMap |-> hostMap, cache |-> cache, pageMap |-> pageMap]

\* clearCodeCache.  Words past the cursor are dead and are not kept.
Cleared == [words |-> [a \in Addresses |-> Empty], cursor |-> 1,
            address |-> [r \in Rips |-> 0], end |-> [r \in Rips |-> 0],
            pending |-> [r \in Rips |-> {}], hostMap |-> {},
            cache |-> [s \in DOMAIN cache |-> NoEntry], pageMap |-> [p \in Pages |-> {}]]

\* getCompiledBlock finds no translation: compile, after clearCodeCache when
\* less than Reserve is left.
Compile ==
    /\ mode = "dispatch"
    /\ rip # NoRip
    /\ cache[Slot[rip]].guest # rip
    /\ address[rip] = 0
    /\ CompileInto(IF CacheWords - (cursor - 1) < Reserve THEN Cleared ELSE Current, rip)

-----------------------------------------------------------------------------
(* Invalidation. *)

\* A slip in the patch: the block the guest is in keeps its entry.
StubbedButOwn(ws, blocks) ==
    LET starts == {address[r] : r \in blocks \ {rip}}
    IN [a \in Addresses |-> IF a \in starts THEN Stub1
                            ELSE IF a - 1 \in starts THEN Stub2
                            ELSE ws[a]]

\* A slip in the patch: it starts at the second word.
StubbedLate(ws, blocks) ==
    LET starts == {address[r] : r \in blocks}
    IN [a \in Addresses |-> IF a - 1 \in starts THEN Stub2 ELSE ws[a]]

\* invalidateBlock for each block, one atomic store of two words.
Stubbed(ws, blocks) ==
    LET starts == {address[r] : r \in blocks}
    IN [a \in Addresses |-> IF a \in starts THEN Stub1
                            ELSE IF a - 1 \in starts THEN Stub2
                            ELSE ws[a]]

\* invalidateRange on one page; a block whose address is 0 is a store to 0.
InvalidatePage(p) ==
    /\ words' = Stubbed(words, pageMap[p])
    /\ pageMap' = [pageMap EXCEPT ![p] = {}]
    /\ mode' = IF \E r \in pageMap[p] : address[r] = 0 THEN "abort" ELSE mode
    /\ UNCHANGED <<cursor, address, end, pending, hostMap, cache>>

\* Another thread stores to the page, or maps over it: it invalidates the
\* blocks of this cache and leaves the page writable, with other contents.
RemoteInvalidate ==
    /\ Remote
    /\ mode \in {"jit", "dispatch", "thunk"}
    /\ \E p \in Pages :
         /\ InvalidatePage(p)
         /\ prot' = prot \ {p}
         /\ \E v \in Versions : ver' = [ver EXCEPT ![p] = v]
    /\ UNCHANGED <<guest, pc, rip, t4, t5, t6>>

\* host_pc_map.lower_bound(t6): the keys are address_end - 1, in bytes.
After(a) == {x \in hostMap : x[1] > a}

\* A slip: the last block of the map instead of the first past the address.
LastBlock(a) == CHOOSE x \in After(a) : \A y \in After(a) : x[1] >= y[1]

LowerBound(a) == CHOOSE x \in After(a) : \A y \in After(a) : x[1] <= y[1]

\* invalidateAt leaves the entry in the address cache.
InvalidateAtCached ==
    /\ mode = "thunk"
    /\ After(t6) # {}
    /\ LET r == LowerBound(t6)[2]
           addr == IF t6 \in address[r] .. end[r] THEN [address EXCEPT ![r] = 0] ELSE address
       IN  /\ address' = addr
           /\ words' = IF t5 = 0 THEN words ELSE LinkAt(words, t5 - 2, r, addr)
           /\ pending' = IF t5 = 0 THEN pending ELSE PendAt(pending, t5 - 2, r, addr)
    /\ mode' = "dispatch"
    /\ UNCHANGED <<cursor, end, hostMap, cache, pageMap, guestVars, pc, rip, t4, t5, t6>>

\* invalidateAt takes the caller's link to start one word later than it does.
InvalidateAtShifted ==
    /\ mode = "thunk"
    /\ After(t6) # {}
    /\ LET r == LowerBound(t6)[2]
           addr == IF t6 \in address[r] .. end[r] THEN [address EXCEPT ![r] = 0] ELSE address
       IN  /\ address' = addr
           /\ words' = IF t5 = 0 THEN words ELSE LinkAt(words, t5 - 1, r, addr)
           /\ pending' = IF t5 = 0 THEN pending ELSE PendAt(pending, t5 - 1, r, addr)
           /\ cache' = [cache EXCEPT ![Slot[r]] = NoEntry]
    /\ mode' = "dispatch"
    /\ UNCHANGED <<cursor, end, hostMap, pageMap, guestVars, pc, rip, t4, t5, t6>>

\* invalidate_caller_thunk calls invalidateAt(t6, t5) and returns to the
\* dispatcher.  The block is found by its end, or the ASSERT on host_pc_map
\* fails; it keeps its address when it was translated again elsewhere since.
InvalidateAt ==
    /\ mode = "thunk"
    /\ IF After(t6) = {}
       THEN mode' = "abort" /\ UNCHANGED <<words, address, pending, cache>>
       ELSE LET r == LowerBound(t6)[2]
                addr == IF t6 \in address[r] .. end[r] THEN [address EXCEPT ![r] = 0] ELSE address
            IN  /\ address' = addr
                /\ words' = IF t5 = 0 THEN words ELSE LinkAt(words, t5 - 2, r, addr)
                /\ pending' = IF t5 = 0 THEN pending ELSE PendAt(pending, t5 - 2, r, addr)
                /\ cache' = [cache EXCEPT ![Slot[r]] = NoEntry]
                /\ mode' = "dispatch"
    /\ UNCHANGED <<cursor, end, hostMap, pageMap, guestVars, pc, rip, t4, t5, t6>>

-----------------------------------------------------------------------------
(* The host runs the words of the cache. *)

At(op) == mode = "jit" /\ words[pc].op = op

\* One word without effect on what is modelled.
Step ==
    /\ At("op") \/ At("nop") \/ At("back1")
    /\ pc' = pc + 1
    /\ t4' = FALSE
    /\ UNCHANGED <<codeVars, guestVars, mode, rip, t5, t6>>

\* The guest rip register moves by the distance between the two blocks: from
\* any other rip it lands somewhere else.
AddRip ==
    /\ At("addi")
    /\ rip' = IF rip = words[pc].of THEN words[pc].arg ELSE NoRip
    /\ pc' = pc + 1
    /\ t4' = FALSE
    /\ UNCHANGED <<codeVars, guestVars, mode, t5, t6>>

\* ret, or a jump through a register: the guest's own data names the next block.
Ret ==
    /\ At("ret")
    /\ rip' \in Rips
    /\ pc' = pc + 1
    /\ t4' = FALSE
    /\ UNCHANGED <<codeVars, guestVars, mode, t5, t6>>

BranchIf ==
    /\ At("bnez")
    /\ pc' \in {pc + 1, pc + 1 + words[pc].arg}
    /\ t4' = FALSE
    /\ UNCHANGED <<codeVars, guestVars, mode, rip, t5, t6>>

\* A store to a writable page changes it.
Store ==
    /\ At("store")
    /\ words[pc].arg \notin prot
    /\ \E v \in Versions : ver' = [ver EXCEPT ![words[pc].arg] = v]
    /\ pc' = pc + 1
    /\ t4' = FALSE
    /\ UNCHANGED <<codeVars, guest, prot, mode, rip, t5, t6>>

\* A store to a read-only page: handle_smc invalidates the page's blocks, makes
\* the page writable and returns to the same word.
StoreFaults ==
    /\ At("store")
    /\ words[pc].arg \in prot
    /\ InvalidatePage(words[pc].arg)
    /\ prot' = prot \ {words[pc].arg}
    /\ UNCHANGED <<guest, ver, pc, rip, t4, t5, t6>>

\* A direct jump leaves its return address in t5.
JumpLinked ==
    /\ At("jal")
    /\ pc' = words[pc].arg
    /\ t5' = pc + 1
    /\ t4' = FALSE
    /\ UNCHANGED <<codeVars, guestVars, mode, rip, t6>>

BackToDispatcher ==
    /\ At("back2")
    /\ mode' = "dispatch"
    /\ t4' = FALSE
    /\ UNCHANGED <<codeVars, guestVars, pc, rip, t5, t6>>

StubFirst ==
    /\ At("stub1")
    /\ pc' = pc + 1
    /\ t4' = TRUE
    /\ UNCHANGED <<codeVars, guestVars, mode, rip, t5, t6>>

\* JALR(t6, t4): to the thunk when the word before it was run, else anywhere.
StubSecond ==
    /\ At("stub2")
    /\ mode' = IF t4 THEN "thunk" ELSE "wild"
    /\ t6' = pc + 1
    /\ t4' = FALSE
    /\ UNCHANGED <<codeVars, guestVars, pc, rip, t5>>

-----------------------------------------------------------------------------

Thread ==
    \/ DispatchCached
    \/ DispatchTranslated
    \/ Compile
    \/ InvalidateAt
    \/ Step
    \/ AddRip
    \/ Ret
    \/ BranchIf
    \/ Store
    \/ StoreFaults
    \/ JumpLinked
    \/ BackToDispatcher
    \/ StubFirst
    \/ StubSecond

Next == Thread \/ RemoteInvalidate

Spec == Init /\ [][Next]_vars

\* The host runs the thread.
FairSpec == Spec /\ WF_vars(Thread)

-----------------------------------------------------------------------------
(* Properties. *)

\* The state of a Recompiler and of the thread that runs its code.
TypeOK ==
    /\ cursor \in 1 .. CacheWords + 1
    /\ address \in [Rips -> 0 .. CacheWords]
    /\ end \in [Rips -> 0 .. CacheWords + 1]
    /\ pending \in [Rips -> SUBSET Addresses]
    /\ hostMap \subseteq (1 .. CacheWords + 1) \X Rips
    /\ pageMap \in [Pages -> SUBSET Rips]
    /\ prot \subseteq Pages
    /\ ver \in [Pages -> Versions]
    /\ mode \in {"jit", "dispatch", "thunk", "wild", "abort"}
    /\ pc \in Addresses
    /\ rip \in Rips \cup {NoRip}
    /\ t5 \in 0 .. CacheWords + 1

\* Links, the address cache, the dispatcher and the links rewritten by
\* invalidateAt lead to the block the guest rip register names: translated code
\* computes every guest address relative to that register.
RipMatches == mode = "jit" /\ words[pc].op \in Body /\ words[pc].idx = 1 => rip = words[pc].of

\* No block is entered through a link, the address cache or block_metadata once
\* its guest page has other contents than those it was translated from.
NoStaleEntry ==
    mode = "jit" /\ words[pc].op \in Body /\ words[pc].idx = 1
        => words[pc].ver = ver[PageOf[words[pc].of]]

\* Every site in pending_links still goes to the dispatcher, so that
\* expirePendingLinks rewrites nothing else.
PendingSitesAreUnlinked ==
    \A r \in Rips : \A s \in pending[r] : words[s] = Back1 /\ words[s + 1] = Back2

\* invalidateAt finds, by the end of the block, the block whose stub was run.
StubNamesItsBlock ==
    mode = "thunk" => /\ After(t6) # {}
                      /\ LowerBound(t6)[2] = rip

\* A thread whose own stores invalidate blocks runs no second word of a stub
\* without the first: it sees the patch of an entry whole wherever it stands.
NeverWild == ~Remote => mode # "wild"

\* The thread keeps getting to the end of a block: an invalidated block is
\* translated again and run, not found invalidated over and over.
BlocksComplete == Remote \/ []<>(mode = "jit" /\ words[pc].op \in {"nop", "back1"})

=============================================================================
