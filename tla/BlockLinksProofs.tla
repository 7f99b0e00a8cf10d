-------------------------- MODULE BlockLinksProofs --------------------------
(***************************************************************************)
(* Linking keeps to the code it is meant for, for every guest whose blocks *)
(* leave room for a stub.  The code cache is a set of copies of blocks,    *)
(* given by host_pc_map.  The invariant says what every word of a copy     *)
(* holds, which copies block_metadata, the address cache, page_map and     *)
(* pending_links name, and in which copy, at which word, the thread runs.  *)
(* It is stated over a record of the code variables, as Current and        *)
(* Cleared are, so that one lemma covers compile with and without          *)
(* clearCodeCache.                                                         *)
(***************************************************************************)
EXTENDS BlockLinks, TLAPS

\* The first two words of a block are no part of a link, and a thread that
\* invalidates its own blocks does not do so from a second word.
Roomy(g) ==
    \A r \in Rips : /\ Size(g, r) >= 3
                    /\ \A i \in {1, 2} : OpAt(g, r, i) \notin {"link", "pad"}
                    /\ Guests[g].remote \/ OpAt(g, r, 2) # "store"

\* Block r was translated to s, in cache k of guest g.
Copy(g, k, s, r) == <<s + Size(g, r), r>> \in k.hostMap

Stub(k, s) == k.words[s] = Stub1 /\ k.words[s + 1] = Stub2
Unlinked(k, a) == k.words[a] = Back1 /\ k.words[a + 1] = Back2
LinkedTo(k, a, s) == k.words[a] = Nop /\ k.words[a + 1] = Jal(s)

\* Word i of the copy of r at s is the one that was emitted.
Own(g, k, s, r, i) ==
    /\ k.words[s + i - 1].op = OpAt(g, r, i)
    /\ k.words[s + i - 1].arg = ArgAt(g, r, i)
    /\ k.words[s + i - 1].of = r
    /\ k.words[s + i - 1].idx = i

\* a is the first of the two words of a link to q.
Site(g, k, a, q) ==
    \E s \in Addresses, r \in Rips : \E i \in 1 .. Size(g, r) :
        Copy(g, k, s, r) /\ a = s + i - 1 /\ OpAt(g, r, i) = "link" /\ ArgAt(g, r, i) = q

\* The copy of r at s is the current one, of the present contents of its page.
Fresh(k, pr, ve, s, r) ==
    /\ k.address[r] = s
    /\ k.words[s].ver = ve[PageOf[r]]
    /\ PageOf[r] \in pr
    /\ r \in k.pageMap[PageOf[r]]

Typed(k) ==
    /\ k.words = [a \in Addresses |-> k.words[a]]
    /\ k.cursor \in 1 .. CacheWords + 1
    /\ k.address \in [Rips -> 0 .. CacheWords]
    /\ k.end \in [Rips -> Nat]
    /\ k.pending \in [Rips -> SUBSET Addresses]
    /\ k.cache = [x \in {Slot[r] : r \in Rips} |-> k.cache[x]]
    /\ k.pageMap \in [Pages -> SUBSET Rips]

\* host_pc_map: copies lie below the cursor.
Placed(g, k) ==
    \A x \in k.hostMap : \E s \in Addresses, r \in Rips :
        x = <<s + Size(g, r), r>> /\ s + Size(g, r) <= k.cursor

Apart(g, k) ==
    \A s, t \in Addresses, q, r \in Rips :
        Copy(g, k, s, q) /\ Copy(g, k, t, r)
            => (s = t /\ q = r) \/ s + Size(g, q) <= t \/ t + Size(g, r) <= s

\* Words outside of links are the ones emitted, or a stub at the head.
Bodies(g, k) ==
    \A s \in Addresses, r \in Rips : Copy(g, k, s, r) =>
        \A i \in 1 .. Size(g, r) :
            OpAt(g, r, i) \notin {"link", "pad"} => Own(g, k, s, r, i) \/ (i <= 2 /\ Stub(k, s))

\* A link goes to the dispatcher or to a copy of its target.
Links(g, k) ==
    \A s \in Addresses, r \in Rips : Copy(g, k, s, r) =>
        \A i \in 1 .. Size(g, r) : OpAt(g, r, i) = "link" =>
            \/ Unlinked(k, s + i - 1)
            \/ \E h \in Addresses : Copy(g, k, h, ArgAt(g, r, i)) /\ LinkedTo(k, s + i - 1, h)

Heads(g, k, pr, ve) ==
    \A s \in Addresses, r \in Rips : Copy(g, k, s, r) => Stub(k, s) \/ Fresh(k, pr, ve, s, r)

Known(g, k) ==
    \A r \in Rips : k.address[r] # 0 =>
        Copy(g, k, k.address[r], r) /\ k.end[r] = k.address[r] + Size(g, r)

\* page_map holds blocks that are translated and not yet stubbed.
Mapped(k) ==
    \A p \in Pages : \A r \in k.pageMap[p] :
        p = PageOf[r] /\ k.address[r] # 0 /\ ~Stub(k, k.address[r])

Entries(g, k) ==
    \A r \in Rips : k.cache[Slot[r]].guest = r =>
        k.cache[Slot[r]].host \in Addresses /\ Copy(g, k, k.cache[Slot[r]].host, r)

Waiting(g, k) ==
    \A q \in Rips : \A a \in k.pending[q] : Site(g, k, a, q) /\ Unlinked(k, a)

CodeInv(g, k, pr, ve) ==
    /\ Typed(k)
    /\ Placed(g, k)
    /\ Apart(g, k)
    /\ Bodies(g, k)
    /\ Links(g, k)
    /\ Heads(g, k, pr, ve)
    /\ Known(g, k)
    /\ Mapped(k)
    /\ Entries(g, k)
    /\ Waiting(g, k)

\* The thread came to the copy of r at s from the dispatcher or by a link to it.
Came(g, k, x, s, r) == x = 0 \/ (Site(g, k, x - 2, r) /\ LinkedTo(k, x - 2, s))

\* What the rip register holds at word i of block r.
RipAt(g, r, i, x) ==
    /\ x \in Rips
    /\ OpAt(g, r, i) \in Body => x = r
    /\ OpAt(g, r, i) \in {"link", "pad"} => x = ArgAt(g, r, i)

\* The thread is at word i of the copy of r at s.
Runs(g, k, s, r, i) ==
    /\ Copy(g, k, s, r)
    /\ pc = s + i - 1
    /\ RipAt(g, r, i, rip)
    /\ i = 1 => Came(g, k, t5, s, r)
    /\ t4 => i = 2 /\ Stub(k, s) /\ rip = r /\ Came(g, k, t5, s, r)
    /\ i = 2 /\ Stub(k, s) => t4 \/ Guests[g].remote

Running(g, k) ==
    mode = "jit" => \E s \in Addresses, r \in Rips : \E i \in 1 .. Size(g, r) : Runs(g, k, s, r, i)

\* The thread has run the stub of the copy of r at s.
Leaving(g, k) ==
    mode = "thunk" => \E s \in Addresses, r \in Rips :
        Copy(g, k, s, r) /\ Stub(k, s) /\ t6 = s + 2 /\ rip = r /\ Came(g, k, t5, s, r)

Registers(g) ==
    /\ mode \in {"jit", "dispatch", "thunk", "wild"}
    /\ mode = "wild" => Guests[g].remote
    /\ rip \in Rips
    /\ t4 \in BOOLEAN
    /\ t4 => mode = "jit"

LinksInv ==
    /\ guest \in DOMAIN Guests
    /\ prot \subseteq Pages
    /\ ver \in [Pages -> Versions]
    /\ CodeInv(guest, Current, prot, ver)
    /\ Running(guest, Current)
    /\ Leaving(guest, Current)
    /\ Registers(guest)

-----------------------------------------------------------------------------
(* Blocks and copies.                                                      *)

\* Sizes are numbers, and compile keeps room for a block.
LEMMA Sized ==
    ASSUME NEW g \in DOMAIN Guests, NEW r \in Rips
    PROVE  Size(g, r) \in Nat /\ 2 <= Size(g, r) /\ Size(g, r) <= Reserve
  BY GuestsAssumption, PlacesAssumption

\* A link has a second word, and where the stub goes there is none.
LEMMA LinkShape ==
    ASSUME NEW g \in DOMAIN Guests, Roomy(g), NEW r \in Rips, NEW i \in 1 .. Size(g, r),
           OpAt(g, r, i) = "link"
    PROVE  /\ i >= 3 /\ i + 1 \in 1 .. Size(g, r)
           /\ OpAt(g, r, i + 1) = "pad" /\ ArgAt(g, r, i + 1) = ArgAt(g, r, i)
           /\ ArgAt(g, r, i) \in Rips
<1>1. Shaped(g, r, i)
  BY Zenon, GuestsAssumption
<1>2. i # 1 /\ i # 2
  BY Zenon DEF Roomy
<1>3. Guests[g].prog[r][i + 1] = <<"pad", ArgAt(g, r, i)>> /\ i < Size(g, r) /\ ArgAt(g, r, i) \in Rips
  BY Zenon, <1>1 DEF Shaped
<1>4. OpAt(g, r, i + 1) = "pad" /\ ArgAt(g, r, i + 1) = ArgAt(g, r, i)
  BY <1>3 DEF OpAt, ArgAt
<1> QED
  BY <1>2, <1>3, <1>4, Sized

\* The second word of a link follows its first.
LEMMA PadShape ==
    ASSUME NEW g \in DOMAIN Guests, NEW r \in Rips, NEW i \in 1 .. Size(g, r),
           OpAt(g, r, i) = "pad"
    PROVE  /\ i - 1 \in 1 .. Size(g, r)
           /\ OpAt(g, r, i - 1) = "link" /\ ArgAt(g, r, i - 1) = ArgAt(g, r, i)
<1>1. Shaped(g, r, i)
  BY Zenon, GuestsAssumption
<1>2. i > 1 /\ Guests[g].prog[r][i - 1] = <<"link", ArgAt(g, r, i)>>
  BY Zenon, <1>1 DEF Shaped
<1>3. OpAt(g, r, i - 1) = "link" /\ ArgAt(g, r, i - 1) = ArgAt(g, r, i)
  BY <1>2 DEF OpAt, ArgAt
<1> QED
  BY <1>2, <1>3, Sized

\* The words of a copy are words of the cache, below the cursor.
LEMMA Inside ==
    ASSUME NEW g \in DOMAIN Guests, NEW k, Typed(k), Placed(g, k),
           NEW s \in Addresses, NEW r \in Rips, Copy(g, k, s, r), NEW i \in 1 .. Size(g, r)
    PROVE  s + Size(g, r) <= k.cursor /\ s + i - 1 \in Addresses /\ s + i - 1 < k.cursor
<1>1. PICK t \in Addresses, q \in Rips :
          <<s + Size(g, r), r>> = <<t + Size(g, q), q>> /\ t + Size(g, q) <= k.cursor
  BY Zenon DEF Placed, Copy
<1>2. s + Size(g, r) <= k.cursor
  BY Zenon, <1>1
<1>3. k.cursor \in 1 .. CacheWords + 1
  BY Zenon DEF Typed
<1> QED
  BY <1>2, <1>3, Sized, PlacesAssumption DEF Addresses

\* A word of the cache belongs to one word of one copy.
LEMMA Unique ==
    ASSUME NEW g \in DOMAIN Guests, NEW k, Apart(g, k),
           NEW s \in Addresses, NEW q \in Rips, Copy(g, k, s, q), NEW i \in 1 .. Size(g, q),
           NEW t \in Addresses, NEW r \in Rips, Copy(g, k, t, r), NEW j \in 1 .. Size(g, r),
           s + i - 1 = t + j - 1
    PROVE  s = t /\ q = r /\ i = j
<1>1. (s = t /\ q = r) \/ s + Size(g, q) <= t \/ t + Size(g, r) <= s
  BY Zenon DEF Apart
<1> QED
  BY <1>1, Sized, PlacesAssumption DEF Addresses

\* The words of a link are a link's in whichever copy they are looked at.
LEMMA SiteWords ==
    ASSUME NEW g \in DOMAIN Guests, Roomy(g), NEW k, Apart(g, k),
           NEW a, NEW q, Site(g, k, a, q),
           NEW t \in Addresses, NEW r \in Rips, Copy(g, k, t, r), NEW j \in 1 .. Size(g, r)
    PROVE  /\ t + j - 1 = a => OpAt(g, r, j) = "link" /\ ArgAt(g, r, j) = q
           /\ t + j - 1 = a + 1 => OpAt(g, r, j) = "pad"
<1>1. PICK s \in Addresses, p \in Rips : \E i \in 1 .. Size(g, p) :
          Copy(g, k, s, p) /\ a = s + i - 1 /\ OpAt(g, p, i) = "link" /\ ArgAt(g, p, i) = q
  BY Zenon DEF Site
<1>2. PICK i \in 1 .. Size(g, p) :
          Copy(g, k, s, p) /\ a = s + i - 1 /\ OpAt(g, p, i) = "link" /\ ArgAt(g, p, i) = q
  BY Zenon, <1>1
<1>3. i + 1 \in 1 .. Size(g, p) /\ OpAt(g, p, i + 1) = "pad"
  BY Zenon, <1>2, LinkShape
<1>4. ASSUME t + j - 1 = a PROVE OpAt(g, r, j) = "link" /\ ArgAt(g, r, j) = q
  <2>1. s = t /\ p = r /\ i = j
    BY <1>2, <1>4, Unique
  <2> QED
    BY Zenon, <1>2, <2>1
<1>5. ASSUME t + j - 1 = a + 1 PROVE OpAt(g, r, j) = "pad"
  <2>1. s + (i + 1) - 1 = t + j - 1
    BY <1>2, <1>5, Sized, PlacesAssumption DEF Addresses
  <2>2. s = t /\ p = r /\ i + 1 = j
    BY <1>2, <1>3, <2>1, Unique
  <2> QED
    BY Zenon, <1>3, <2>2
<1> QED
  BY Zenon, <1>4, <1>5

\* A link's two words are words of the cache.
LEMMA SiteInside ==
    ASSUME NEW g \in DOMAIN Guests, Roomy(g), NEW k, Typed(k), Placed(g, k), NEW a, NEW q,
           Site(g, k, a, q)
    PROVE  a \in Addresses /\ a + 1 \in Addresses /\ a + 1 < k.cursor /\ q \in Rips
<1>1. PICK s \in Addresses, p \in Rips : \E i \in 1 .. Size(g, p) :
          Copy(g, k, s, p) /\ a = s + i - 1 /\ OpAt(g, p, i) = "link" /\ ArgAt(g, p, i) = q
  BY Zenon DEF Site
<1>2. PICK i \in 1 .. Size(g, p) :
          Copy(g, k, s, p) /\ a = s + i - 1 /\ OpAt(g, p, i) = "link" /\ ArgAt(g, p, i) = q
  BY Zenon, <1>1
<1>3. i + 1 \in 1 .. Size(g, p) /\ q \in Rips
  BY Zenon, <1>2, LinkShape
<1>4. s + i - 1 \in Addresses
  BY Zenon, <1>2, Inside
<1>5. s + (i + 1) - 1 \in Addresses /\ s + (i + 1) - 1 < k.cursor
  BY Zenon, <1>2, <1>3, Inside
<1> QED
  BY <1>2, <1>3, <1>4, <1>5, Sized, PlacesAssumption DEF Addresses

\* The address of a block is that of a copy.
LEMMA AddressKnown ==
    ASSUME NEW g, NEW k, Typed(k), Known(g, k), NEW q \in Rips, k.address[q] # 0
    PROVE  k.address[q] \in Addresses /\ Copy(g, k, k.address[q], q)
<1>1. k.address[q] \in 0 .. CacheWords
  BY Zenon DEF Typed
<1>2. k.address[q] \in Addresses
  BY <1>1, PlacesAssumption DEF Addresses
<1> QED
  BY Zenon, <1>2 DEF Known

\* A page of page_map gets a block.
LEMMA PagesGrow ==
    ASSUME NEW m \in [Pages -> SUBSET Rips], NEW r \in Rips, NEW n, NEW p \in Pages,
           n = [m EXCEPT ![p] = @ \cup {r}]
    PROVE  /\ n \in [Pages -> SUBSET Rips] /\ r \in n[p]
           /\ \A x \in Pages : /\ m[x] \subseteq n[x]
                               /\ \A q \in n[x] : q \in m[x] \/ (q = r /\ x = p)
  OBVIOUS

-----------------------------------------------------------------------------
(* invalidateRange on one page.                                            *)

\* Where invalidateBlock puts stubs.
Starts(k, p) == {k.address[r] : r \in k.pageMap[p]}

\* The word at a after that.
StubbedWord(k, p, a) ==
    IF a \in Starts(k, p) THEN Stub1 ELSE IF a - 1 \in Starts(k, p) THEN Stub2 ELSE k.words[a]

\* Cache d is k with the blocks of page p invalidated.
Invalidated(k, d, p) ==
    /\ d.words = [a \in Addresses |-> StubbedWord(k, p, a)]
    /\ d.pageMap = [k.pageMap EXCEPT ![p] = {}]
    /\ d.cursor = k.cursor /\ d.address = k.address /\ d.end = k.end
    /\ d.pending = k.pending /\ d.hostMap = k.hostMap /\ d.cache = k.cache

\* Stubs go to the heads of copies.
LEMMA StartsAreHeads ==
    ASSUME NEW g \in DOMAIN Guests, NEW k, NEW pr, NEW ve, CodeInv(g, k, pr, ve), NEW p \in Pages,
           NEW a \in Starts(k, p)
    PROVE  \E r \in Rips : /\ r \in k.pageMap[p] /\ k.address[r] = a /\ a \in Addresses
                           /\ PageOf[r] = p /\ Copy(g, k, a, r)
<1>1. PICK r \in k.pageMap[p] : k.address[r] = a
  BY Zenon DEF Starts
<1>2. r \in Rips /\ k.address \in [Rips -> 0 .. CacheWords]
  BY Zenon DEF CodeInv, Typed
<1>3. PageOf[r] = p /\ a # 0
  BY Zenon, <1>1 DEF CodeInv, Mapped
<1>4. Copy(g, k, a, r)
  BY Zenon, <1>1, <1>2, <1>3 DEF CodeInv, Known
<1>5. a \in Addresses
  BY <1>1, <1>2, <1>3, PlacesAssumption DEF Addresses
<1> QED
  BY Zenon, <1>1, <1>2, <1>3, <1>4, <1>5

\* The words of a copy behind its first two are the same in k and d.
TailKept(g, k, d, s, r) ==
    \A i \in 3 .. Size(g, r) : d.words[s + i - 1] = k.words[s + i - 1]

\* Nothing of a copy but its first two words changes, and those become a stub.
LEMMA InvalidatedWords ==
    ASSUME NEW g \in DOMAIN Guests, Roomy(g), NEW k, NEW d, NEW pr, NEW ve, CodeInv(g, k, pr, ve),
           NEW p \in Pages, Invalidated(k, d, p),
           NEW s \in Addresses, NEW r \in Rips, Copy(g, k, s, r)
    PROVE  /\ TailKept(g, k, d, s, r)
           /\ s \in Starts(k, p) => Stub(d, s)
           /\ s \notin Starts(k, p) => d.words[s] = k.words[s] /\ d.words[s + 1] = k.words[s + 1]
<1>1. Typed(k) /\ Placed(g, k) /\ Apart(g, k)
  BY Zenon DEF CodeInv
<1>2. Size(g, r) \in Nat /\ Size(g, r) >= 3
  BY Zenon, Sized DEF Roomy
<1>3. ASSUME NEW i \in 1 .. Size(g, r), s + i - 1 \in Starts(k, p) PROVE i = 1
  <2>1. PICK q \in Rips : s + i - 1 \in Addresses /\ Copy(g, k, s + i - 1, q)
    BY Zenon, <1>3, StartsAreHeads
  <2>2. 1 \in 1 .. Size(g, q)
    BY Sized
  <2>3. s + i - 1 = (s + i - 1) + 1 - 1
    BY <1>2, PlacesAssumption DEF Addresses
  <2> QED
    BY <1>1, <2>1, <2>2, <2>3, Unique
<1>4. ASSUME NEW i \in 1 .. Size(g, r), s + i - 1 - 1 \in Starts(k, p) PROVE i = 2
  <2>1. PICK q \in Rips : s + i - 1 - 1 \in Addresses /\ Copy(g, k, s + i - 1 - 1, q)
    BY <1>4, StartsAreHeads
  <2>2. 2 \in 1 .. Size(g, q)
    BY Sized
  <2>3. s + i - 1 = (s + i - 1 - 1) + 2 - 1
    BY <1>2, PlacesAssumption DEF Addresses
  <2> QED
    BY <1>1, <2>1, <2>2, <2>3, Unique
<1>5. ASSUME NEW i \in 1 .. Size(g, r)
      PROVE  /\ s + i - 1 \in Addresses
             /\ d.words[s + i - 1] = StubbedWord(k, p, s + i - 1)
  <2>1. s + i - 1 \in Addresses
    BY Zenon, <1>1, Inside
  <2> QED
    BY <2>1, Zenon DEF Invalidated
<1>6. ASSUME NEW i \in 3 .. Size(g, r) PROVE d.words[s + i - 1] = k.words[s + i - 1]
  <2>1. i \in 1 .. Size(g, r) /\ i # 1 /\ i # 2
    BY <1>2
  <2> QED
    BY <2>1, <1>3, <1>4, <1>5, <1>2, PlacesAssumption DEF StubbedWord, Addresses
<1>7. 1 \in 1 .. Size(g, r) /\ 2 \in 1 .. Size(g, r) /\ s + 1 - 1 = s /\ s + 2 - 1 = s + 1 /\
      s + 2 - 1 - 1 = s
      /\ s + 1 - 1 - 1 = s - 1
  BY <1>2, PlacesAssumption DEF Addresses
<1>8. s + 1 \notin Starts(k, p) /\ s - 1 \notin Starts(k, p)
  BY <1>3, <1>4, <1>7
<1>9. /\ d.words[s] = IF s \in Starts(k, p) THEN Stub1 ELSE k.words[s]
      /\ d.words[s + 1] = IF s \in Starts(k, p) THEN Stub2 ELSE k.words[s + 1]
  BY <1>2, <1>5, <1>7, <1>8, PlacesAssumption DEF StubbedWord, Addresses
<1> QED
  BY Zenon, <1>6, <1>9 DEF Stub, TailKept

\* Links keep their words.
LEMMA InvalidatedSites ==
    ASSUME NEW g \in DOMAIN Guests, Roomy(g), NEW k, NEW d, NEW pr, NEW ve, CodeInv(g, k, pr, ve),
           NEW p \in Pages, Invalidated(k, d, p), NEW a, NEW q, Site(g, k, a, q)
    PROVE  Site(g, d, a, q) /\ d.words[a] = k.words[a] /\ d.words[a + 1] = k.words[a + 1]
<1>1. PICK s \in Addresses, r \in Rips : \E i \in 1 .. Size(g, r) :
          Copy(g, k, s, r) /\ a = s + i - 1 /\ OpAt(g, r, i) = "link" /\ ArgAt(g, r, i) = q
  BY Zenon DEF Site
<1>2. PICK i \in 1 .. Size(g, r) :
          Copy(g, k, s, r) /\ a = s + i - 1 /\ OpAt(g, r, i) = "link" /\ ArgAt(g, r, i) = q
  BY Zenon, <1>1
<1>3. i >= 3 /\ i + 1 \in 1 .. Size(g, r)
  BY Zenon, <1>2, LinkShape
<1>4. i \in 3 .. Size(g, r) /\ i + 1 \in 3 .. Size(g, r) /\ s + (i + 1) - 1 = a + 1
  BY <1>2, <1>3, Sized, PlacesAssumption DEF Addresses
<1>5. TailKept(g, k, d, s, r)
  BY Zenon, <1>2, InvalidatedWords
<1>6. Copy(g, d, s, r)
  BY Zenon, <1>2 DEF Copy, Invalidated
<1>7. Site(g, d, a, q)
  BY Zenon, <1>2, <1>6 DEF Site
<1> QED
  BY Zenon, <1>2, <1>4, <1>5, <1>7 DEF TailKept

\* Where a thread came from, and the stubs there were, stay.
LEMMA InvalidatedCame ==
    ASSUME NEW g \in DOMAIN Guests, Roomy(g), NEW k, NEW d, NEW pr, NEW ve, CodeInv(g, k, pr, ve),
           NEW p \in Pages, Invalidated(k, d, p),
           NEW s \in Addresses, NEW r \in Rips, Copy(g, k, s, r), NEW x
    PROVE  /\ Copy(g, d, s, r)
           /\ Stub(k, s) => Stub(d, s)
           /\ Came(g, k, x, s, r) => Came(g, d, x, s, r)
<1>1. Copy(g, d, s, r)
  BY Zenon DEF Copy, Invalidated
<1>2. Stub(k, s) => Stub(d, s)
  <2>1. s \in Starts(k, p) => Stub(d, s)
    BY Zenon, InvalidatedWords
  <2>2. s \notin Starts(k, p) => d.words[s] = k.words[s] /\ d.words[s + 1] = k.words[s + 1]
    BY InvalidatedWords
  <2> QED
    BY Zenon, <2>1, <2>2 DEF Stub
<1>3. ASSUME Came(g, k, x, s, r), x # 0 PROVE Came(g, d, x, s, r)
  <2>1. Site(g, k, x - 2, r) /\ LinkedTo(k, x - 2, s)
    BY Zenon, <1>3 DEF Came
  <2>2. Site(g, d, x - 2, r) /\ d.words[x - 2] = k.words[x - 2] /\
        d.words[x - 2 + 1] = k.words[x - 2 + 1]
    BY <2>1, InvalidatedSites
  <2> QED
    BY Zenon, <2>1, <2>2 DEF Came, LinkedTo
<1> QED
  BY Zenon, <1>1, <1>2, <1>3 DEF Came

\* invalidateRange on page p, after which the page may have any contents.
LEMMA InvalidatedInv ==
    ASSUME NEW g \in DOMAIN Guests, Roomy(g), NEW k, NEW d, NEW pr, NEW ve, CodeInv(g, k, pr, ve),
           NEW p \in Pages, Invalidated(k, d, p), NEW ve2, \A q \in Pages \ {p} : ve2[q] = ve[q]
    PROVE  CodeInv(g, d, pr \ {p}, ve2)
<1>1. /\ Typed(k) /\ Placed(g, k) /\ Apart(g, k) /\ Bodies(g, k) /\ Links(g, k) /\ Heads(g, k, pr, ve)
      /\ Known(g, k) /\ Mapped(k) /\ Entries(g, k) /\ Waiting(g, k)
  BY Zenon DEF CodeInv
<1>2. /\ d.cursor = k.cursor /\ d.address = k.address /\ d.end = k.end
      /\ d.pending = k.pending /\ d.hostMap = k.hostMap /\ d.cache = k.cache
      /\ d.pageMap = [k.pageMap EXCEPT ![p] = {}]
      /\ d.words = [a \in Addresses |-> StubbedWord(k, p, a)]
  BY Zenon DEF Invalidated
<1>3. \A s, r : Copy(g, d, s, r) <=> Copy(g, k, s, r)
  BY Zenon, <1>2 DEF Copy
<1>4. Typed(d)
  <2>1. d.words = [a \in Addresses |-> d.words[a]]
    BY Zenon, <1>2
  <2>2. d.pageMap \in [Pages -> SUBSET Rips]
    BY <1>1, <1>2 DEF Typed
  <2> QED
    BY Zenon, <1>1, <1>2, <2>1, <2>2 DEF Typed
<1>5. Placed(g, d)
  BY Zenon, <1>1, <1>2 DEF Placed
<1>6. Apart(g, d)
  BY Zenon, <1>1, <1>3 DEF Apart
<1>7. Bodies(g, d)
  <2>1. SUFFICES ASSUME NEW s \in Addresses, NEW r \in Rips, Copy(g, k, s, r),
        NEW i \in 1 .. Size(g, r),
                        OpAt(g, r, i) \notin {"link", "pad"}
                 PROVE  Own(g, d, s, r, i) \/ (i <= 2 /\ Stub(d, s))
    BY Zenon, <1>3 DEF Bodies
  <2>2. Own(g, k, s, r, i) \/ (i <= 2 /\ Stub(k, s))
    BY Zenon, <1>1, <2>1 DEF Bodies
  <2>3. Stub(k, s) => Stub(d, s)
    BY Zenon, <2>1, InvalidatedCame
  <2>4. ASSUME i >= 3 PROVE d.words[s + i - 1] = k.words[s + i - 1]
    <3>1. i \in 3 .. Size(g, r)
      BY <2>4, Sized
    <3>2. TailKept(g, k, d, s, r)
      BY Zenon, <2>1, InvalidatedWords
    <3> QED
      BY Zenon, <3>1, <3>2 DEF TailKept
  <2>5. ASSUME i < 3, ~Stub(d, s) PROVE d.words[s + i - 1] = k.words[s + i - 1]
    <3>1. s \notin Starts(k, p)
      BY Zenon, <2>1, <2>5, InvalidatedWords
    <3>2. d.words[s] = k.words[s]
      BY <2>1, <3>1, InvalidatedWords
    <3>3. d.words[s + 1] = k.words[s + 1]
      BY <2>1, <3>1, InvalidatedWords
    <3>4. s + i - 1 = s \/ s + i - 1 = s + 1
      BY <2>5, Sized, PlacesAssumption DEF Addresses
    <3> QED
      BY Zenon, <3>2, <3>3, <3>4
  <2>6. i \in Nat
    BY Sized
  <2> QED
    BY <2>2, <2>3, <2>4, <2>5, <2>6 DEF Own
<1>8. Links(g, d)
  <2>1. SUFFICES ASSUME NEW s \in Addresses, NEW r \in Rips, Copy(g, k, s, r),
        NEW i \in 1 .. Size(g, r),
                        OpAt(g, r, i) = "link"
                 PROVE  \/ Unlinked(d, s + i - 1)
                        \/ \E h \in Addresses : Copy(g, k, h, ArgAt(g, r, i)) /\
                            LinkedTo(d, s + i - 1, h)
    BY Zenon, <1>3 DEF Links
  <2>2. Site(g, k, s + i - 1, ArgAt(g, r, i))
    BY Zenon, <2>1 DEF Site
  <2>3. d.words[s + i - 1] = k.words[s + i - 1] /\ d.words[s + i - 1 + 1] = k.words[s + i - 1 + 1]
    BY <2>2, InvalidatedSites
  <2>4. \/ Unlinked(k, s + i - 1)
        \/ \E h \in Addresses : Copy(g, k, h, ArgAt(g, r, i)) /\ LinkedTo(k, s + i - 1, h)
    BY Zenon, <1>1, <2>1 DEF Links
  <2> QED
    BY Zenon, <2>3, <2>4 DEF Unlinked, LinkedTo
<1>9. Heads(g, d, pr \ {p}, ve2)
  <2>1. SUFFICES ASSUME NEW s \in Addresses, NEW r \in Rips, Copy(g, k, s, r), ~Stub(d, s)
                 PROVE  Fresh(d, pr \ {p}, ve2, s, r)
    BY Zenon, <1>3 DEF Heads
  <2>2. ~Stub(k, s)
    BY Zenon, <2>1, InvalidatedCame
  <2>3. Fresh(k, pr, ve, s, r)
    BY Zenon, <1>1, <2>1, <2>2 DEF Heads
  <2>4. s \notin Starts(k, p)
    BY Zenon, <2>1, InvalidatedWords
  <2>5. PageOf[r] # p
    BY Zenon, <2>3, <2>4 DEF Fresh, Starts
  <2>6. d.words[s] = k.words[s]
    BY <2>1, <2>4, InvalidatedWords
  <2>7. PageOf[r] \in Pages
    BY Zenon, PlacesAssumption
  <2>8. d.pageMap[PageOf[r]] = k.pageMap[PageOf[r]]
    BY Zenon, <1>1, <1>2, <2>5, <2>7 DEF Typed
  <2> QED
    BY Zenon, <1>2, <2>3, <2>5, <2>6, <2>7, <2>8 DEF Fresh
<1>10. Known(g, d)
  BY Zenon, <1>1, <1>2, <1>3 DEF Known
<1>11. Mapped(d)
  <2>1. SUFFICES ASSUME NEW p2 \in Pages, NEW r \in d.pageMap[p2]
                 PROVE  p2 = PageOf[r] /\ k.address[r] # 0 /\ ~Stub(d, k.address[r])
    BY Zenon, <1>2 DEF Mapped
  <2>2. p2 # p /\ r \in k.pageMap[p2]
    BY Zenon, <1>1, <1>2 DEF Typed
  <2>3. p2 = PageOf[r] /\ k.address[r] # 0 /\ ~Stub(k, k.address[r]) /\ r \in Rips
    BY Zenon, <1>1, <2>2 DEF Mapped, Typed
  <2>4. Copy(g, k, k.address[r], r) /\ k.address[r] \in Addresses
    BY <1>1, <2>3, PlacesAssumption DEF Known, Typed, Addresses
  <2>5. PICK s \in Addresses : s = k.address[r] /\ Copy(g, k, s, r)
    BY Zenon, <2>4
  <2>6. s \notin Starts(k, p)
    <3>1. SUFFICES ASSUME s \in Starts(k, p) PROVE FALSE
      BY Zenon
    <3>2. PICK q \in Rips : PageOf[q] = p /\ Copy(g, k, s, q)
      BY Zenon, <3>1, StartsAreHeads
    <3>3. 1 \in 1 .. Size(g, q)
      BY Sized
    <3>4. 1 \in 1 .. Size(g, r)
      BY <2>3, Sized
    <3>5. q = r
      BY <1>1, <2>3, <2>5, <3>2, <3>3, <3>4, Unique
    <3> QED
      BY Zenon, <2>2, <2>3, <3>2, <3>5
  <2>7. r \in Rips /\ Copy(g, k, s, r)
    BY Zenon, <2>3, <2>5
  <2>8. d.words[s] = k.words[s]
    BY <2>6, <2>7, InvalidatedWords
  <2>9. d.words[s + 1] = k.words[s + 1]
    BY <2>6, <2>7, InvalidatedWords
  <2> QED
    BY Zenon, <2>3, <2>5, <2>8, <2>9 DEF Stub
<1>12. Entries(g, d)
  BY Zenon, <1>1, <1>2, <1>3 DEF Entries
<1>13. Waiting(g, d)
  <2>1. SUFFICES ASSUME NEW q \in Rips, NEW a \in k.pending[q] PROVE Site(g, d, a, q) /\ Unlinked(d, a)
    BY Zenon, <1>2 DEF Waiting
  <2>2. Site(g, k, a, q) /\ Unlinked(k, a)
    BY Zenon, <1>1 DEF Waiting
  <2>3. Site(g, d, a, q) /\ d.words[a] = k.words[a] /\ d.words[a + 1] = k.words[a + 1]
    BY <2>2, InvalidatedSites
  <2> QED
    BY Zenon, <2>2, <2>3 DEF Unlinked
<1> QED
  BY Zenon, <1>4, <1>5, <1>6, <1>7, <1>8, <1>9, <1>10, <1>11, <1>12, <1>13 DEF CodeInv

-----------------------------------------------------------------------------
(* invalidateAt: the block whose stub was run, its address, the link.      *)

\* Cache d is k with the address of block r forgotten, if it is the copy at s, and
\* the entry of the address cache.
Forgotten(k, d, s, r) ==
    /\ d.address = IF s + 2 \in k.address[r] .. k.end[r] THEN [k.address EXCEPT ![r] = 0] ELSE k.address
    /\ d.cache = [k.cache EXCEPT ![Slot[r]] = NoEntry]
    /\ d.words = k.words /\ d.cursor = k.cursor /\ d.end = k.end
    /\ d.pending = k.pending /\ d.hostMap = k.hostMap /\ d.pageMap = k.pageMap

\* Block r has no address if that was s, and nothing else has changed.
AddressGone(k, d, s, r) ==
    /\ d.address \in [Rips -> 0 .. CacheWords]
    /\ \A q \in Rips \ {r} : d.address[q] = k.address[q]
    /\ k.address[r] = s => d.address[r] = 0
    /\ k.address[r] # s => d.address[r] = k.address[r]

\* A copy is told from the others of its block by where its stub returns.
LEMMA ForgottenAddress ==
    ASSUME NEW g \in DOMAIN Guests, Roomy(g), NEW k, NEW d, NEW pr, NEW ve, CodeInv(g, k, pr, ve),
           NEW s \in Addresses, NEW r \in Rips, Copy(g, k, s, r), Forgotten(k, d, s, r)
    PROVE  AddressGone(k, d, s, r)
<1>1. k.address \in [Rips -> 0 .. CacheWords] /\ k.end \in [Rips -> Nat]
  BY Zenon DEF CodeInv, Typed
<1>2. Size(g, r) \in Nat /\ Size(g, r) >= 3
  BY Zenon, Sized DEF Roomy
<1>3. k.address[r] # 0 => Copy(g, k, k.address[r], r) /\ k.end[r] = k.address[r] + Size(g, r)
  BY Zenon DEF CodeInv, Known
<1>4. k.address[r] = s => s + 2 \in k.address[r] .. k.end[r]
  BY <1>1, <1>2, <1>3, PlacesAssumption DEF Addresses
<1>5. ASSUME k.address[r] # s, k.address[r] # 0 PROVE s + 2 \notin k.address[r] .. k.end[r]
  <2>1. PICK t \in Addresses : t = k.address[r] /\ Copy(g, k, t, r) /\ k.end[r] = t + Size(g, r)
    BY <1>1, <1>3, <1>5, PlacesAssumption DEF Addresses
  <2>2. s + Size(g, r) <= t \/ t + Size(g, r) <= s
    BY Zenon, <1>5, <2>1 DEF CodeInv, Apart
  <2> QED
    BY <1>2, <2>1, <2>2, PlacesAssumption DEF Addresses
<1>6. \/ d.address = [k.address EXCEPT ![r] = 0]
      \/ d.address = k.address
  BY Zenon DEF Forgotten
<1>7. d.address \in [Rips -> 0 .. CacheWords]
  BY <1>1, <1>6, PlacesAssumption
<1>8. \A q \in Rips \ {r} : d.address[q] = k.address[q]
  BY Zenon, <1>1, <1>6
<1>9. ASSUME k.address[r] = s PROVE d.address[r] = 0
  <2>1. d.address = [k.address EXCEPT ![r] = 0]
    BY Zenon, <1>4, <1>9 DEF Forgotten
  <2> QED
    BY Zenon, <1>1, <2>1
<1>10. ASSUME k.address[r] # s PROVE d.address[r] = k.address[r]
  <2>1. CASE k.address[r] = 0
    BY Zenon, <1>1, <1>6, <2>1
  <2>2. CASE k.address[r] # 0
    BY Zenon, <1>5, <1>10, <2>2 DEF Forgotten
  <2> QED
    BY Zenon, <2>1, <2>2
<1> QED
  BY Zenon, <1>7, <1>8, <1>9, <1>10 DEF AddressGone

\* Forgetting a block that has a stub.
LEMMA ForgottenInv ==
    ASSUME NEW g \in DOMAIN Guests, Roomy(g), NEW k, NEW d, NEW pr, NEW ve, CodeInv(g, k, pr, ve),
           NEW s \in Addresses, NEW r \in Rips, Copy(g, k, s, r), Stub(k, s), Forgotten(k, d, s, r)
    PROVE  CodeInv(g, d, pr, ve)
<1>1. /\ Typed(k) /\ Placed(g, k) /\ Apart(g, k) /\ Bodies(g, k) /\ Links(g, k) /\ Heads(g, k, pr, ve)
      /\ Known(g, k) /\ Mapped(k) /\ Entries(g, k) /\ Waiting(g, k)
  BY Zenon DEF CodeInv
<1>2. /\ d.words = k.words /\ d.cursor = k.cursor /\ d.end = k.end
      /\ d.pending = k.pending /\ d.hostMap = k.hostMap /\ d.pageMap = k.pageMap
      /\ d.cache = [k.cache EXCEPT ![Slot[r]] = NoEntry]
  BY Zenon DEF Forgotten
<1>3. \A t, q : Copy(g, d, t, q) <=> Copy(g, k, t, q)
  BY Zenon, <1>2 DEF Copy
<1>4. \A t : Stub(d, t) <=> Stub(k, t)
  BY Zenon, <1>2 DEF Stub
<1>5. AddressGone(k, d, s, r)
  BY Zenon, ForgottenAddress
<1>6. /\ d.address \in [Rips -> 0 .. CacheWords]
      /\ \A q \in Rips \ {r} : d.address[q] = k.address[q]
      /\ k.address[r] = s => d.address[r] = 0
  BY Zenon, <1>5 DEF AddressGone
<1>7. k.address[r] # s => d.address[r] = k.address[r]
  BY Zenon, <1>5 DEF AddressGone
<1>8. d.cache = [x \in {Slot[q] : q \in Rips} |-> d.cache[x]]
  BY Zenon, <1>1, <1>2 DEF Typed
<1>9. Typed(d)
  BY Zenon, <1>1, <1>2, <1>6, <1>8 DEF Typed
<1>10. Placed(g, d)
  BY Zenon, <1>1, <1>2 DEF Placed
<1>11. Apart(g, d)
  BY Zenon, <1>1, <1>3 DEF Apart
<1>12. Bodies(g, d)
  BY <1>1, <1>2, <1>3, <1>4 DEF Bodies, Own
<1>13. Links(g, d)
  BY <1>1, <1>2, <1>3 DEF Links, Unlinked, LinkedTo
<1>14. Heads(g, d, pr, ve)
  <2>1. SUFFICES ASSUME NEW t \in Addresses, NEW q \in Rips, Copy(g, k, t, q), ~Stub(k, t)
                 PROVE  Fresh(d, pr, ve, t, q)
    BY Zenon, <1>3, <1>4 DEF Heads
  <2>2. Fresh(k, pr, ve, t, q)
    BY Zenon, <1>1, <2>1 DEF Heads
  <2>3. t # s
    BY Zenon, <2>1
  <2>4. d.address[q] = t
    BY Zenon, <1>6, <1>7, <2>2, <2>3 DEF Fresh
  <2> QED
    BY Zenon, <1>2, <2>2, <2>4 DEF Fresh
<1>15. Known(g, d)
  <2>1. \A q \in Rips : d.address[q] # 0 => d.address[q] = k.address[q]
    BY Zenon, <1>6, <1>7
  <2> QED
    BY Zenon, <1>1, <1>2, <1>3, <2>1 DEF Known
<1>16. Mapped(d)
  <2>1. SUFFICES ASSUME NEW p \in Pages, NEW q \in k.pageMap[p]
                 PROVE  p = PageOf[q] /\ d.address[q] # 0 /\ ~Stub(k, d.address[q])
    BY Zenon, <1>2, <1>4 DEF Mapped
  <2>2. p = PageOf[q] /\ k.address[q] # 0 /\ ~Stub(k, k.address[q]) /\ q \in Rips
    BY Zenon, <1>1 DEF Mapped, Typed
  <2>3. k.address[q] # s
    BY Zenon, <2>2
  <2>4. d.address[q] = k.address[q]
    BY Zenon, <1>6, <1>7, <2>2, <2>3
  <2> QED
    BY Zenon, <2>2, <2>4
<1>17. Entries(g, d)
  <2>1. SUFFICES ASSUME NEW q \in Rips, d.cache[Slot[q]].guest = q
                 PROVE  d.cache[Slot[q]].host \in Addresses /\ Copy(g, k, d.cache[Slot[q]].host, q)
    BY Zenon, <1>3 DEF Entries
  <2>2. Slot[q] # Slot[r]
    <3>1. SUFFICES ASSUME Slot[q] = Slot[r] PROVE FALSE
      BY Zenon
    <3>2. d.cache[Slot[q]] = NoEntry
      BY Zenon, <1>1, <1>2, <3>1 DEF Typed
    <3>3. q = NoRip
      BY <2>1, <3>2 DEF NoEntry
    <3> QED
      BY Zenon, <3>3, PlacesAssumption
  <2>3. d.cache[Slot[q]] = k.cache[Slot[q]]
    BY <1>1, <1>2, <2>2 DEF Typed
  <2> QED
    BY Zenon, <1>1, <2>1, <2>3 DEF Entries
<1>18. Waiting(g, d)
  BY <1>1, <1>2, <1>3 DEF Waiting, Site, Unlinked
<1> QED
  BY Zenon, <1>9, <1>10, <1>11, <1>12, <1>13, <1>14, <1>15, <1>16, <1>17, <1>18 DEF CodeInv

\* Two links share no word.
LEMMA SitesApart ==
    ASSUME NEW g \in DOMAIN Guests, Roomy(g), NEW k, Typed(k), Placed(g, k), Apart(g, k),
           NEW a, NEW q, Site(g, k, a, q), NEW b, NEW r, Site(g, k, b, r), a # b
    PROVE  b # a + 1 /\ b + 1 # a /\ b + 1 # a + 1
<1>1. a \in Addresses /\ b \in Addresses
  BY Zenon, SiteInside
<1>2. PICK s \in Addresses, p \in Rips : \E i \in 1 .. Size(g, p) :
          Copy(g, k, s, p) /\ b = s + i - 1 /\ OpAt(g, p, i) = "link" /\ ArgAt(g, p, i) = r
  BY Zenon DEF Site
<1>3. PICK i \in 1 .. Size(g, p) :
          Copy(g, k, s, p) /\ b = s + i - 1 /\ OpAt(g, p, i) = "link" /\ ArgAt(g, p, i) = r
  BY Zenon, <1>2
<1>4. i + 1 \in 1 .. Size(g, p) /\ OpAt(g, p, i + 1) = "pad"
  BY Zenon, <1>3, LinkShape
<1>5. b # a + 1
  BY <1>3, SiteWords
<1>6. s + (i + 1) - 1 = b + 1
  BY <1>3, Sized, PlacesAssumption DEF Addresses
<1>7. s + (i + 1) - 1 # a
  BY <1>3, <1>4, SiteWords
<1> QED
  BY <1>1, <1>5, <1>6, <1>7, PlacesAssumption DEF Addresses

\* Cache d is k with the link to r at a made anew.
Relinked(k, d, a, r) ==
    /\ d.words = LinkAt(k.words, a, r, k.address)
    /\ d.pending = PendAt(k.pending, a, r, k.address)
    /\ d.address = k.address /\ d.cache = k.cache /\ d.cursor = k.cursor /\ d.end = k.end
    /\ d.hostMap = k.hostMap /\ d.pageMap = k.pageMap

\* The words at a go to the block, or to the dispatcher.
LinkMade(k, d, a, r) ==
    /\ k.address[r] = 0 => Unlinked(d, a)
    /\ k.address[r] # 0 => LinkedTo(d, a, k.address[r])

\* jumpAndLink changes the two words of the link.
LEMMA RelinkedWords ==
    ASSUME NEW g \in DOMAIN Guests, Roomy(g), NEW k, NEW d, Typed(k), Placed(g, k),
           NEW a, NEW r, Site(g, k, a, r), Relinked(k, d, a, r)
    PROVE  /\ \A b \in Addresses : b # a /\ b # a + 1 => d.words[b] = k.words[b]
           /\ LinkMade(k, d, a, r)
           /\ d.words = [b \in Addresses |-> d.words[b]]
<1>1. a \in Addresses /\ a + 1 \in Addresses /\ a \in Int /\ a # a + 1
  <2>1. a \in Addresses
    BY Zenon, SiteInside
  <2>2. a + 1 \in Addresses
    BY Zenon, SiteInside
  <2> QED
    BY <2>1, <2>2, PlacesAssumption DEF Addresses
<1>2. k.words = [b \in Addresses |-> k.words[b]]
  BY Zenon DEF Typed
<1>3. CASE k.address[r] = 0
  <2>1. d.words = [k.words EXCEPT ![a] = Back1, ![a + 1] = Back2]
    BY Zenon, <1>3 DEF Relinked, LinkAt
  <2> QED
    BY Zenon, <1>1, <1>2, <1>3, <2>1 DEF Unlinked, LinkMade
<1>4. CASE k.address[r] # 0
  <2>1. d.words = [k.words EXCEPT ![a] = Nop, ![a + 1] = Jal(k.address[r])]
    BY Zenon, <1>4 DEF Relinked, LinkAt
  <2> QED
    BY Zenon, <1>1, <1>2, <1>4, <2>1 DEF LinkedTo, LinkMade
<1> QED
  BY Zenon, <1>3, <1>4

\* jumpAndLink at a link that does not wait.
LEMMA RelinkedInv ==
    ASSUME NEW g \in DOMAIN Guests, Roomy(g), NEW k, NEW d, NEW pr, NEW ve, CodeInv(g, k, pr, ve),
           NEW a, NEW r, Site(g, k, a, r), ~Unlinked(k, a), Relinked(k, d, a, r)
    PROVE  CodeInv(g, d, pr, ve)
<1>1. /\ Typed(k) /\ Placed(g, k) /\ Apart(g, k) /\ Bodies(g, k) /\ Links(g, k) /\ Heads(g, k, pr, ve)
      /\ Known(g, k) /\ Mapped(k) /\ Entries(g, k) /\ Waiting(g, k)
  BY Zenon DEF CodeInv
<1>2. /\ d.address = k.address /\ d.cache = k.cache /\ d.cursor = k.cursor /\ d.end = k.end
      /\ d.hostMap = k.hostMap /\ d.pageMap = k.pageMap
      /\ d.pending = PendAt(k.pending, a, r, k.address)
  BY Zenon DEF Relinked
<1>3. /\ \A b \in Addresses : b # a /\ b # a + 1 => d.words[b] = k.words[b]
      /\ LinkMade(k, d, a, r)
      /\ d.words = [b \in Addresses |-> d.words[b]]
  BY Zenon, <1>1, RelinkedWords
<1>4. a \in Addresses /\ r \in Rips
  BY Zenon, <1>1, SiteInside
<1>5. \A t, q : Copy(g, d, t, q) <=> Copy(g, k, t, q)
  BY Zenon, <1>2 DEF Copy
<1>6. \A b, q : Site(g, d, b, q) <=> Site(g, k, b, q)
  BY Zenon, <1>5 DEF Site
<1>7. ASSUME NEW t \in Addresses, NEW q \in Rips, Copy(g, k, t, q), NEW j \in 1 .. Size(g, q),
             OpAt(g, q, j) \notin {"link", "pad"}
      PROVE  d.words[t + j - 1] = k.words[t + j - 1]
  <2>1. t + j - 1 \in Addresses
    BY Zenon, <1>1, <1>7, Inside
  <2>2. t + j - 1 # a
    BY Zenon, <1>1, <1>7, SiteWords
  <2>3. t + j - 1 # a + 1
    BY <1>1, <1>7, SiteWords
  <2> QED
    BY Zenon, <1>3, <2>1, <2>2, <2>3
<1>8. ASSUME NEW b, NEW q, Site(g, k, b, q), a # b
      PROVE  d.words[b] = k.words[b] /\ d.words[b + 1] = k.words[b + 1]
  <2>1. b \in Addresses /\ b + 1 \in Addresses
    BY Zenon, <1>1, <1>8, SiteInside
  <2>2. b # a + 1 /\ b + 1 # a /\ b + 1 # a + 1
    BY Zenon, <1>1, <1>8, SitesApart
  <2> QED
    BY Zenon, <1>3, <1>8, <2>1, <2>2
<1>9. ASSUME NEW t \in Addresses, NEW q \in Rips, Copy(g, k, t, q)
      PROVE  d.words[t] = k.words[t] /\ d.words[t + 1] = k.words[t + 1]
  <2>1. OpAt(g, q, 1) \notin {"link", "pad"} /\ OpAt(g, q, 2) \notin {"link", "pad"}
    BY Zenon DEF Roomy
  <2>2. 1 \in 1 .. Size(g, q) /\ 2 \in 1 .. Size(g, q)
    BY Sized
  <2>3. d.words[t + 1 - 1] = k.words[t + 1 - 1]
    BY Zenon, <1>7, <1>9, <2>1, <2>2
  <2>4. d.words[t + 2 - 1] = k.words[t + 2 - 1]
    BY Zenon, <1>7, <1>9, <2>1, <2>2
  <2>5. t + 1 - 1 = t /\ t + 2 - 1 = t + 1
    BY PlacesAssumption DEF Addresses
  <2> QED
    BY Zenon, <2>3, <2>4, <2>5
<1>10. \A t \in Addresses, q \in Rips : Copy(g, k, t, q) => (Stub(d, t) <=> Stub(k, t))
  BY Zenon, <1>9 DEF Stub
<1>11. d.pending \in [Rips -> SUBSET Addresses]
  BY <1>1, <1>2, <1>4 DEF Typed, PendAt
<1>12. Typed(d)
  BY Zenon, <1>1, <1>2, <1>3, <1>11 DEF Typed
<1>13. Placed(g, d)
  BY Zenon, <1>1, <1>2 DEF Placed
<1>14. Apart(g, d)
  BY Zenon, <1>1, <1>5 DEF Apart
<1>15. Bodies(g, d)
  <2>1. SUFFICES ASSUME NEW s \in Addresses, NEW q \in Rips, Copy(g, k, s, q),
        NEW i \in 1 .. Size(g, q),
                        OpAt(g, q, i) \notin {"link", "pad"}
                 PROVE  Own(g, d, s, q, i) \/ (i <= 2 /\ Stub(d, s))
    BY Zenon, <1>5 DEF Bodies
  <2>2. Own(g, k, s, q, i) \/ (i <= 2 /\ Stub(k, s))
    BY Zenon, <1>1, <2>1 DEF Bodies
  <2>3. d.words[s + i - 1] = k.words[s + i - 1]
    BY Zenon, <1>7, <2>1
  <2>4. Stub(k, s) => Stub(d, s)
    BY Zenon, <1>10, <2>1
  <2> QED
    BY Zenon, <2>2, <2>3, <2>4 DEF Own
<1>16. Links(g, d)
  <2>1. SUFFICES ASSUME NEW s \in Addresses, NEW q \in Rips, Copy(g, k, s, q),
        NEW i \in 1 .. Size(g, q),
                        OpAt(g, q, i) = "link"
                 PROVE  \/ Unlinked(d, s + i - 1)
                        \/ \E h \in Addresses : Copy(g, k, h, ArgAt(g, q, i)) /\
                            LinkedTo(d, s + i - 1, h)
    BY Zenon, <1>5 DEF Links
  <2>2. Site(g, k, s + i - 1, ArgAt(g, q, i))
    BY Zenon, <2>1 DEF Site
  <2>3. CASE s + i - 1 = a
    <3>1. ArgAt(g, q, i) = r
      BY <1>1, <2>1, <2>3, SiteWords
    <3>2. k.address[r] # 0 => Copy(g, k, k.address[r], r) /\ k.address[r] \in Addresses
      BY Zenon, <1>1, <1>4, AddressKnown
    <3> QED
      BY Zenon, <1>3, <2>3, <3>1, <3>2 DEF LinkMade
  <2>4. CASE s + i - 1 # a
    <3>1. d.words[s + i - 1] = k.words[s + i - 1] /\ d.words[s + i - 1 + 1] = k.words[s + i - 1 + 1]
      BY Zenon, <1>8, <2>2, <2>4
    <3>2. \/ Unlinked(k, s + i - 1)
          \/ \E h \in Addresses : Copy(g, k, h, ArgAt(g, q, i)) /\ LinkedTo(k, s + i - 1, h)
      BY Zenon, <1>1, <2>1 DEF Links
    <3> QED
      BY Zenon, <3>1, <3>2 DEF Unlinked, LinkedTo
  <2> QED
    BY Zenon, <2>3, <2>4
<1>17. Heads(g, d, pr, ve)
  <2>1. SUFFICES ASSUME NEW s \in Addresses, NEW q \in Rips, Copy(g, k, s, q), ~Stub(k, s)
                 PROVE  Fresh(d, pr, ve, s, q)
    BY Zenon, <1>5, <1>10 DEF Heads
  <2>2. Fresh(k, pr, ve, s, q)
    BY Zenon, <1>1, <2>1 DEF Heads
  <2>3. d.words[s] = k.words[s]
    BY Zenon, <1>9, <2>1
  <2> QED
    BY Zenon, <1>2, <2>2, <2>3 DEF Fresh
<1>18. Known(g, d)
  BY Zenon, <1>1, <1>2, <1>5 DEF Known
<1>19. Mapped(d)
  <2>1. SUFFICES ASSUME NEW p \in Pages, NEW q \in k.pageMap[p]
                 PROVE  p = PageOf[q] /\ k.address[q] # 0 /\ ~Stub(d, k.address[q])
    BY Zenon, <1>2 DEF Mapped
  <2>2. p = PageOf[q] /\ k.address[q] # 0 /\ ~Stub(k, k.address[q])
    BY Zenon, <1>1 DEF Mapped
  <2>3. q \in Rips
    BY Zenon, <1>1 DEF Typed
  <2>4. Copy(g, k, k.address[q], q) /\ k.address[q] \in Addresses
    BY <1>1, <2>2, <2>3, PlacesAssumption DEF Known, Typed, Addresses
  <2> QED
    BY Zenon, <1>10, <2>2, <2>3, <2>4
<1>20. Entries(g, d)
  BY Zenon, <1>1, <1>2, <1>5 DEF Entries
<1>21. Waiting(g, d)
  <2>1. SUFFICES ASSUME NEW q \in Rips, NEW b \in d.pending[q] PROVE Site(g, k, b, q) /\ Unlinked(d, b)
    BY Zenon, <1>6 DEF Waiting
  <2>2. CASE b \in k.pending[q]
    <3>1. Site(g, k, b, q) /\ Unlinked(k, b)
      BY Zenon, <1>1, <2>2 DEF Waiting
    <3>2. a # b
      BY Zenon, <3>1
    <3>3. d.words[b] = k.words[b] /\ d.words[b + 1] = k.words[b + 1]
      BY Zenon, <1>8, <3>1, <3>2
    <3> QED
      BY Zenon, <3>1, <3>3 DEF Unlinked
  <2>3. CASE b \notin k.pending[q]
    <3>1. b = a /\ q = r /\ k.address[r] = 0
      BY <1>1, <1>2, <1>4, <2>1, <2>3 DEF PendAt, Typed
    <3> QED
      BY Zenon, <1>3, <3>1 DEF LinkMade
  <2> QED
    BY Zenon, <2>2, <2>3
<1> QED
  BY Zenon, <1>12, <1>13, <1>14, <1>15, <1>16, <1>17, <1>18, <1>19, <1>20, <1>21 DEF CodeInv

-----------------------------------------------------------------------------
(* compile.                                                                *)

\* Word i of block r as compileSequence emits it, when addr has the addresses.
NewWord(g, addr, ve, r, i) ==
    IF OpAt(g, r, i) = "link" THEN IF addr[ArgAt(g, r, i)] = 0 THEN Back1 ELSE Nop
    ELSE IF OpAt(g, r, i) = "pad"
         THEN IF addr[ArgAt(g, r, i)] = 0 THEN Back2 ELSE Jal(addr[ArgAt(g, r, i)])
    ELSE Word(OpAt(g, r, i), ArgAt(g, r, i), r, i, ve[PageOf[r]])

\* The words after compile: links that waited for r, and the new copy.
CompiledWord(g, k, addr, ve, r, a) ==
    IF a \in k.pending[r] THEN Nop
    ELSE IF a - 1 \in k.pending[r] THEN Jal(k.cursor)
    ELSE IF a \in k.cursor .. k.cursor + Size(g, r) - 1
         THEN NewWord(g, addr, ve, r, a - k.cursor + 1)
    ELSE k.words[a]

\* The new copy has a link to q at b, which waits.
NewSite(g, k, addr, r, b, q) ==
    \E i \in 1 .. Size(g, r) : /\ OpAt(g, r, i) = "link" /\ ArgAt(g, r, i) = q
                               /\ b = k.cursor + i - 1 /\ addr[q] = 0

\* Cache d is k with block r translated.
Compiled(g, k, d, ve, r) ==
    /\ d.words = [a \in Addresses |-> CompiledWord(g, k, d.address, ve, r, a)]
    /\ d.cursor = k.cursor + Size(g, r)
    /\ d.address = [k.address EXCEPT ![r] = k.cursor]
    /\ d.end = [k.end EXCEPT ![r] = k.cursor + Size(g, r)]
    /\ d.pending \in [Rips -> SUBSET Addresses]
    /\ \A q \in Rips : \A b \in d.pending[q] :
           q # r /\ (b \in k.pending[q] \/ NewSite(g, k, d.address, r, b, q))
    /\ d.hostMap = k.hostMap \cup {<<k.cursor + Size(g, r), r>>}
    /\ d.cache = Cached(k.cache, r, k.cursor)
    /\ d.pageMap = [k.pageMap EXCEPT ![PageOf[r]] = @ \cup {r}]

\* Word i of the new copy is the one emitted.
Emits(g, k, d, ve, r, i) == d.words[k.cursor + i - 1] = NewWord(g, d.address, ve, r, i)

\* The word at a, below the cursor, after compile.
OldWord(k, r, a) ==
    IF a \in k.pending[r] THEN Nop
    ELSE IF a - 1 \in k.pending[r] THEN Jal(k.cursor) ELSE k.words[a]

\* There is room.
Room(k) == CacheWords - (k.cursor - 1) >= Reserve

\* The copies are the old ones and the new one.
LEMMA CompiledCopies ==
    ASSUME NEW g \in DOMAIN Guests, NEW k, NEW d, Typed(k), Room(k), NEW ve, NEW r \in Rips,
           Compiled(g, k, d, ve, r)
    PROVE  /\ k.cursor \in Addresses /\ Copy(g, d, k.cursor, r)
           /\ \A t \in Addresses, q \in Rips : Copy(g, k, t, q) => Copy(g, d, t, q)
           /\ \A t \in Addresses, q \in Rips :
                  Copy(g, d, t, q) => Copy(g, k, t, q) \/ (t = k.cursor /\ q = r)
<1>1. Size(g, r) \in Nat /\ 2 <= Size(g, r) /\ Size(g, r) <= Reserve
  BY Zenon, Sized
<1>2. k.cursor \in 1 .. CacheWords + 1
  BY Zenon DEF Typed
<1>3. k.cursor \in Addresses
  BY <1>1, <1>2, PlacesAssumption DEF Room, Addresses
<1>4. d.hostMap = k.hostMap \cup {<<k.cursor + Size(g, r), r>>}
  BY Zenon DEF Compiled
<1>5. Copy(g, d, k.cursor, r)
  BY Zenon, <1>4 DEF Copy
<1>6. \A t \in Addresses, q \in Rips : Copy(g, k, t, q) => Copy(g, d, t, q)
  BY Zenon, <1>4 DEF Copy
<1>7. ASSUME NEW t \in Addresses, NEW q \in Rips, Copy(g, d, t, q), ~Copy(g, k, t, q)
      PROVE  t = k.cursor /\ q = r
  <2>1. <<t + Size(g, q), q>> = <<k.cursor + Size(g, r), r>>
    BY Zenon, <1>4, <1>7 DEF Copy
  <2>2. q = r /\ t + Size(g, r) = k.cursor + Size(g, r)
    BY Zenon, <2>1
  <2> QED
    BY <1>1, <1>2, <2>2, PlacesAssumption DEF Addresses
<1> QED
  BY Zenon, <1>3, <1>5, <1>6, <1>7

\* The new copy has the words that were emitted.
LEMMA CompiledNew ==
    ASSUME NEW g \in DOMAIN Guests, Roomy(g), NEW k, NEW d, NEW pr, NEW ve, CodeInv(g, k, pr, ve),
           Room(k),
           NEW r \in Rips, Compiled(g, k, d, ve, r), NEW i \in 1 .. Size(g, r)
    PROVE  Emits(g, k, d, ve, r, i)
<1>1. Typed(k) /\ Placed(g, k) /\ Apart(g, k) /\ Waiting(g, k)
  BY Zenon DEF CodeInv
<1>2. Size(g, r) \in Nat /\ 2 <= Size(g, r) /\ Size(g, r) <= Reserve
  BY Zenon, Sized
<1>3. k.cursor \in 1 .. CacheWords + 1
  BY Zenon, <1>1 DEF Typed
<1>4. PICK a \in Addresses : a = k.cursor + i - 1 /\ a - k.cursor + 1 = i
                             /\ a \in k.cursor .. k.cursor + Size(g, r) - 1
  BY <1>2, <1>3, PlacesAssumption DEF Room, Addresses
<1>5. ASSUME NEW b \in k.pending[r] PROVE b + 1 < k.cursor /\ b \in Addresses
  <2>1. Site(g, k, b, r)
    BY Zenon, <1>1 DEF Waiting
  <2> QED
    BY Zenon, <1>1, <2>1, SiteInside
<1>6. a \notin k.pending[r] /\ a - 1 \notin k.pending[r]
  BY <1>3, <1>4, <1>5, PlacesAssumption DEF Addresses
<1>7. d.words[a] = CompiledWord(g, k, d.address, ve, r, a)
  BY <1>4, Zenon DEF Compiled
<1> QED
  BY Zenon, <1>4, <1>6, <1>7 DEF CompiledWord, Emits

\* In the old copies only links that waited for r change.
LEMMA CompiledOld ==
    ASSUME NEW g \in DOMAIN Guests, Roomy(g), NEW k, NEW d, NEW pr, NEW ve, CodeInv(g, k, pr, ve),
           Room(k),
           NEW r \in Rips, Compiled(g, k, d, ve, r),
           NEW a \in Addresses, a < k.cursor
    PROVE  d.words[a] = OldWord(k, r, a)
<1>1. k.cursor \in 1 .. CacheWords + 1 /\ Size(g, r) \in Nat
  BY Zenon, Sized DEF CodeInv, Typed
<1>2. a \notin k.cursor .. k.cursor + Size(g, r) - 1
  BY <1>1, PlacesAssumption DEF Addresses
<1>3. d.words[a] = CompiledWord(g, k, d.address, ve, r, a)
  BY Zenon DEF Compiled
<1> QED
  BY Zenon, <1>2, <1>3 DEF CompiledWord, OldWord

\* A word of an old copy is as it was.
Keeps(k, d, t, j) == d.words[t + j - 1] = k.words[t + j - 1]

\* The link to q at a goes to the new copy of r if it waited for that, and is as it
\* was otherwise.
LinkKept(k, d, r, a, q) ==
    /\ a \in k.pending[r] => q = r /\ LinkedTo(d, a, k.cursor)
    /\ a \notin k.pending[r] => d.words[a] = k.words[a] /\ d.words[a + 1] = k.words[a + 1]

\* Words of old copies outside of links are as they were.
LEMMA CompiledBodies ==
    ASSUME NEW g \in DOMAIN Guests, Roomy(g), NEW k, NEW d, NEW pr, NEW ve, CodeInv(g, k, pr, ve),
           Room(k),
           NEW r \in Rips, Compiled(g, k, d, ve, r),
           NEW t \in Addresses, NEW q \in Rips, Copy(g, k, t, q), NEW j \in 1 .. Size(g, q),
           OpAt(g, q, j) \notin {"link", "pad"}
    PROVE  Keeps(k, d, t, j)
<1>1. Typed(k) /\ Placed(g, k) /\ Apart(g, k) /\ Waiting(g, k)
  BY Zenon DEF CodeInv
<1>2. PICK a \in Addresses : a = t + j - 1 /\ a < k.cursor
  BY Zenon, <1>1, Inside
<1>3. a \notin k.pending[r]
  <2>1. a \in k.pending[r] => Site(g, k, a, r)
    BY Zenon, <1>1 DEF Waiting
  <2> QED
    BY <1>1, <1>2, <2>1, SiteWords
<1>4. a - 1 \notin k.pending[r]
  <2>1. a - 1 \in k.pending[r] => Site(g, k, a - 1, r)
    BY Zenon, <1>1 DEF Waiting
  <2>2. t + j - 1 = (a - 1) + 1
    BY <1>2, PlacesAssumption DEF Addresses
  <2> QED
    BY <1>1, <2>1, <2>2, SiteWords
<1>5. a < k.cursor
  BY Zenon, <1>2
<1>6. d.words[a] = OldWord(k, r, a)
  BY Zenon, <1>5, CompiledOld
<1> QED
  BY Zenon, <1>2, <1>3, <1>4, <1>6 DEF OldWord, Keeps

\* The heads of old copies are as they were.
LEMMA CompiledHeads ==
    ASSUME NEW g \in DOMAIN Guests, Roomy(g), NEW k, NEW d, NEW pr, NEW ve, CodeInv(g, k, pr, ve),
           Room(k),
           NEW r \in Rips, Compiled(g, k, d, ve, r),
           NEW t \in Addresses, NEW q \in Rips, Copy(g, k, t, q)
    PROVE  d.words[t] = k.words[t] /\ d.words[t + 1] = k.words[t + 1]
<1>1. OpAt(g, q, 1) \notin {"link", "pad"} /\ OpAt(g, q, 2) \notin {"link", "pad"}
  BY Zenon DEF Roomy
<1>2. 1 \in 1 .. Size(g, q) /\ 2 \in 1 .. Size(g, q)
  BY Sized
<1>3. Keeps(k, d, t, 1)
  BY Zenon, <1>1, <1>2, CompiledBodies
<1>4. Keeps(k, d, t, 2)
  BY Zenon, <1>1, <1>2, CompiledBodies
<1>5. t + 1 - 1 = t /\ t + 2 - 1 = t + 1
  BY PlacesAssumption DEF Addresses
<1> QED
  BY Zenon, <1>3, <1>4, <1>5 DEF Keeps

\* A link that waited goes to the new copy, and the others are as they were.
LEMMA CompiledLinks ==
    ASSUME NEW g \in DOMAIN Guests, Roomy(g), NEW k, NEW d, NEW pr, NEW ve, CodeInv(g, k, pr, ve),
           Room(k),
           NEW r \in Rips, Compiled(g, k, d, ve, r), NEW a, NEW q, Site(g, k, a, q)
    PROVE  LinkKept(k, d, r, a, q)
<1>1. Typed(k) /\ Placed(g, k) /\ Apart(g, k) /\ Waiting(g, k)
  BY Zenon DEF CodeInv
<1>2. a \in Addresses /\ a + 1 \in Addresses /\ a + 1 < k.cursor
  BY Zenon, <1>1, SiteInside
<1>3. a \in Int /\ k.cursor \in Int
  BY <1>1, <1>2, PlacesAssumption DEF Addresses, Typed
<1>4. a < k.cursor /\ (a + 1) - 1 = a
  BY <1>2, <1>3
<1>5. d.words[a] = OldWord(k, r, a)
  BY Zenon, <1>2, <1>4, CompiledOld
<1>6. d.words[a + 1] = OldWord(k, r, a + 1)
  BY Zenon, <1>2, CompiledOld
<1>7. a + 1 \notin k.pending[r]
  <2>1. a + 1 \in k.pending[r] => Site(g, k, a + 1, r)
    BY Zenon, <1>1 DEF Waiting
  <2> QED
    BY <1>1, <1>3, <2>1, SitesApart
<1>8. a - 1 \notin k.pending[r]
  <2>1. a - 1 \in k.pending[r] => Site(g, k, a - 1, r)
    BY Zenon, <1>1 DEF Waiting
  <2>2. a # a - 1 /\ a - 1 + 1 = a
    BY <1>3
  <2> QED
    BY Zenon, <1>1, <2>1, <2>2, SitesApart
<1>9. ASSUME a \in k.pending[r] PROVE q = r
  <2>1. Site(g, k, a, r)
    BY Zenon, <1>1, <1>9 DEF Waiting
  <2>2. PICK s \in Addresses, p \in Rips : \E i \in 1 .. Size(g, p) :
            Copy(g, k, s, p) /\ a = s + i - 1 /\ OpAt(g, p, i) = "link" /\ ArgAt(g, p, i) = q
    BY Zenon DEF Site
  <2> QED
    BY <1>1, <2>1, <2>2, SiteWords
<1> QED
  BY Zenon, <1>4, <1>5, <1>6, <1>7, <1>8, <1>9 DEF LinkedTo, LinkKept, OldWord

\* compile, with room for the block.
LEMMA CompiledInv ==
    ASSUME NEW g \in DOMAIN Guests, Roomy(g), NEW k, NEW d, NEW pr, NEW ve, CodeInv(g, k, pr, ve),
           Room(k),
           NEW r \in Rips, k.address[r] = 0, Compiled(g, k, d, ve, r)
    PROVE  CodeInv(g, d, pr \cup {PageOf[r]}, ve) /\ ~Stub(d, k.cursor)
<1>1. /\ Typed(k) /\ Placed(g, k) /\ Apart(g, k) /\ Bodies(g, k) /\ Links(g, k) /\ Heads(g, k, pr, ve)
      /\ Known(g, k) /\ Mapped(k) /\ Entries(g, k) /\ Waiting(g, k)
  BY Zenon DEF CodeInv
<1>2. /\ d.cursor = k.cursor + Size(g, r)
      /\ d.address = [k.address EXCEPT ![r] = k.cursor]
      /\ d.end = [k.end EXCEPT ![r] = k.cursor + Size(g, r)]
      /\ d.pending \in [Rips -> SUBSET Addresses]
      /\ d.hostMap = k.hostMap \cup {<<k.cursor + Size(g, r), r>>}
      /\ d.cache = Cached(k.cache, r, k.cursor)
      /\ d.pageMap = [k.pageMap EXCEPT ![PageOf[r]] = @ \cup {r}]
  BY Zenon DEF Compiled
<1>3. /\ k.cursor \in Addresses /\ Copy(g, d, k.cursor, r)
      /\ \A t \in Addresses, q \in Rips : Copy(g, k, t, q) => Copy(g, d, t, q)
  BY Zenon, <1>1, CompiledCopies
<1>4. \A t \in Addresses, q \in Rips :
          Copy(g, d, t, q) => Copy(g, k, t, q) \/ (t = k.cursor /\ q = r)
  BY Zenon, <1>1, CompiledCopies
<1>5. Size(g, r) \in Nat /\ 3 <= Size(g, r) /\ Size(g, r) <= Reserve
  BY Zenon, Sized DEF Roomy
<1>6. \A t \in Addresses, q \in Rips : Copy(g, k, t, q) => d.words[t] = k.words[t] /\
      d.words[t + 1] = k.words[t + 1]
  BY CompiledHeads
<1>7. \A t \in Addresses, q \in Rips : Copy(g, k, t, q) => (Stub(d, t) <=> Stub(k, t))
  BY Zenon, <1>6 DEF Stub
<1>8. d.address[r] = k.cursor /\ \A q \in Rips \ {r} : d.address[q] = k.address[q]
  BY Zenon, <1>1, <1>2 DEF Typed
<1>9. /\ d.words[k.cursor] = NewWord(g, d.address, ve, r, 1)
      /\ OpAt(g, r, 1) \in Body
  <2>1. 1 \in 1 .. Size(g, r) /\ k.cursor + 1 - 1 = k.cursor
    BY <1>3, <1>5, PlacesAssumption DEF Addresses
  <2>2. Emits(g, k, d, ve, r, 1)
    BY Zenon, <2>1, CompiledNew
  <2>3. Continues(g, r, 1)
    BY Zenon, GuestsAssumption
  <2>4. OpAt(g, r, 1) # "link"
    BY Zenon DEF Roomy
  <2> QED
    BY Zenon, <2>1, <2>2, <2>3, <2>4 DEF Continues, Emits
<1>10. d.words[k.cursor].op \in Body /\ d.words[k.cursor].ver = ve[PageOf[r]]
  BY <1>9 DEF NewWord, Word, Body
<1>11. ~Stub(d, k.cursor)
  BY <1>10 DEF Stub, Stub1, Plain, Word, Body
<1>12. PageOf[r] \in Pages
  BY Zenon, PlacesAssumption
<1>12a. /\ d.pageMap \in [Pages -> SUBSET Rips] /\ r \in d.pageMap[PageOf[r]]
        /\ \A x \in Pages : /\ k.pageMap[x] \subseteq d.pageMap[x]
                            /\ \A q \in d.pageMap[x] : q \in k.pageMap[x] \/ (q = r /\ x = PageOf[r])
  <2>1. k.pageMap \in [Pages -> SUBSET Rips]
    BY Zenon, <1>1 DEF Typed
  <2>2. d.pageMap = [k.pageMap EXCEPT ![PageOf[r]] = @ \cup {r}]
    BY Zenon, <1>2
  <2> QED
    BY <1>12, <2>1, <2>2, PagesGrow
<1>12b. d.cursor = k.cursor + Size(g, r) /\ k.cursor \in Addresses
  BY Zenon, <1>2, <1>3
<1>13. Typed(d)
  <2>1. d.words = [a \in Addresses |-> d.words[a]]
    <3>1. d.words = [a \in Addresses |-> CompiledWord(g, k, d.address, ve, r, a)]
      BY Zenon DEF Compiled
    <3> QED
      BY Zenon, <3>1
  <2>2. d.cursor \in 1 .. CacheWords + 1
    BY <1>5, <1>12b, PlacesAssumption DEF Room, Addresses
  <2>3. d.address \in [Rips -> 0 .. CacheWords]
    <3>1. k.address \in [Rips -> 0 .. CacheWords] /\ d.address = [k.address EXCEPT ![r] = k.cursor]
      BY Zenon, <1>1, <1>2 DEF Typed
    <3>2. k.cursor \in 0 .. CacheWords
      BY <1>12b, PlacesAssumption DEF Addresses
    <3> QED
      BY Zenon, <3>1, <3>2
  <2>4. d.end \in [Rips -> Nat]
    <3>1. k.end \in [Rips -> Nat] /\ d.end = [k.end EXCEPT ![r] = k.cursor + Size(g, r)]
      BY Zenon, <1>1, <1>2 DEF Typed
    <3>2. k.cursor + Size(g, r) \in Nat
      BY <1>5, <1>12b, PlacesAssumption DEF Addresses
    <3> QED
      BY Zenon, <3>1, <3>2
  <2>5. d.cache = [x \in {Slot[q] : q \in Rips} |-> d.cache[x]]
    BY Zenon, <1>1, <1>2 DEF Typed, Cached
  <2>6. d.pageMap \in [Pages -> SUBSET Rips]
    BY Zenon, <1>12a
  <2> QED
    BY Zenon, <1>2, <2>1, <2>2, <2>3, <2>4, <2>5, <2>6 DEF Typed
<1>14. Placed(g, d)
  <2>1. SUFFICES ASSUME NEW x \in d.hostMap
                 PROVE  \E s \in Addresses, q \in Rips : x = <<s + Size(g, q), q>> /\
                     s + Size(g, q) <= d.cursor
    BY Zenon DEF Placed
  <2>2. CASE x \in k.hostMap
    <3>1. PICK s \in Addresses, q \in Rips : x = <<s + Size(g, q), q>> /\ s + Size(g, q) <= k.cursor
      BY Zenon, <1>1, <2>2 DEF Placed
    <3>2. s + Size(g, q) <= d.cursor
      BY <1>5, <1>12b, <3>1, Sized, PlacesAssumption DEF Addresses
    <3> QED
      BY Zenon, <3>1, <3>2
  <2>3. CASE x \notin k.hostMap
    <3>1. x = <<k.cursor + Size(g, r), r>>
      BY Zenon, <1>2, <2>1, <2>3
    <3>2. k.cursor + Size(g, r) <= d.cursor
      BY <1>5, <1>12b, PlacesAssumption DEF Addresses
    <3> QED
      BY Zenon, <1>3, <3>1, <3>2
  <2> QED
    BY Zenon, <2>2, <2>3
<1>15. Apart(g, d)
  <2>1. ASSUME NEW t \in Addresses, NEW q \in Rips, Copy(g, k, t, q)
        PROVE  t + Size(g, q) <= k.cursor
    <3>1. 1 \in 1 .. Size(g, q)
      BY Sized
    <3> QED
      BY Zenon, <1>1, <2>1, <3>1, Inside
  <2>2. SUFFICES ASSUME NEW s \in Addresses, NEW t \in Addresses, NEW p \in Rips, NEW q \in Rips,
                        Copy(g, d, s, p), Copy(g, d, t, q)
                 PROVE  (s = t /\ p = q) \/ s + Size(g, p) <= t \/ t + Size(g, q) <= s
    BY Zenon DEF Apart
  <2>3. CASE Copy(g, k, s, p) /\ Copy(g, k, t, q)
    BY Zenon, <1>1, <2>3 DEF Apart
  <2>4. CASE ~Copy(g, k, s, p)
    BY Zenon, <1>4, <2>1, <2>2, <2>4
  <2>5. CASE ~Copy(g, k, t, q)
    BY Zenon, <1>4, <2>1, <2>2, <2>5
  <2> QED
    BY Zenon, <2>3, <2>4, <2>5
<1>16. Bodies(g, d)
  <2>1. SUFFICES ASSUME NEW s \in Addresses, NEW q \in Rips, Copy(g, d, s, q),
        NEW i \in 1 .. Size(g, q),
                        OpAt(g, q, i) \notin {"link", "pad"}
                 PROVE  Own(g, d, s, q, i) \/ (i <= 2 /\ Stub(d, s))
    BY Zenon DEF Bodies
  <2>2. CASE Copy(g, k, s, q)
    <3>1. Own(g, k, s, q, i) \/ (i <= 2 /\ Stub(k, s))
      BY Zenon, <1>1, <2>1, <2>2 DEF Bodies
    <3>2. Keeps(k, d, s, i)
      BY Zenon, <2>1, <2>2, CompiledBodies
    <3>3. Stub(k, s) => Stub(d, s)
      BY Zenon, <1>7, <2>2
    <3> QED
      BY Zenon, <3>1, <3>2, <3>3 DEF Own, Keeps
  <2>3. CASE ~Copy(g, k, s, q)
    <3>1. s = k.cursor /\ q = r
      BY Zenon, <1>4, <2>1, <2>3
    <3>2. Emits(g, k, d, ve, r, i)
      BY Zenon, <2>1, <3>1, CompiledNew
    <3>3. NewWord(g, d.address, ve, r, i) = Word(OpAt(g, r, i), ArgAt(g, r, i), r, i, ve[PageOf[r]])
      BY Zenon, <2>1, <3>1 DEF NewWord
    <3> QED
      BY <3>1, <3>2, <3>3 DEF Own, Word, Emits
  <2> QED
    BY Zenon, <2>2, <2>3
<1>17. \A a, q : Site(g, k, a, q) => Site(g, d, a, q)
  BY Zenon, <1>3 DEF Site
<1>18. ASSUME NEW q \in Rips, d.address[q] # 0 PROVE d.address[q] \in Addresses /\
         Copy(g, d, d.address[q], q)
  <2>1. CASE q = r
    BY Zenon, <1>3, <1>8, <2>1
  <2>2. CASE q # r
    <3>1. d.address[q] = k.address[q]
      BY Zenon, <1>8, <2>2
    <3>2. k.address[q] \in Addresses /\ Copy(g, k, k.address[q], q)
      BY Zenon, <1>1, <1>18, <3>1, AddressKnown
    <3> QED
      BY Zenon, <1>3, <3>1, <3>2
  <2> QED
    BY Zenon, <2>1, <2>2
<1>19. ASSUME NEW i \in 1 .. Size(g, r), OpAt(g, r, i) = "link"
       PROVE  /\ d.address[ArgAt(g, r, i)] = 0 => Unlinked(d, k.cursor + i - 1)
              /\ d.address[ArgAt(g, r, i)] # 0 =>
                 LinkedTo(d, k.cursor + i - 1, d.address[ArgAt(g, r, i)])
  <2>1. i + 1 \in 1 .. Size(g, r) /\ OpAt(g, r, i + 1) = "pad" /\ ArgAt(g, r, i + 1) = ArgAt(g, r, i)
    BY Zenon, <1>19, LinkShape
  <2>2. Emits(g, k, d, ve, r, i)
    BY Zenon, CompiledNew
  <2>3. Emits(g, k, d, ve, r, i + 1)
    BY Zenon, <2>1, CompiledNew
  <2>4. k.cursor + (i + 1) - 1 = k.cursor + i - 1 + 1
    BY <1>3, <1>5, PlacesAssumption DEF Addresses
  <2> QED
    BY Zenon, <1>19, <2>1, <2>2, <2>3, <2>4 DEF NewWord, Unlinked, LinkedTo, Emits
<1>20. Links(g, d)
  <2>1. SUFFICES ASSUME NEW s \in Addresses, NEW q \in Rips, Copy(g, d, s, q),
        NEW i \in 1 .. Size(g, q),
                        OpAt(g, q, i) = "link"
                 PROVE  \/ Unlinked(d, s + i - 1)
                        \/ \E h \in Addresses : Copy(g, d, h, ArgAt(g, q, i)) /\
                            LinkedTo(d, s + i - 1, h)
    BY Zenon DEF Links
  <2>2. CASE Copy(g, k, s, q)
    <3>1. Site(g, k, s + i - 1, ArgAt(g, q, i))
      BY Zenon, <2>1, <2>2 DEF Site
    <3>2. LinkKept(k, d, r, s + i - 1, ArgAt(g, q, i))
      BY Zenon, <3>1, CompiledLinks
    <3>3. CASE s + i - 1 \in k.pending[r]
      <4>1. ArgAt(g, q, i) = r /\ LinkedTo(d, s + i - 1, k.cursor)
        BY Zenon, <3>2, <3>3 DEF LinkKept
      <4> QED
        BY Zenon, <1>3, <4>1
    <3>4. CASE s + i - 1 \notin k.pending[r]
      <4>1. d.words[s + i - 1] = k.words[s + i - 1] /\ d.words[s + i - 1 + 1] = k.words[s + i - 1 + 1]
        BY Zenon, <3>2, <3>4 DEF LinkKept
      <4>2. \/ Unlinked(k, s + i - 1)
            \/ \E h \in Addresses : Copy(g, k, h, ArgAt(g, q, i)) /\ LinkedTo(k, s + i - 1, h)
        BY Zenon, <1>1, <2>1, <2>2 DEF Links
      <4>3. ArgAt(g, q, i) \in Rips
        BY Zenon, <2>1, LinkShape
      <4> QED
        BY Zenon, <1>3, <4>1, <4>2, <4>3 DEF Unlinked, LinkedTo
    <3> QED
      BY Zenon, <3>3, <3>4
  <2>3. CASE ~Copy(g, k, s, q)
    <3>1. s = k.cursor /\ q = r
      BY Zenon, <1>4, <2>1, <2>3
    <3>2. ArgAt(g, r, i) \in Rips
      BY Zenon, <2>1, <3>1, LinkShape
    <3> QED
      BY Zenon, <1>18, <1>19, <2>1, <3>1, <3>2
  <2> QED
    BY Zenon, <2>2, <2>3
<1>21. Heads(g, d, pr \cup {PageOf[r]}, ve)
  <2>1. SUFFICES ASSUME NEW s \in Addresses, NEW q \in Rips, Copy(g, d, s, q), ~Stub(d, s)
                 PROVE  Fresh(d, pr \cup {PageOf[r]}, ve, s, q)
    BY Zenon DEF Heads
  <2>2. CASE Copy(g, k, s, q)
    <3>1. Fresh(k, pr, ve, s, q)
      BY Zenon, <1>1, <1>7, <2>1, <2>2 DEF Heads
    <3>2. q # r
      BY <3>1, <1>3, PlacesAssumption DEF Fresh, Addresses
    <3>3. d.words[s] = k.words[s]
      BY Zenon, <1>6, <2>2
    <3>4. PageOf[q] \in Pages
      BY Zenon, PlacesAssumption
    <3>5. k.pageMap[PageOf[q]] \subseteq d.pageMap[PageOf[q]]
      BY Zenon, <1>12a, <3>4
    <3> QED
      BY Zenon, <1>8, <3>1, <3>2, <3>3, <3>5 DEF Fresh
  <2>3. CASE ~Copy(g, k, s, q)
    <3>1. s = k.cursor /\ q = r
      BY Zenon, <1>4, <2>1, <2>3
    <3>2. r \in d.pageMap[PageOf[r]]
      BY Zenon, <1>12a
    <3> QED
      BY Zenon, <1>8, <1>10, <3>1, <3>2 DEF Fresh
  <2> QED
    BY Zenon, <2>2, <2>3
<1>22. Known(g, d)
  <2>1. SUFFICES ASSUME NEW q \in Rips, d.address[q] # 0 PROVE d.end[q] = d.address[q] + Size(g, q)
    BY Zenon, <1>18 DEF Known
  <2>2. CASE q = r
    BY Zenon, <1>1, <1>2, <1>8, <2>2 DEF Typed
  <2>3. CASE q # r
    <3>1. d.end[q] = k.end[q] /\ d.address[q] = k.address[q]
      BY Zenon, <1>1, <1>2, <1>8, <2>3 DEF Typed
    <3> QED
      BY Zenon, <1>1, <2>1, <3>1 DEF Known
  <2> QED
    BY Zenon, <2>2, <2>3
<1>23. Mapped(d)
  <2>1. SUFFICES ASSUME NEW p \in Pages, NEW q \in d.pageMap[p]
                 PROVE  p = PageOf[q] /\ d.address[q] # 0 /\ ~Stub(d, d.address[q])
    BY Zenon DEF Mapped
  <2>2. CASE q \in k.pageMap[p]
    <3>1. p = PageOf[q] /\ k.address[q] # 0 /\ ~Stub(k, k.address[q])
      BY Zenon, <1>1, <2>2 DEF Mapped
    <3>2. q \in Rips
      BY Zenon, <1>1, <2>2 DEF Typed
    <3>3. q # r
      BY Zenon, <3>1
    <3>4. k.address[q] \in Addresses /\ Copy(g, k, k.address[q], q)
      BY Zenon, <1>1, <3>1, <3>2, AddressKnown
    <3>5. d.address[q] = k.address[q]
      BY Zenon, <1>8, <3>2, <3>3
    <3>6. ~Stub(d, k.address[q])
      BY Zenon, <1>7, <3>1, <3>2, <3>4
    <3> QED
      BY Zenon, <3>1, <3>5, <3>6
  <2>3. CASE q \notin k.pageMap[p]
    <3>1. q = r /\ p = PageOf[r]
      BY Zenon, <1>12a, <2>1, <2>3
    <3>2. k.cursor # 0
      BY <1>3, PlacesAssumption DEF Addresses
    <3> QED
      BY Zenon, <1>8, <1>11, <3>1, <3>2
  <2> QED
    BY Zenon, <2>2, <2>3
<1>24. Entries(g, d)
  <2>1. SUFFICES ASSUME NEW q \in Rips, d.cache[Slot[q]].guest = q
                 PROVE  d.cache[Slot[q]].host \in Addresses /\ Copy(g, d, d.cache[Slot[q]].host, q)
    BY Zenon DEF Entries
  <2>2. k.cache = [x \in {Slot[p] : p \in Rips} |-> k.cache[x]]
    BY Zenon, <1>1 DEF Typed
  <2>3. d.cache = [k.cache EXCEPT ![Slot[r]] = [guest |-> r, host |-> k.cursor]]
    BY Zenon, <1>2 DEF Cached
  <2>4. CASE Slot[q] = Slot[r]
    <3>1. d.cache[Slot[q]] = [guest |-> r, host |-> k.cursor]
      BY Zenon, <2>2, <2>3, <2>4
    <3>2. q = r /\ d.cache[Slot[q]].host = k.cursor
      BY <2>1, <3>1
    <3> QED
      BY Zenon, <1>3, <3>2
  <2>5. CASE Slot[q] # Slot[r]
    <3>1. d.cache[Slot[q]] = k.cache[Slot[q]]
      BY Zenon, <2>2, <2>3, <2>5
    <3> QED
      BY Zenon, <1>1, <1>3, <2>1, <3>1 DEF Entries
  <2> QED
    BY Zenon, <2>4, <2>5
<1>25. Waiting(g, d)
  <2>1. SUFFICES ASSUME NEW q \in Rips, NEW b \in d.pending[q] PROVE Site(g, d, b, q) /\ Unlinked(d, b)
    BY Zenon DEF Waiting
  <2>2. q # r /\ (b \in k.pending[q] \/ NewSite(g, k, d.address, r, b, q))
    BY Zenon DEF Compiled
  <2>3. CASE b \in k.pending[q]
    <3>1. Site(g, k, b, q) /\ Unlinked(k, b)
      BY Zenon, <1>1, <2>3 DEF Waiting
    <3>2. LinkKept(k, d, r, b, q)
      BY Zenon, <3>1, CompiledLinks
    <3>3. d.words[b] = k.words[b] /\ d.words[b + 1] = k.words[b + 1]
      BY Zenon, <2>2, <3>2 DEF LinkKept
    <3> QED
      BY Zenon, <1>17, <3>1, <3>3 DEF Unlinked
  <2>4. CASE NewSite(g, k, d.address, r, b, q)
    <3>1. PICK i \in 1 .. Size(g, r) : /\ OpAt(g, r, i) = "link" /\ ArgAt(g, r, i) = q
                                       /\ b = k.cursor + i - 1 /\ d.address[q] = 0
      BY Zenon, <2>4 DEF NewSite
    <3>2. Unlinked(d, b)
      BY Zenon, <1>19, <3>1
    <3>3. Site(g, d, b, q)
      BY Zenon, <1>3, <3>1 DEF Site
    <3> QED
      BY Zenon, <3>2, <3>3
  <2> QED
    BY Zenon, <2>2, <2>3, <2>4
<1> QED
  BY Zenon, <1>11, <1>13, <1>14, <1>15, <1>16, <1>20, <1>21, <1>22, <1>23, <1>24, <1>25 DEF CodeInv

-----------------------------------------------------------------------------
(* The state at the start, and after clearCodeCache.                       *)

\* A cache without copies.
Bare(k) ==
    /\ k.words = [a \in Addresses |-> Empty]
    /\ k.cursor = 1
    /\ k.address = [r \in Rips |-> 0]
    /\ k.end = [r \in Rips |-> 0]
    /\ k.pending = [r \in Rips |-> {}]
    /\ k.hostMap = {}
    /\ k.cache = [x \in {Slot[r] : r \in Rips} |-> NoEntry]
    /\ k.pageMap = [p \in Pages |-> {}]

\* Nothing is wrong in a cache without copies.
LEMMA BareInv ==
    ASSUME NEW g \in DOMAIN Guests, NEW k, NEW pr, NEW ve, Bare(k)
    PROVE  CodeInv(g, k, pr, ve)
<1>1. \A s, r : ~Copy(g, k, s, r)
  BY Zenon DEF Bare, Copy
<1>2. Typed(k)
  <2>1. k.words = [a \in Addresses |-> k.words[a]]
    BY Zenon DEF Bare
  <2>2. k.cache = [x \in {Slot[r] : r \in Rips} |-> k.cache[x]]
    BY Zenon DEF Bare
  <2>3. k.cursor \in 1 .. CacheWords + 1
    BY PlacesAssumption DEF Bare
  <2>4. k.address \in [Rips -> 0 .. CacheWords]
    BY PlacesAssumption DEF Bare
  <2>5. k.end \in [Rips -> Nat]
    BY DEF Bare
  <2>6. k.pending \in [Rips -> SUBSET Addresses]
    BY Zenon DEF Bare
  <2>7. k.pageMap \in [Pages -> SUBSET Rips]
    BY Zenon DEF Bare
  <2> QED
    BY Zenon, <2>1, <2>2, <2>3, <2>4, <2>5, <2>6, <2>7 DEF Typed
<1>3. Placed(g, k)
  BY Zenon DEF Bare, Placed
<1>4. Apart(g, k) /\ Bodies(g, k) /\ Links(g, k) /\ Heads(g, k, pr, ve)
  BY Zenon, <1>1 DEF Apart, Bodies, Links, Heads
<1>5. Known(g, k)
  BY Zenon DEF Bare, Known
<1>6. Mapped(k)
  BY Zenon DEF Bare, Mapped
<1>7. Entries(g, k)
  <2>1. \A r \in Rips : k.cache[Slot[r]] = NoEntry
    BY DEF Bare
  <2> QED
    BY <2>1, PlacesAssumption DEF Entries, NoEntry
<1>8. Waiting(g, k)
  BY Zenon DEF Bare, Waiting
<1> QED
  BY Zenon, <1>2, <1>3, <1>4, <1>5, <1>6, <1>7, <1>8 DEF CodeInv

\* The fields of Current are the variables.
LEMMA CurrentIs ==
    /\ Current.words = words /\ Current.cursor = cursor /\ Current.address = address /\
       Current.end = end
    /\ Current.pending = pending /\ Current.hostMap = hostMap /\ Current.cache = cache
    /\ Current.pageMap = pageMap
  BY Zenon DEF Current

\* The same in the next state.
LEMMA CurrentNext ==
    /\ (Current').words = words' /\ (Current').cursor = cursor' /\ (Current').address = address'
    /\ (Current').end = end' /\ (Current').pending = pending' /\ (Current').hostMap = hostMap'
    /\ (Current').cache = cache' /\ (Current').pageMap = pageMap'
  BY Zenon DEF Current

\* The thread starts in the dispatcher with an empty cache.
LEMMA Start == Init => LinksInv
<1> SUFFICES ASSUME Init PROVE LinksInv
  BY Zenon
<1>1. guest \in DOMAIN Guests /\ prot = {} /\ ver = [p \in Pages |-> 0] /\ mode = "dispatch" /\
      rip \in Rips /\ t4 = FALSE
  BY Zenon DEF Init
<1>2. Bare(Current)
  BY Zenon, CurrentIs DEF Init, Bare
<1>3. CodeInv(guest, Current, prot, ver)
  BY Zenon, <1>1, <1>2, BareInv
<1>4. ver \in [Pages -> Versions]
  BY Zenon, <1>1 DEF Versions
<1>5. Running(guest, Current) /\ Leaving(guest, Current) /\ Registers(guest)
  BY Zenon, <1>1 DEF Running, Leaving, Registers
<1> QED
  BY Zenon, <1>1, <1>3, <1>4, <1>5 DEF LinksInv

-----------------------------------------------------------------------------
(* Where the thread runs.                                                  *)

\* What word i of the copy of r at s may be.
Holds(g, k, s, r, i) ==
    \/ /\ OpAt(g, r, i) \in Body \cup {"back1", "back2"}
       /\ Own(g, k, s, r, i)
    \/ i = 1 /\ Stub(k, s) /\ k.words[s + i - 1] = Stub1
    \/ i = 2 /\ Stub(k, s) /\ k.words[s + i - 1] = Stub2
    \/ /\ OpAt(g, r, i) = "link"
       /\ k.words[s + i - 1] \in {Back1, Nop}
    \/ /\ OpAt(g, r, i) = "pad"
       /\ \/ k.words[s + i - 1] = Back2
          \/ \E h \in Addresses : /\ Copy(g, k, h, ArgAt(g, r, i))
                                  /\ k.words[s + i - 1] = Jal(h) /\ k.words[s + i - 1 - 1] = Nop

\* Every word of a copy is one of these.
LEMMA Fetched ==
    ASSUME NEW g \in DOMAIN Guests, Roomy(g), NEW k, NEW pr, NEW ve, CodeInv(g, k, pr, ve),
           NEW s \in Addresses, NEW r \in Rips, Copy(g, k, s, r), NEW i \in 1 .. Size(g, r)
    PROVE  Holds(g, k, s, r, i)
<1>1. Shaped(g, r, i)
  BY Zenon, GuestsAssumption
<1>2. OpAt(g, r, i) \in Body \cup {"link", "pad", "back1", "back2"}
  BY Zenon, <1>1 DEF Shaped
<1>3. Bodies(g, k) /\ Links(g, k)
  BY Zenon DEF CodeInv
<1>4. i \in Nat /\ i >= 1 /\ s \in Nat
  BY Sized, PlacesAssumption DEF Addresses
<1>5. CASE OpAt(g, r, i) \notin {"link", "pad"}
  <2>1. Own(g, k, s, r, i) \/ (i <= 2 /\ Stub(k, s))
    BY Zenon, <1>3, <1>5 DEF Bodies
  <2>2. CASE Own(g, k, s, r, i)
    BY Zenon, <1>2, <1>5, <2>2 DEF Holds
  <2>3. CASE i <= 2 /\ Stub(k, s)
    <3>1. i = 1 \/ i = 2
      BY <1>4, <2>3
    <3>2. i = 1 => k.words[s + i - 1] = Stub1
      BY <1>4, <2>3 DEF Stub
    <3>3. i = 2 => k.words[s + i - 1] = Stub2
      BY <1>4, <2>3 DEF Stub
    <3> QED
      BY Zenon, <2>3, <3>1, <3>2, <3>3 DEF Holds
  <2> QED
    BY Zenon, <2>1, <2>2, <2>3
<1>6. CASE OpAt(g, r, i) = "link"
  <2>1. \/ Unlinked(k, s + i - 1)
        \/ \E h \in Addresses : Copy(g, k, h, ArgAt(g, r, i)) /\ LinkedTo(k, s + i - 1, h)
    BY Zenon, <1>3, <1>6 DEF Links
  <2> QED
    BY Zenon, <1>6, <2>1 DEF Holds, Unlinked, LinkedTo
<1>7. CASE OpAt(g, r, i) = "pad"
  <2>1. i - 1 \in 1 .. Size(g, r) /\ OpAt(g, r, i - 1) = "link" /\ ArgAt(g, r, i - 1) = ArgAt(g, r, i)
    BY Zenon, <1>7, PadShape
  <2>2. \/ Unlinked(k, s + (i - 1) - 1)
        \/ \E h \in Addresses : Copy(g, k, h, ArgAt(g, r, i)) /\ LinkedTo(k, s + (i - 1) - 1, h)
    BY Zenon, <1>3, <2>1 DEF Links
  <2>3. s + (i - 1) - 1 = s + i - 1 - 1 /\ s + (i - 1) - 1 + 1 = s + i - 1
    BY <1>4
  <2> QED
    BY Zenon, <1>7, <2>2, <2>3 DEF Holds, Unlinked, LinkedTo
<1> QED
  BY Zenon, <1>5, <1>6, <1>7

\* A step that changes registers only.
LEMMA RegistersOnly ==
    ASSUME LinksInv, UNCHANGED <<codeVars, guestVars>>,
           Running(guest, Current)', Leaving(guest, Current)', Registers(guest)'
    PROVE  LinksInv'
<1>1. Current' = Current
  BY Zenon DEF Current, codeVars
<1>2. guest' = guest /\ prot' = prot /\ ver' = ver
  BY Zenon DEF guestVars
<1>3. CodeInv(guest, Current, prot, ver)'
  BY Zenon, <1>1, <1>2 DEF LinksInv
<1> QED
  BY Zenon, <1>2, <1>3 DEF LinksInv

\* The rip register names the block when its first word is run.
LEMMA AtEntry ==
    ASSUME NEW g \in DOMAIN Guests, Roomy(g), NEW r \in Rips
    PROVE  /\ 1 \in 1 .. Size(g, r) /\ 2 \in 1 .. Size(g, r)
           /\ OpAt(g, r, 1) \in Body /\ RipAt(g, r, 1, r) /\ RipAt(g, r, 2, r)
<1>1. 1 \in 1 .. Size(g, r) /\ 2 \in 1 .. Size(g, r)
  BY Sized
<1>2. Continues(g, r, 1)
  BY Zenon, GuestsAssumption
<1>3. OpAt(g, r, 1) \notin {"link", "pad"} /\ OpAt(g, r, 2) \notin {"link", "pad"}
  BY Zenon DEF Roomy
<1> QED
  BY Zenon, <1>1, <1>2, <1>3 DEF Continues, RipAt

\* What the words of links and stubs do.
LEMMA Ops ==
    /\ Stub1.op = "stub1" /\ Stub2.op = "stub2" /\ Back1.op = "back1" /\ Back2.op = "back2" /\
       Nop.op = "nop"
    /\ \A h : Jal(h).op = "jal" /\ Jal(h).arg = h
  BY Zenon DEF Stub1, Stub2, Back1, Back2, Nop, Jal, Plain, Word

\* An instruction of the block is run in place of a link or a stub.
LEMMA OwnWord ==
    ASSUME NEW g, NEW k, NEW s, NEW r, NEW i, Holds(g, k, s, r, i), k.words[s + i - 1].op \in Body
    PROVE  OpAt(g, r, i) = k.words[s + i - 1].op /\ Own(g, k, s, r, i)
<1>1. ~(k.words[s + i - 1] \in {Stub1, Stub2, Back1, Back2, Nop})
  BY DEF Body, Stub1, Stub2, Back1, Back2, Nop, Plain, Word
<1>2. \A h : k.words[s + i - 1] # Jal(h)
  BY DEF Body, Jal, Plain, Word
<1>3. Own(g, k, s, r, i)
  BY Zenon, <1>1, <1>2 DEF Holds
<1> QED
  BY Zenon, <1>3 DEF Own

\* A copy whose first word is an instruction has no stub.
LEMMA NoStub ==
    ASSUME NEW k, NEW s \in Addresses, NEW i, i = 1, k.words[s + i - 1].op \in Body \cup {"back1"}
    PROVE  ~Stub(k, s)
<1>1. s + i - 1 = s
  BY PlacesAssumption DEF Addresses
<1> QED
  BY <1>1 DEF Stub, Stub1, Plain, Word, Body

\* The rip register stays at the block from an instruction to the next.
LEMMA Continued ==
    ASSUME NEW g, NEW r \in Rips, NEW j, Continues(g, r, j)
    PROVE  j \in 1 .. Size(g, r) /\ RipAt(g, r, j, r)
  BY Zenon DEF Continues, RipAt, Body

\* The thread gets to word j of the copy it is in, past the first.
LEMMA MovesOn ==
    ASSUME Roomy(guest), LinksInv, mode = "jit", mode' = mode, UNCHANGED codeVars, guest' = guest,
           t4' = FALSE, NEW s \in Addresses, NEW r \in Rips, Copy(guest, Current, s, r),
           NEW j \in 1 .. Size(guest, r), j > 1, j = 2 => ~Stub(Current, s),
           pc' = s + j - 1, RipAt(guest, r, j, rip')
    PROVE  Running(guest, Current)' /\ Leaving(guest, Current)' /\ Registers(guest)'
<1>1. Current' = Current
  BY Zenon DEF Current, codeVars
<1>2. j # 1
  BY Sized DEF LinksInv
<1>3. Runs(guest, Current, s, r, j)'
  BY Zenon, <1>1, <1>2 DEF Runs
<1>4. Running(guest, Current)'
  BY Zenon, <1>3 DEF Running
<1>5. Leaving(guest, Current)'
  BY Zenon DEF Leaving
<1>6. Registers(guest)'
  BY Zenon DEF Registers, RipAt
<1> QED
  BY Zenon, <1>4, <1>5, <1>6

\* The thread is at word i of the copy of r at s.
Spot(s, r, i) ==
    /\ Runs(guest, Current, s, r, i) /\ Holds(guest, Current, s, r, i) /\ Copy(guest, Current, s, r)
    /\ pc = s + i - 1 /\ words[pc] = Current.words[s + i - 1] /\ RipAt(guest, r, i, rip)

\* Where the thread is, and what it finds there.
LEMMA Here ==
    ASSUME Roomy(guest), LinksInv, mode = "jit"
    PROVE  \E s \in Addresses, r \in Rips : \E i \in 1 .. Size(guest, r) : Spot(s, r, i)
<1>1. PICK s \in Addresses, r \in Rips : \E i \in 1 .. Size(guest, r) : Runs(guest, Current, s, r, i)
  BY Zenon DEF LinksInv, Running
<1>2. PICK i \in 1 .. Size(guest, r) : Runs(guest, Current, s, r, i)
  BY Zenon, <1>1
<1>3. Copy(guest, Current, s, r) /\ pc = s + i - 1 /\ RipAt(guest, r, i, rip)
  BY Zenon, <1>2 DEF Runs
<1>4. guest \in DOMAIN Guests /\ CodeInv(guest, Current, prot, ver)
  BY Zenon DEF LinksInv
<1>5. Holds(guest, Current, s, r, i)
  BY Zenon, <1>3, <1>4, Fetched
<1>6. words[pc] = Current.words[s + i - 1]
  BY Zenon, <1>3, CurrentIs
<1> QED
  BY Zenon, <1>2, <1>3, <1>5, <1>6 DEF Spot

\* Running a word of the block after which the next one is run.
LEMMA StepInv ==
    ASSUME Roomy(guest), LinksInv, Step
    PROVE  LinksInv'
<1>1. /\ mode = "jit" /\ mode' = mode /\ rip' = rip /\ t4' = FALSE /\ pc' = pc + 1
      /\ words[pc].op \in {"op", "nop", "back1"}
  BY Zenon DEF Step, At
<1>2. UNCHANGED <<codeVars, guestVars>> /\ UNCHANGED codeVars /\ guest' = guest /\
        guest \in DOMAIN Guests
  BY Zenon DEF Step, LinksInv, guestVars
<1>3. PICK s \in Addresses, r \in Rips : \E i \in 1 .. Size(guest, r) : Spot(s, r, i)
  BY Zenon, <1>1, Here
<1>4. PICK i \in 1 .. Size(guest, r) : Spot(s, r, i)
  BY Zenon, <1>3
<1>4a. /\ Holds(guest, Current, s, r, i) /\ Copy(guest, Current, s, r) /\ pc = s + i - 1
       /\ words[pc] = Current.words[s + i - 1] /\ RipAt(guest, r, i, rip)
  BY Zenon, <1>4 DEF Spot
<1>5. Shaped(guest, r, i)
  BY Zenon, <1>2, GuestsAssumption
<1>6. s \in Nat /\ i \in Nat /\ i >= 1 /\ pc' = s + (i + 1) - 1
  BY <1>1, <1>2, <1>4a, Sized, PlacesAssumption DEF Addresses
<1>7. /\ i + 1 \in 1 .. Size(guest, r) /\ RipAt(guest, r, i + 1, rip)
      /\ i + 1 = 2 => ~Stub(Current, s)
  <2>1. CASE words[pc].op = "op"
    <3>1. OpAt(guest, r, i) = "op"
      BY <1>4a, <2>1, OwnWord DEF Body
    <3>2. Continues(guest, r, i + 1) /\ rip = r
      BY Zenon, <1>4a, <1>5, <3>1 DEF Shaped, RipAt, Body
    <3>3. i = 1 => ~Stub(Current, s)
      BY Zenon, <1>4a, <2>1, NoStub DEF Body
    <3> QED
      BY <1>6, <3>2, <3>3, Continued
  <2>2. CASE OpAt(guest, r, i) = "link"
    <3>1. /\ i >= 3 /\ i + 1 \in 1 .. Size(guest, r)
          /\ OpAt(guest, r, i + 1) = "pad" /\ ArgAt(guest, r, i + 1) = ArgAt(guest, r, i)
      BY Zenon, <1>2, <2>2, LinkShape
    <3> QED
      BY <1>4a, <1>6, <2>2, <3>1 DEF RipAt, Body
  <2>3. CASE OpAt(guest, r, i) = "back1"
    <3>1. OpAt(guest, r, i + 1) = "back2" /\ i < Size(guest, r)
      BY Zenon, <1>5, <2>3 DEF Shaped
    <3>2. i + 1 \in 1 .. Size(guest, r)
      BY <1>2, <1>6, <3>1, Sized
    <3>3. RipAt(guest, r, i + 1, rip)
      BY Zenon, <1>4a, <3>1 DEF RipAt, Body
    <3>4. i # 1
      <4>1. OpAt(guest, r, 1) \in Body
        BY Zenon, <1>2, AtEntry
      <4> QED
        BY Zenon, <2>3, <4>1 DEF Body
    <3> QED
      BY <1>6, <3>2, <3>3, <3>4
  <2>4. words[pc].op \in {"nop", "back1"} => OpAt(guest, r, i) \in {"link", "back1"}
    <3> SUFFICES ASSUME Current.words[s + i - 1].op \in {"nop", "back1"},
                        OpAt(guest, r, i) \notin {"link", "back1"}
                 PROVE  FALSE
      BY Zenon, <1>4a
    <3>1. \A h : Current.words[s + i - 1] # Jal(h)
      BY Zenon, Ops
    <3>2. ~(Current.words[s + i - 1] \in {Stub1, Stub2, Back2})
      BY Zenon, Ops
    <3>3. OpAt(guest, r, i) \in Body \cup {"back2"} /\ Own(guest, Current, s, r, i)
      BY Zenon, <1>4a, <3>1, <3>2 DEF Holds
    <3> QED
      BY Zenon, <3>3 DEF Own, Body
  <2> QED
    BY Zenon, <1>1, <2>1, <2>2, <2>3, <2>4
<1>8. Running(guest, Current)' /\ Leaving(guest, Current)' /\ Registers(guest)'
  <2>1. i + 1 > 1 /\ Copy(guest, Current, s, r) /\ RipAt(guest, r, i + 1, rip')
    BY <1>1, <1>4a, <1>6, <1>7
  <2> QED
    BY Zenon, <1>1, <1>2, <1>6, <1>7, <2>1, MovesOn
<1> QED
  BY Zenon, <1>2, <1>8, RegistersOnly

\* Word i of the copy of r at s is an instruction of the block, and about to be run.
Instruction(s, r, i) ==
    /\ Runs(guest, Current, s, r, i) /\ Copy(guest, Current, s, r) /\ pc = s + i - 1
    /\ OpAt(guest, r, i) = words[pc].op /\ ArgAt(guest, r, i) = words[pc].arg /\ words[pc].of = r
    /\ rip = r /\ Shaped(guest, r, i)
    /\ i = 1 => ~Stub(Current, s)

\* An instruction is run in the block it was emitted for.
LEMMA AtInstruction ==
    ASSUME Roomy(guest), LinksInv, mode = "jit", words[pc].op \in Body
    PROVE  \E s \in Addresses, r \in Rips : \E i \in 1 .. Size(guest, r) : Instruction(s, r, i)
<1>1. PICK s \in Addresses, r \in Rips : \E i \in 1 .. Size(guest, r) : Spot(s, r, i)
  BY Zenon, Here
<1>2. PICK i \in 1 .. Size(guest, r) : Spot(s, r, i)
  BY Zenon, <1>1
<1>3. /\ Holds(guest, Current, s, r, i) /\ Copy(guest, Current, s, r) /\ pc = s + i - 1
      /\ words[pc] = Current.words[s + i - 1] /\ RipAt(guest, r, i, rip) /\
         Runs(guest, Current, s, r, i)
  BY Zenon, <1>2 DEF Spot
<1>4. Current.words[s + i - 1].op \in Body
  BY Zenon, <1>3
<1>5. OpAt(guest, r, i) = words[pc].op /\ Own(guest, Current, s, r, i)
  BY <1>3, <1>4, OwnWord
<1>6. ArgAt(guest, r, i) = words[pc].arg /\ words[pc].of = r
  BY Zenon, <1>3, <1>5 DEF Own
<1>7. rip = r
  BY Zenon, <1>3, <1>5 DEF RipAt
<1>8. Shaped(guest, r, i)
  BY Zenon, GuestsAssumption DEF LinksInv
<1>9. i = 1 => ~Stub(Current, s)
  BY Zenon, <1>4, NoStub
<1> QED
  BY Zenon, <1>3, <1>5, <1>6, <1>7, <1>8, <1>9 DEF Instruction

\* From an instruction the thread gets to word i + 1 + n of the same copy.
LEMMA RunsOn ==
    ASSUME Roomy(guest), LinksInv, mode = "jit", mode' = mode, UNCHANGED codeVars, guest' = guest,
           t4' = FALSE, NEW s \in Addresses, NEW r \in Rips, NEW i \in 1 .. Size(guest, r),
           Instruction(s, r, i), NEW n \in Nat, pc' = pc + 1 + n,
           i + 1 + n \in 1 .. Size(guest, r), RipAt(guest, r, i + 1 + n, rip')
    PROVE  Running(guest, Current)' /\ Leaving(guest, Current)' /\ Registers(guest)'
<1>1. Copy(guest, Current, s, r) /\ pc = s + i - 1 /\ (i = 1 => ~Stub(Current, s))
  BY Zenon DEF Instruction
<1>2. s \in Nat /\ i \in Nat /\ i >= 1
  BY Sized, PlacesAssumption DEF Addresses, LinksInv
<1> DEFINE j == i + 1 + n
<1>3. j > 1 /\ (j = 2 => ~Stub(Current, s)) /\ pc' = s + j - 1
  BY <1>1, <1>2
<1>4. j \in 1 .. Size(guest, r) /\ RipAt(guest, r, j, rip')
  BY Zenon
<1> HIDE DEF j
<1> QED
  BY Zenon, <1>1, <1>3, <1>4, MovesOn

\* The update of the rip register comes right before a link.
LEMMA AddRipInv ==
    ASSUME Roomy(guest), LinksInv, AddRip
    PROVE  LinksInv'
<1>1. mode = "jit" /\ mode' = mode /\ t4' = FALSE /\ pc' = pc + 1 /\ words[pc].op = "addi"
  BY Zenon DEF AddRip, At
<1>2. UNCHANGED <<codeVars, guestVars>> /\ UNCHANGED codeVars /\ guest' = guest /\
        guest \in DOMAIN Guests
  BY Zenon DEF AddRip, LinksInv, guestVars
<1>3. PICK s \in Addresses, r \in Rips : \E i \in 1 .. Size(guest, r) : Instruction(s, r, i)
  BY Zenon, <1>1, AtInstruction DEF Body
<1>4. PICK i \in 1 .. Size(guest, r) : Instruction(s, r, i)
  BY Zenon, <1>3
<1>5. rip' = ArgAt(guest, r, i)
  BY Zenon, <1>4 DEF Instruction, AddRip
<1>6. i < Size(guest, r) /\ Guests[guest].prog[r][i + 1] = <<"link", ArgAt(guest, r, i)>>
  BY Zenon, <1>1, <1>4 DEF Instruction, Shaped
<1>7. OpAt(guest, r, i + 1) = "link" /\ ArgAt(guest, r, i + 1) = ArgAt(guest, r, i)
  BY <1>6 DEF OpAt, ArgAt
<1>8. i + 1 \in 1 .. Size(guest, r)
  BY <1>2, <1>6, Sized
<1>9. rip' \in Rips
  BY Zenon, <1>2, <1>5, <1>7, <1>8, LinkShape
<1>10. RipAt(guest, r, i + 1, rip')
  BY Zenon, <1>5, <1>7, <1>9 DEF RipAt, Body
<1>11. i + 1 + 0 = i + 1 /\ pc' = pc + 1 + 0
  <2>1. pc + 1 \in Int /\ i \in Int
    BY <1>2, <1>4, Sized, PlacesAssumption DEF Instruction, Addresses
  <2> QED
    BY <1>1, <2>1
<1>12. Running(guest, Current)' /\ Leaving(guest, Current)' /\ Registers(guest)'
  BY Zenon, <1>1, <1>2, <1>4, <1>8, <1>10, <1>11, RunsOn
<1> QED
  BY Zenon, <1>2, <1>12, RegistersOnly

\* A return is followed by the words that go to the dispatcher.
LEMMA RetInv ==
    ASSUME Roomy(guest), LinksInv, Ret
    PROVE  LinksInv'
<1>1. mode = "jit" /\ mode' = mode /\ t4' = FALSE /\ pc' = pc + 1 /\ words[pc].op = "ret" /\
      rip' \in Rips
  BY Zenon DEF Ret, At
<1>2. UNCHANGED <<codeVars, guestVars>> /\ UNCHANGED codeVars /\ guest' = guest /\
        guest \in DOMAIN Guests
  BY Zenon DEF Ret, LinksInv, guestVars
<1>3. PICK s \in Addresses, r \in Rips : \E i \in 1 .. Size(guest, r) : Instruction(s, r, i)
  BY Zenon, <1>1, AtInstruction DEF Body
<1>4. PICK i \in 1 .. Size(guest, r) : Instruction(s, r, i)
  BY Zenon, <1>3
<1>5. i < Size(guest, r) /\ OpAt(guest, r, i + 1) = "back1"
  BY Zenon, <1>1, <1>4 DEF Instruction, Shaped
<1>6. i + 1 \in 1 .. Size(guest, r)
  BY <1>2, <1>5, Sized
<1>7. RipAt(guest, r, i + 1, rip')
  BY Zenon, <1>1, <1>5 DEF RipAt, Body
<1>8. i + 1 + 0 = i + 1 /\ pc' = pc + 1 + 0
  <2>1. pc + 1 \in Int /\ i \in Int
    BY <1>2, <1>4, Sized, PlacesAssumption DEF Instruction, Addresses
  <2> QED
    BY <1>1, <2>1
<1>9. Running(guest, Current)' /\ Leaving(guest, Current)' /\ Registers(guest)'
  BY Zenon, <1>1, <1>2, <1>4, <1>6, <1>7, <1>8, RunsOn
<1> QED
  BY Zenon, <1>2, <1>9, RegistersOnly

\* A branch stays in the block.
LEMMA BranchIfInv ==
    ASSUME Roomy(guest), LinksInv, BranchIf
    PROVE  LinksInv'
<1>1. /\ mode = "jit" /\ mode' = mode /\ t4' = FALSE /\ words[pc].op = "bnez" /\ rip' = rip
      /\ pc' = pc + 1 \/ pc' = pc + 1 + words[pc].arg
  BY Zenon DEF BranchIf, At
<1>2. UNCHANGED <<codeVars, guestVars>> /\ UNCHANGED codeVars /\ guest' = guest /\
        guest \in DOMAIN Guests
  BY Zenon DEF BranchIf, LinksInv, guestVars
<1>3. PICK s \in Addresses, r \in Rips : \E i \in 1 .. Size(guest, r) : Instruction(s, r, i)
  BY Zenon, <1>1, AtInstruction DEF Body
<1>4. PICK i \in 1 .. Size(guest, r) : Instruction(s, r, i)
  BY Zenon, <1>3
<1>5. /\ words[pc].arg \in Nat /\ Continues(guest, r, i + 1) /\
         Continues(guest, r, i + 1 + words[pc].arg)
      /\ rip = r
  BY Zenon, <1>1, <1>4 DEF Instruction, Shaped
<1>6. pc + 1 \in Int /\ i \in Int
  BY <1>2, <1>4, Sized, PlacesAssumption DEF Instruction, Addresses
<1>7. PICK n \in {0, words[pc].arg} : pc' = pc + 1 + n
  BY <1>1, <1>5, <1>6
<1>8. n \in Nat /\ Continues(guest, r, i + 1 + n)
  <2>1. i + 1 + 0 = i + 1
    BY <1>6
  <2> QED
    BY <1>5, <1>7, <2>1
<1>9. i + 1 + n \in 1 .. Size(guest, r) /\ RipAt(guest, r, i + 1 + n, rip')
  BY Zenon, <1>1, <1>5, <1>8, Continued
<1>10. Running(guest, Current)' /\ Leaving(guest, Current)' /\ Registers(guest)'
  BY Zenon, <1>1, <1>2, <1>4, <1>7, <1>8, <1>9, RunsOn
<1> QED
  BY Zenon, <1>2, <1>10, RegistersOnly

\* A store to a page that is not read-only changes no page that was translated.
LEMMA StoreInv ==
    ASSUME Roomy(guest), LinksInv, Store
    PROVE  LinksInv'
<1>1. /\ mode = "jit" /\ mode' = mode /\ t4' = FALSE /\ words[pc].op = "store" /\ rip' = rip
      /\ pc' = pc + 1 /\ words[pc].arg \notin prot
  BY Zenon DEF Store, At
<1>2. UNCHANGED codeVars /\ guest' = guest /\ prot' = prot /\ guest \in DOMAIN Guests
  BY Zenon DEF Store, LinksInv
<1>3. PICK s \in Addresses, r \in Rips : \E i \in 1 .. Size(guest, r) : Instruction(s, r, i)
  BY Zenon, <1>1, AtInstruction DEF Body
<1>4. PICK i \in 1 .. Size(guest, r) : Instruction(s, r, i)
  BY Zenon, <1>3
<1>5. words[pc].arg \in Pages /\ Continues(guest, r, i + 1) /\ rip = r
  BY Zenon, <1>1, <1>4 DEF Instruction, Shaped
<1>6. i + 1 + 0 = i + 1 /\ pc' = pc + 1 + 0
  <2>1. pc + 1 \in Int /\ i \in Int
    BY <1>2, <1>4, Sized, PlacesAssumption DEF Instruction, Addresses
  <2> QED
    BY <1>1, <2>1
<1>7. i + 1 \in 1 .. Size(guest, r) /\ RipAt(guest, r, i + 1, rip')
  BY Zenon, <1>1, <1>5, Continued
<1>8. Running(guest, Current)' /\ Leaving(guest, Current)' /\ Registers(guest)'
  BY Zenon, <1>1, <1>2, <1>4, <1>6, <1>7, RunsOn
<1>9. PICK v \in Versions : ver' = [ver EXCEPT ![words[pc].arg] = v]
  BY Zenon DEF Store
<1>10. ver' \in [Pages -> Versions] /\ \A q \in prot : ver'[q] = ver[q]
  BY Zenon, <1>1, <1>9 DEF LinksInv
<1>11. Current' = Current
  BY Zenon, <1>2 DEF Current, codeVars
<1>12. CodeInv(guest, Current, prot, ver)
  BY Zenon DEF LinksInv
<1>13. Heads(guest, Current, prot, ver')
  BY Zenon, <1>10, <1>12 DEF CodeInv, Heads, Fresh
<1>14. CodeInv(guest, Current, prot, ver')
  BY Zenon, <1>12, <1>13 DEF CodeInv
<1>15. CodeInv(guest, Current, prot, ver)'
  BY Zenon, <1>2, <1>11, <1>14
<1>16. prot' \subseteq Pages /\ guest' \in DOMAIN Guests
  BY Zenon, <1>2 DEF LinksInv
<1> QED
  BY Zenon, <1>8, <1>10, <1>15, <1>16 DEF LinksInv

\* The thread gets to the first word of a copy.
LEMMA Enters ==
    ASSUME guest \in DOMAIN Guests, Roomy(guest), guest' = guest, mode' = "jit", t4' = FALSE,
           NEW h \in Addresses, NEW q \in Rips, Copy(guest, Current, h, q)', pc' = h, rip' = q,
           Came(guest, Current, t5, h, q)'
    PROVE  Running(guest, Current)' /\ Leaving(guest, Current)' /\ Registers(guest)'
<1>1. 1 \in 1 .. Size(guest, q) /\ RipAt(guest, q, 1, q)
  BY Zenon, AtEntry
<1>2. pc' = h + 1 - 1
  BY PlacesAssumption DEF Addresses
<1>3. Runs(guest, Current, h, q, 1)'
  BY <1>1, <1>2 DEF Runs
<1>4. Running(guest, Current)'
  BY Zenon, <1>1, <1>3 DEF Running
<1>5. Leaving(guest, Current)'
  BY Zenon DEF Leaving
<1>6. Registers(guest)'
  BY Zenon DEF Registers
<1> QED
  BY Zenon, <1>4, <1>5, <1>6

\* A direct jump enters a copy of the block the rip register names.
LEMMA JumpLinkedInv ==
    ASSUME Roomy(guest), LinksInv, JumpLinked
    PROVE  LinksInv'
<1>1. /\ mode = "jit" /\ mode' = "jit" /\ t4' = FALSE /\ words[pc].op = "jal" /\ rip' = rip
      /\ pc' = words[pc].arg /\ t5' = pc + 1
  BY Zenon DEF JumpLinked, At
<1>2. UNCHANGED <<codeVars, guestVars>> /\ UNCHANGED codeVars /\ guest' = guest /\
        guest \in DOMAIN Guests
  BY Zenon DEF JumpLinked, LinksInv, guestVars
<1>3. PICK s \in Addresses, r \in Rips : \E i \in 1 .. Size(guest, r) : Spot(s, r, i)
  BY Zenon, <1>1, Here
<1>4. PICK i \in 1 .. Size(guest, r) : Spot(s, r, i)
  BY Zenon, <1>3
<1>5. /\ Holds(guest, Current, s, r, i) /\ Copy(guest, Current, s, r) /\ pc = s + i - 1
      /\ words[pc] = Current.words[s + i - 1] /\ RipAt(guest, r, i, rip)
  BY Zenon, <1>4 DEF Spot
<1>6. ~Own(guest, Current, s, r, i)
  <2>1. Shaped(guest, r, i)
    BY Zenon, <1>2, GuestsAssumption
  <2> QED
    BY Zenon, <1>1, <1>5, <2>1 DEF Own, Shaped, Body
<1>7. ~(Current.words[s + i - 1] \in {Stub1, Stub2, Back1, Back2, Nop})
  BY Zenon, <1>1, <1>5, Ops
<1>8. OpAt(guest, r, i) = "pad" /\ \E h \in Addresses :
          /\ Copy(guest, Current, h, ArgAt(guest, r, i))
          /\ Current.words[s + i - 1] = Jal(h) /\ Current.words[s + i - 1 - 1] = Nop
  BY Zenon, <1>5, <1>6, <1>7 DEF Holds
<1>9. PICK h \in Addresses :
          /\ Copy(guest, Current, h, ArgAt(guest, r, i))
          /\ Current.words[s + i - 1] = Jal(h) /\ Current.words[s + i - 1 - 1] = Nop
  BY Zenon, <1>8
<1>10. /\ i - 1 \in 1 .. Size(guest, r)
       /\ OpAt(guest, r, i - 1) = "link" /\ ArgAt(guest, r, i - 1) = ArgAt(guest, r, i)
  BY Zenon, <1>2, <1>8, PadShape
<1>11. ArgAt(guest, r, i) \in Rips
  BY Zenon, <1>2, <1>10, LinkShape
<1>12. rip = ArgAt(guest, r, i)
  BY Zenon, <1>5, <1>8 DEF RipAt
<1>13. s \in Int /\ i \in Int
  BY <1>2, Sized, PlacesAssumption DEF Addresses
<1>14. s + (i - 1) - 1 = t5' - 2 /\ t5' - 2 = s + i - 1 - 1 /\ t5' - 2 + 1 = s + i - 1
  BY <1>1, <1>5, <1>13
<1>15. Site(guest, Current, t5' - 2, ArgAt(guest, r, i))
  BY Zenon, <1>5, <1>10, <1>14 DEF Site
<1>16. LinkedTo(Current, t5' - 2, h)
  BY Zenon, <1>9, <1>14 DEF LinkedTo
<1>17. Current' = Current
  BY Zenon, <1>2 DEF Current, codeVars
<1>18. pc' = h
  BY Zenon, <1>1, <1>5, <1>9, Ops
<1>19. Came(guest, Current, t5, h, ArgAt(guest, r, i))'
  BY Zenon, <1>2, <1>15, <1>16, <1>17 DEF Came
<1>20. Copy(guest, Current, h, ArgAt(guest, r, i))'
  BY Zenon, <1>2, <1>9, <1>17
<1>21. Running(guest, Current)' /\ Leaving(guest, Current)' /\ Registers(guest)'
  <2> DEFINE q == ArgAt(guest, r, i)
  <2>1. q \in Rips /\ rip' = q /\ q' = q
    BY Zenon, <1>1, <1>2, <1>11, <1>12
  <2>2. Copy(guest', Current', h, q) /\ Came(guest', Current', t5', h, q)
    BY Zenon, <1>19, <1>20, <2>1
  <2> HIDE DEF q
  <2> QED
    BY Zenon, <1>1, <1>2, <1>18, <2>1, <2>2, Enters
<1> QED
  BY Zenon, <1>2, <1>21, RegistersOnly

\* Back to the dispatcher, which takes the rip register from the code that ends there.
LEMMA BackToDispatcherInv ==
    ASSUME LinksInv, BackToDispatcher
    PROVE  LinksInv'
<1>1. mode' = "dispatch" /\ t4' = FALSE /\ rip' = rip /\ UNCHANGED <<codeVars, guestVars>> /\
      guest' = guest
  BY Zenon DEF BackToDispatcher, guestVars
<1>2. Running(guest, Current)' /\ Leaving(guest, Current)'
  BY Zenon, <1>1 DEF Running, Leaving
<1>3. Registers(guest)'
  BY Zenon, <1>1 DEF Registers, LinksInv
<1> QED
  BY Zenon, <1>1, <1>2, <1>3, RegistersOnly

\* The first word of a stub is run at the head of a copy.
LEMMA StubFirstInv ==
    ASSUME Roomy(guest), LinksInv, StubFirst
    PROVE  LinksInv'
<1>1. /\ mode = "jit" /\ mode' = "jit" /\ t4' = TRUE /\ words[pc].op = "stub1" /\ rip' = rip
      /\ pc' = pc + 1 /\ t5' = t5
  BY Zenon DEF StubFirst, At
<1>2. UNCHANGED <<codeVars, guestVars>> /\ UNCHANGED codeVars /\ guest' = guest /\
        guest \in DOMAIN Guests
  BY Zenon DEF StubFirst, LinksInv, guestVars
<1>3. PICK s \in Addresses, r \in Rips : \E i \in 1 .. Size(guest, r) : Spot(s, r, i)
  BY Zenon, <1>1, Here
<1>4. PICK i \in 1 .. Size(guest, r) : Spot(s, r, i)
  BY Zenon, <1>3
<1>5. /\ Holds(guest, Current, s, r, i) /\ Copy(guest, Current, s, r) /\ pc = s + i - 1
      /\ words[pc] = Current.words[s + i - 1] /\ RipAt(guest, r, i, rip) /\
         Runs(guest, Current, s, r, i)
  BY Zenon, <1>4 DEF Spot
<1>6. ~Own(guest, Current, s, r, i)
  <2>1. Shaped(guest, r, i)
    BY Zenon, <1>2, GuestsAssumption
  <2> QED
    BY Zenon, <1>1, <1>5, <2>1 DEF Own, Shaped, Body
<1>7. ~(Current.words[s + i - 1] \in {Stub2, Back1, Back2, Nop}) /\
      \A h : Current.words[s + i - 1] # Jal(h)
  BY Zenon, <1>1, <1>5, Ops
<1>8. i = 1 /\ Stub(Current, s)
  BY Zenon, <1>5, <1>6, <1>7 DEF Holds
<1>9. Came(guest, Current, t5, s, r)
  BY Zenon, <1>5, <1>8 DEF Runs
<1>10. /\ 2 \in 1 .. Size(guest, r) /\ OpAt(guest, r, 1) \in Body /\ RipAt(guest, r, 2, r)
  BY Zenon, <1>2, AtEntry
<1>11. rip = r
  BY Zenon, <1>5, <1>8, <1>10 DEF RipAt
<1>12. pc' = s + 2 - 1
  BY <1>1, <1>5, <1>8, PlacesAssumption DEF Addresses
<1>13. Current' = Current
  BY Zenon, <1>2 DEF Current, codeVars
<1>14. Runs(guest, Current, s, r, 2)'
  BY Zenon, <1>1, <1>2, <1>5, <1>8, <1>9, <1>10, <1>11, <1>12, <1>13 DEF Runs
<1>15. Running(guest, Current)'
  BY Zenon, <1>2, <1>10, <1>14 DEF Running
<1>16. Leaving(guest, Current)'
  BY Zenon, <1>1 DEF Leaving
<1>17. Registers(guest)'
  BY Zenon, <1>1, <1>11 DEF Registers
<1> QED
  BY Zenon, <1>2, <1>15, <1>16, <1>17, RegistersOnly

\* The second word of a stub goes to the thunk, or anywhere when the stub was
\* written under the thread by another.
LEMMA StubSecondInv ==
    ASSUME Roomy(guest), LinksInv, StubSecond
    PROVE  LinksInv'
<1>1. /\ mode = "jit" /\ mode' = (IF t4 THEN "thunk" ELSE "wild") /\ t4' = FALSE
      /\ words[pc].op = "stub2" /\ rip' = rip /\ t6' = pc + 1 /\ t5' = t5
  BY Zenon DEF StubSecond, At
<1>2. UNCHANGED <<codeVars, guestVars>> /\ UNCHANGED codeVars /\ guest' = guest /\
        guest \in DOMAIN Guests
  BY Zenon DEF StubSecond, LinksInv, guestVars
<1>3. PICK s \in Addresses, r \in Rips : \E i \in 1 .. Size(guest, r) : Spot(s, r, i)
  BY Zenon, <1>1, Here
<1>4. PICK i \in 1 .. Size(guest, r) : Spot(s, r, i)
  BY Zenon, <1>3
<1>5. /\ Holds(guest, Current, s, r, i) /\ Copy(guest, Current, s, r) /\ pc = s + i - 1
      /\ words[pc] = Current.words[s + i - 1] /\ Runs(guest, Current, s, r, i)
  BY Zenon, <1>4 DEF Spot
<1>6. ~Own(guest, Current, s, r, i)
  <2>1. Shaped(guest, r, i)
    BY Zenon, <1>2, GuestsAssumption
  <2> QED
    BY Zenon, <1>1, <1>5, <2>1 DEF Own, Shaped, Body
<1>7. ~(Current.words[s + i - 1] \in {Stub1, Back1, Back2, Nop}) /\
      \A h : Current.words[s + i - 1] # Jal(h)
  BY Zenon, <1>1, <1>5, Ops
<1>8. i = 2 /\ Stub(Current, s)
  BY Zenon, <1>5, <1>6, <1>7 DEF Holds
<1>9. t4 \in BOOLEAN /\ (t4 \/ Guests[guest].remote) /\ rip \in Rips
  BY Zenon, <1>5, <1>8 DEF Runs, LinksInv, Registers
<1>10. t4 => rip = r /\ Came(guest, Current, t5, s, r)
  BY Zenon, <1>5 DEF Runs
<1>11. t6' = s + 2
  BY <1>1, <1>5, <1>8, PlacesAssumption DEF Addresses
<1>12. Current' = Current
  BY Zenon, <1>2 DEF Current, codeVars
<1>13. Running(guest, Current)'
  BY Zenon, <1>1 DEF Running
<1>14. Leaving(guest, Current)'
  BY Zenon, <1>1, <1>2, <1>5, <1>8, <1>10, <1>11, <1>12 DEF Leaving
<1>15. Registers(guest)'
  BY Zenon, <1>1, <1>2, <1>9 DEF Registers
<1> QED
  BY Zenon, <1>2, <1>13, <1>14, <1>15, RegistersOnly

-----------------------------------------------------------------------------
(* The dispatcher.                                                         *)

\* From the dispatcher the thread gets to a copy of the block at rip.
LEMMA Dispatched ==
    ASSUME Roomy(guest), LinksInv, mode = "dispatch", guest' = guest, NEW h \in Addresses,
           Copy(guest, Current, h, rip)', Enter(h)
    PROVE  Running(guest, Current)' /\ Leaving(guest, Current)' /\ Registers(guest)'
<1>1. mode' = "jit" /\ pc' = h /\ t5' = 0 /\ rip' = rip /\ t4' = t4
  BY Zenon DEF Enter
<1>2. guest \in DOMAIN Guests /\ rip \in Rips /\ t4 = FALSE
  BY Zenon DEF LinksInv, Registers
<1>3. Came(guest', Current', t5', h, rip)
  BY Zenon, <1>1 DEF Came
<1>4. Copy(guest', Current', h, rip)
  BY Zenon, <1>1
<1>5. t4' = FALSE
  BY Zenon, <1>1, <1>2
<1> DEFINE q == rip
<1>6. q \in Rips /\ rip' = q /\ Copy(guest', Current', h, q) /\ Came(guest', Current', t5', h, q)
  BY Zenon, <1>1, <1>2, <1>3, <1>4
<1> HIDE DEF q
<1> QED
  BY Zenon, <1>1, <1>2, <1>5, <1>6, Enters

\* The address cache names copies.
LEMMA DispatchCachedInv ==
    ASSUME Roomy(guest), LinksInv, DispatchCached
    PROVE  LinksInv'
<1>1. /\ mode = "dispatch" /\ cache[Slot[rip]].guest = rip /\ Enter(cache[Slot[rip]].host)
      /\ UNCHANGED <<codeVars, guestVars>> /\ UNCHANGED codeVars /\ guest' = guest
  BY Zenon DEF DispatchCached, guestVars
<1>2. rip \in Rips /\ Entries(guest, Current)
  BY Zenon DEF LinksInv, Registers, CodeInv
<1>3. Current.cache[Slot[rip]].host \in Addresses /\
      Copy(guest, Current, Current.cache[Slot[rip]].host, rip)
  BY Zenon, <1>1, <1>2, CurrentIs DEF Entries
<1>4. cache[Slot[rip]].host \in Addresses /\ Copy(guest, Current, cache[Slot[rip]].host, rip)
  BY Zenon, <1>3, CurrentIs
<1>5. Current' = Current
  BY Zenon, <1>1 DEF Current, codeVars
<1>6. rip' = rip
  BY Zenon, <1>1 DEF Enter
<1> DEFINE h == cache[Slot[rip]].host
<1>7. h \in Addresses /\ Enter(h) /\ Copy(guest', Current', h, rip')
  BY Zenon, <1>1, <1>4, <1>5, <1>6
<1> HIDE DEF h
<1>8. Running(guest, Current)' /\ Leaving(guest, Current)' /\ Registers(guest)'
  BY Zenon, <1>1, <1>7, Dispatched
<1> QED
  BY Zenon, <1>1, <1>8, RegistersOnly

\* Cache d is k with an entry for r.
Noted(k, d, r) ==
    /\ d.cache = Cached(k.cache, r, k.address[r])
    /\ d.words = k.words /\ d.cursor = k.cursor /\ d.address = k.address /\ d.end = k.end
    /\ d.pending = k.pending /\ d.hostMap = k.hostMap /\ d.pageMap = k.pageMap

\* An entry for a block that is translated is right.
LEMMA NotedInv ==
    ASSUME NEW g \in DOMAIN Guests, NEW k, NEW d, NEW pr, NEW ve, CodeInv(g, k, pr, ve),
           NEW r \in Rips, k.address[r] # 0, Noted(k, d, r)
    PROVE  CodeInv(g, d, pr, ve) /\ k.address[r] \in Addresses /\ Copy(g, d, k.address[r], r)
<1>1. /\ d.words = k.words /\ d.cursor = k.cursor /\ d.address = k.address /\ d.end = k.end
      /\ d.pending = k.pending /\ d.hostMap = k.hostMap /\ d.pageMap = k.pageMap
      /\ d.cache = [k.cache EXCEPT ![Slot[r]] = [guest |-> r, host |-> k.address[r]]]
  BY Zenon DEF Noted, Cached
<1>2. /\ Typed(k) /\ Placed(g, k) /\ Apart(g, k) /\ Bodies(g, k) /\ Links(g, k) /\ Heads(g, k, pr, ve)
      /\ Known(g, k) /\ Mapped(k) /\ Entries(g, k) /\ Waiting(g, k)
  BY Zenon DEF CodeInv
<1>3. \A s, q : Copy(g, d, s, q) <=> Copy(g, k, s, q)
  BY Zenon, <1>1 DEF Copy
<1>4. k.address[r] \in Addresses /\ Copy(g, k, k.address[r], r)
  <2>1. k.address[r] \in 0 .. CacheWords
    BY Zenon, <1>2 DEF Typed
  <2>2. k.address[r] \in Addresses
    BY <2>1, PlacesAssumption DEF Addresses
  <2> QED
    BY Zenon, <1>2, <2>2 DEF Known
<1>5. \A q \in Rips : d.cache[Slot[q]] = IF Slot[q] = Slot[r] THEN [guest |-> r, host |-> k.address[r]]
                                         ELSE k.cache[Slot[q]]
  <2>1. k.cache = [x \in {Slot[q] : q \in Rips} |-> k.cache[x]]
    BY Zenon, <1>2 DEF Typed
  <2>2. DOMAIN k.cache = {Slot[q] : q \in Rips}
    BY Zenon, <2>1
  <2> QED
    BY <1>1, <2>2
<1>6. Typed(d)
  <2>1. d.cache = [x \in {Slot[q] : q \in Rips} |-> d.cache[x]]
    <3>1. k.cache = [x \in {Slot[q] : q \in Rips} |-> k.cache[x]]
      BY Zenon, <1>2 DEF Typed
    <3> QED
      BY Zenon, <1>1, <3>1
  <2> QED
    BY Zenon, <1>1, <1>2, <2>1 DEF Typed
<1>7. Placed(g, d) /\ Apart(g, d)
  BY Zenon, <1>1, <1>2, <1>3 DEF Placed, Apart
<1>8. \A s : (Stub(d, s) <=> Stub(k, s)) /\ (Unlinked(d, s) <=> Unlinked(k, s))
  BY Zenon, <1>1 DEF Stub, Unlinked
<1>9. \A s, h : LinkedTo(d, s, h) <=> LinkedTo(k, s, h)
  BY Zenon, <1>1 DEF LinkedTo
<1>10. Bodies(g, d)
  <2>1. \A s, q, i : Own(g, k, s, q, i) => Own(g, d, s, q, i)
    BY Zenon, <1>1 DEF Own
  <2> QED
    BY Zenon, <1>2, <1>3, <1>8, <2>1 DEF Bodies
<1>11. Links(g, d)
  BY Zenon, <1>2, <1>3, <1>8, <1>9 DEF Links
<1>12. Heads(g, d, pr, ve)
  <2>1. \A s, q : Fresh(k, pr, ve, s, q) => Fresh(d, pr, ve, s, q)
    BY Zenon, <1>1 DEF Fresh
  <2> QED
    BY Zenon, <1>2, <1>3, <1>8, <2>1 DEF Heads
<1>13. Known(g, d)
  BY Zenon, <1>1, <1>2, <1>3 DEF Known
<1>14. Mapped(d)
  BY Zenon, <1>1, <1>2, <1>8 DEF Mapped
<1>15. Entries(g, d)
  <2> SUFFICES ASSUME NEW q \in Rips, d.cache[Slot[q]].guest = q
               PROVE  d.cache[Slot[q]].host \in Addresses /\ Copy(g, d, d.cache[Slot[q]].host, q)
    BY Zenon DEF Entries
  <2>1. CASE Slot[q] = Slot[r]
    <3>1. d.cache[Slot[q]] = [guest |-> r, host |-> k.address[r]]
      BY Zenon, <1>5, <2>1
    <3>2. q = r /\ d.cache[Slot[q]].host = k.address[r]
      BY <3>1
    <3> QED
      BY Zenon, <1>3, <1>4, <3>2
  <2>2. CASE Slot[q] # Slot[r]
    <3>1. d.cache[Slot[q]] = k.cache[Slot[q]]
      BY Zenon, <1>5, <2>2
    <3> QED
      BY Zenon, <1>2, <1>3, <3>1 DEF Entries
  <2> QED
    BY Zenon, <2>1, <2>2
<1>16. Waiting(g, d)
  <2>1. \A a, q : Site(g, k, a, q) => Site(g, d, a, q)
    BY Zenon, <1>3 DEF Site
  <2> QED
    BY Zenon, <1>1, <1>2, <1>8, <2>1 DEF Waiting
<1> QED
  BY Zenon, <1>3, <1>4, <1>6, <1>7, <1>10, <1>11, <1>12, <1>13, <1>14, <1>15, <1>16 DEF CodeInv

\* block_metadata names copies.
LEMMA DispatchTranslatedInv ==
    ASSUME Roomy(guest), LinksInv, DispatchTranslated
    PROVE  LinksInv'
<1>1. /\ mode = "dispatch" /\ address[rip] # 0 /\ Enter(address[rip])
      /\ guest' = guest /\ prot' = prot /\ ver' = ver
  BY Zenon DEF DispatchTranslated, guestVars
<1>2. guest \in DOMAIN Guests /\ rip \in Rips /\ CodeInv(guest, Current, prot, ver)
  BY Zenon DEF LinksInv, Registers
<1>3. Noted(Current, Current', rip)
  BY Zenon, CurrentIs, CurrentNext DEF DispatchTranslated, Noted
<1>4. Current.address[rip] # 0
  BY Zenon, <1>1, CurrentIs
<1>5. /\ CodeInv(guest, Current', prot, ver)
      /\ Current.address[rip] \in Addresses /\ Copy(guest, Current', Current.address[rip], rip)
  BY Zenon, <1>2, <1>3, <1>4, NotedInv
<1>6. address[rip] \in Addresses /\ Copy(guest, Current', address[rip], rip)
  BY Zenon, <1>5, CurrentIs
<1>7. rip' = rip
  BY Zenon, <1>1 DEF Enter
<1> DEFINE h == address[rip]
<1>8. h \in Addresses /\ Enter(h) /\ Copy(guest', Current', h, rip')
  BY Zenon, <1>1, <1>6, <1>7
<1> HIDE DEF h
<1>9. Running(guest, Current)' /\ Leaving(guest, Current)' /\ Registers(guest)'
  BY Zenon, <1>1, <1>8, Dispatched
<1>10. CodeInv(guest, Current, prot, ver)'
  BY Zenon, <1>1, <1>5
<1>11. prot' \subseteq Pages /\ ver' \in [Pages -> Versions] /\ guest' \in DOMAIN Guests
  BY Zenon, <1>1 DEF LinksInv
<1> QED
  BY Zenon, <1>9, <1>10, <1>11 DEF LinksInv

\* The word emitted at a.
LEMMA EmittedWord ==
    ASSUME guest \in DOMAIN Guests, NEW c, NEW addr, NEW r \in Rips, NEW a \in Addresses
    PROVE  Emitted(c.words, r, c.cursor, addr)[a] =
               IF a \in c.cursor .. c.cursor + Size(guest, r) - 1
               THEN NewWord(guest, addr, ver, r, a - c.cursor + 1)
               ELSE c.words[a]
<1> DEFINE i == a - c.cursor + 1
<1>1. /\ OpAt(guest, r, i) = Prog[r][i][1] /\ ArgAt(guest, r, i) = Prog[r][i][2]
      /\ Size(guest, r) = Len(Prog[r])
  BY Zenon DEF OpAt, ArgAt, Size, Prog
<1>2. CASE a \notin c.cursor .. c.cursor + Size(guest, r) - 1
  BY Zenon, <1>1, <1>2 DEF Emitted
<1>3. CASE a \in c.cursor .. c.cursor + Size(guest, r) - 1
  <2>1. Emitted(c.words, r, c.cursor, addr)[a] =
            LET w == Prog[r][i]
            IN CASE w[1] = "link" -> IF addr[w[2]] = 0 THEN Back1 ELSE Nop
                 [] w[1] = "pad" -> IF addr[w[2]] = 0 THEN Back2 ELSE Jal(addr[w[2]])
                 [] OTHER -> Word(w[1], w[2], r, i, ver[PageOf[r]])
    BY Zenon, <1>1, <1>3 DEF Emitted
  <2>2. CASE OpAt(guest, r, i) = "link"
    BY Zenon, <1>1, <1>3, <2>1, <2>2 DEF NewWord
  <2>3. CASE OpAt(guest, r, i) = "pad"
    BY Zenon, <1>1, <1>3, <2>1, <2>3 DEF NewWord
  <2>4. CASE OpAt(guest, r, i) \notin {"link", "pad"}
    BY Zenon, <1>1, <1>3, <2>1, <2>4 DEF NewWord
  <2> QED
    BY Zenon, <2>2, <2>3, <2>4
<1> QED
  BY Zenon, <1>2, <1>3

\* Where the block goes.
LEMMA RoomFor ==
    ASSUME NEW g \in DOMAIN Guests, NEW c, Typed(c), Room(c), NEW r \in Rips
    PROVE  /\ c.cursor \in Nat /\ c.cursor >= 1 /\ c.cursor # 0
           /\ Size(g, r) \in Nat /\ c.cursor + Size(g, r) - 1 <= CacheWords
<1>1. c.cursor \in 1 .. CacheWords + 1 /\ CacheWords - (c.cursor - 1) >= Reserve
  BY Zenon DEF Typed, Room
<1> QED
  BY <1>1, Sized, PlacesAssumption

\* compile, into the cache c.
LEMMA CompileMakes ==
    ASSUME guest \in DOMAIN Guests, NEW c, Typed(c), Room(c), NEW r \in Rips, CompileInto(c, r)
    PROVE  Compiled(guest, c, Current', ver, r)
<1> DEFINE s == c.cursor
           addr == [c.address EXCEPT ![r] = s]
           waiting == {x \in SitesOf(r, s) : addr[x[2]] = 0}
           pend == [q \in Rips |-> c.pending[q] \cup {x[1] : x \in {y \in waiting : y[2] = q}}]
<1>1. /\ words' = ExpiredWords(Emitted(c.words, r, s, addr), pend[r], s)
      /\ address' = addr /\ pending' = [pend EXCEPT ![r] = {}]
  BY Zenon DEF CompileInto
<1>2. /\ cursor' = s + Len(Prog[r]) /\ end' = [c.end EXCEPT ![r] = s + Len(Prog[r])]
      /\ hostMap' = c.hostMap \cup {<<s + Len(Prog[r]), r>>} /\ cache' = Cached(c.cache, r, s)
      /\ pageMap' = [c.pageMap EXCEPT ![PageOf[r]] = @ \cup {r}]
  BY Zenon DEF CompileInto
<1>3. Size(guest, r) = Len(Prog[r])
  BY Zenon DEF Size, Prog
<1>4. /\ s \in Nat /\ s >= 1 /\ Size(guest, r) \in Nat /\ s + Size(guest, r) - 1 <= CacheWords
  BY Zenon, RoomFor
<1>5. addr[r] = s /\ addr[r] # 0
  <2>1. c.address \in [Rips -> 0 .. CacheWords] /\ s # 0
    BY Zenon, RoomFor DEF Typed
  <2> QED
    BY Zenon, <2>1
<1>6. pend[r] = c.pending[r]
  <2>1. \A x \in waiting : x[2] # r
    BY Zenon, <1>5
  <2>2. {x[1] : x \in {y \in waiting : y[2] = r}} = {}
    BY Zenon, <2>1
  <2> HIDE DEF waiting
  <2> QED
    BY Zenon, <2>2
<1>7. \A q \in Rips : \A b \in pend[q] : b \in c.pending[q] \/ NewSite(guest, c, addr, r, b, q)
  <2> SUFFICES ASSUME NEW q \in Rips, NEW b, b \in pend[q], b \notin c.pending[q]
               PROVE  NewSite(guest, c, addr, r, b, q)
    BY Zenon
  <2>1. PICK x \in waiting : x[2] = q /\ b = x[1]
    <3> HIDE DEF waiting
    <3> QED
      BY Zenon
  <2>2. x \in SitesOf(r, s) /\ addr[x[2]] = 0
    BY Zenon, <2>1
  <2>3. PICK i \in 1 .. Len(Prog[r]) : Prog[r][i][1] = "link" /\ x = <<s + i - 1, Prog[r][i][2]>>
    BY Zenon, <2>2 DEF SitesOf
  <2>4. OpAt(guest, r, i) = "link" /\ ArgAt(guest, r, i) = q /\ b = s + i - 1
    BY Zenon, <2>1, <2>3 DEF OpAt, ArgAt, Prog
  <2> HIDE DEF addr, s
  <2> QED
    BY Zenon, <1>3, <2>1, <2>2, <2>3, <2>4 DEF NewSite, s
<1>8. \A q \in Rips : pend[q] \subseteq Addresses
  <2> SUFFICES ASSUME NEW q \in Rips, NEW b, b \in pend[q], b \notin c.pending[q]
               PROVE  b \in Addresses
    BY Zenon DEF Typed
  <2>1. NewSite(guest, c, addr, r, b, q)
    BY Zenon, <1>7
  <2>2. PICK i \in 1 .. Size(guest, r) : b = s + i - 1
    BY Zenon, <2>1 DEF NewSite
  <2> QED
    BY <1>4, <2>2, PlacesAssumption DEF Addresses
<1>9. words' = [a \in Addresses |-> CompiledWord(guest, c, addr, ver, r, a)]
  <2>1. words' = [a \in Addresses |-> IF a \in c.pending[r] THEN Nop
                                      ELSE IF a - 1 \in c.pending[r] THEN Jal(s)
                                      ELSE Emitted(c.words, r, s, addr)[a]]
    BY Zenon, <1>1, <1>6 DEF ExpiredWords
  <2> HIDE DEF addr
  <2>2. \A a \in Addresses : Emitted(c.words, r, s, addr)[a] =
               IF a \in c.cursor .. c.cursor + Size(guest, r) - 1
               THEN NewWord(guest, addr, ver, r, a - c.cursor + 1)
               ELSE c.words[a]
    BY Zenon, EmittedWord
  <2> QED
    BY Zenon, <2>1, <2>2 DEF CompiledWord
<1>10. pending' \in [Rips -> SUBSET Addresses]
  <2>1. pend \in [Rips -> SUBSET Addresses]
    BY Zenon, <1>8
  <2> HIDE DEF pend
  <2> QED
    BY Zenon, <1>1, <2>1
<1>11. \A q \in Rips : \A b \in pending'[q] :
           q # r /\ (b \in c.pending[q] \/ NewSite(guest, c, addr, r, b, q))
  <2>1. pend = [q \in Rips |-> pend[q]]
    BY Zenon
  <2> HIDE DEF pend, addr
  <2>2. pending'[r] = {} /\ \A q \in Rips : q # r => pending'[q] = pend[q]
    BY Zenon, <1>1, <2>1
  <2> QED
    BY Zenon, <1>7, <2>2
<1> HIDE DEF pend, waiting, addr
<1>12. (Current').address = [c.address EXCEPT ![r] = c.cursor]
  BY Zenon, <1>1, CurrentNext DEF addr
<1>13. /\ (Current').words = [a \in Addresses |-> CompiledWord(guest, c, (Current').address, ver, r, a)]
       /\ (Current').cursor = c.cursor + Size(guest, r)
       /\ (Current').end = [c.end EXCEPT ![r] = c.cursor + Size(guest, r)]
  <2>1. (Current').words = words' /\ (Current').address = addr
    BY Zenon, <1>1, CurrentNext
  <2>2. (Current').cursor = cursor' /\ (Current').end = end'
    BY Zenon, CurrentNext
  <2> QED
    BY <1>2, <1>3, <1>9, <2>1, <2>2
<1>14. /\ (Current').pending \in [Rips -> SUBSET Addresses]
       /\ \A q \in Rips : \A b \in (Current').pending[q] :
              q # r /\ (b \in c.pending[q] \/ NewSite(guest, c, (Current').address, r, b, q))
  <2>1. (Current').pending = pending' /\ (Current').address = addr
    BY Zenon, <1>1, CurrentNext
  <2> QED
    BY Zenon, <1>10, <1>11, <2>1
<1>15. /\ (Current').hostMap = c.hostMap \cup {<<c.cursor + Size(guest, r), r>>}
       /\ (Current').cache = Cached(c.cache, r, c.cursor)
       /\ (Current').pageMap = [c.pageMap EXCEPT ![PageOf[r]] = @ \cup {r}]
  BY Zenon, <1>2, <1>3, CurrentNext
<1> QED
  BY Zenon, <1>12, <1>13, <1>14, <1>15 DEF Compiled

\* A block is translated with room for it, in a cache that was cleared or not.
LEMMA CompileInv ==
    ASSUME Roomy(guest), LinksInv, Compile
    PROVE  LinksInv'
<1> DEFINE c == IF CacheWords - (cursor - 1) < Reserve THEN Cleared ELSE Current
<1>1. mode = "dispatch" /\ address[rip] = 0 /\ CompileInto(c, rip)
  BY Zenon DEF Compile
<1>2. guest \in DOMAIN Guests /\ rip \in Rips /\ CodeInv(guest, Current, prot, ver)
  BY Zenon DEF LinksInv, Registers
<1>3. DOMAIN cache = {Slot[r] : r \in Rips}
  <2>1. Current.cache = [x \in {Slot[r] : r \in Rips} |-> Current.cache[x]]
    BY Zenon, <1>2 DEF CodeInv, Typed
  <2> QED
    BY Zenon, <2>1, CurrentIs
<1>4. Bare(Cleared)
  BY Zenon, <1>3 DEF Bare, Cleared
<1>5. CodeInv(guest, c, prot, ver) /\ c.address[rip] = 0 /\ Room(c)
  <2>1. CASE CacheWords - (cursor - 1) < Reserve
    <3>1. c = Cleared
      BY Zenon, <2>1
    <3>2. CodeInv(guest, Cleared, prot, ver)
      BY Zenon, <1>2, <1>4, BareInv
    <3>3. Cleared.address[rip] = 0 /\ Cleared.cursor = 1
      BY Zenon, <1>2, <1>4 DEF Bare
    <3>4. Room(Cleared)
      BY <3>3, PlacesAssumption DEF Room
    <3> QED
      BY Zenon, <3>1, <3>2, <3>3, <3>4
  <2>2. CASE ~(CacheWords - (cursor - 1) < Reserve)
    <3>1. c = Current
      BY Zenon, <2>2
    <3>2. Current.cursor \in 1 .. CacheWords + 1
      BY Zenon, <1>2 DEF CodeInv, Typed
    <3>3. Room(Current)
      BY <2>2, <3>2, CurrentIs, PlacesAssumption DEF Room
    <3> QED
      BY Zenon, <1>1, <1>2, <3>1, <3>3, CurrentIs
  <2> QED
    BY Zenon, <2>1, <2>2
<1>6. Typed(c)
  BY Zenon, <1>5 DEF CodeInv
<1> HIDE DEF c
<1>7. Compiled(guest, c, Current', ver, rip)
  BY Zenon, <1>1, <1>2, <1>5, <1>6, CompileMakes
<1>8. CodeInv(guest, Current', prot \cup {PageOf[rip]}, ver)
  BY Zenon, <1>2, <1>5, <1>7, CompiledInv
<1>9. c.cursor \in Addresses /\ Copy(guest, Current', c.cursor, rip)
  BY Zenon, <1>2, <1>5, <1>6, <1>7, CompiledCopies
<1>10. prot' = prot \cup {PageOf[rip]} /\ Enter(c.cursor) /\ guest' = guest /\ ver' = ver
  BY Zenon, <1>1 DEF CompileInto
<1>11. rip' = rip
  BY Zenon, <1>10 DEF Enter
<1> DEFINE h == c.cursor
<1>12. h \in Addresses /\ Enter(h) /\ Copy(guest', Current', h, rip')
  BY Zenon, <1>9, <1>10, <1>11
<1> HIDE DEF h
<1>13. Running(guest, Current)' /\ Leaving(guest, Current)' /\ Registers(guest)'
  BY Zenon, <1>1, <1>10, <1>12, Dispatched
<1>14. CodeInv(guest, Current, prot, ver)'
  BY Zenon, <1>8, <1>10
<1>15. prot' \subseteq Pages /\ ver' \in [Pages -> Versions] /\ guest' \in DOMAIN Guests
  BY Zenon, <1>2, <1>10, PlacesAssumption DEF LinksInv
<1> QED
  BY Zenon, <1>13, <1>14, <1>15 DEF LinksInv

-----------------------------------------------------------------------------
(* Invalidation.                                                           *)

\* host_pc_map.lower_bound finds the copy whose stub was run.
LEMMA Found ==
    ASSUME guest \in DOMAIN Guests, Roomy(guest), Typed(Current), Placed(guest, Current),
           Apart(guest, Current),
           NEW s \in Addresses, NEW r \in Rips, Copy(guest, Current, s, r), t6 = s + 2
    PROVE  After(t6) # {} /\ LowerBound(t6) = <<s + Size(guest, r), r>>
<1> DEFINE x == <<s + Size(guest, r), r>>
<1>1. s \in Nat /\ Size(guest, r) \in Nat /\ Size(guest, r) >= 3 /\ x[1] = s + Size(guest, r)
  BY Sized, PlacesAssumption DEF Roomy, Addresses
<1>2. x \in After(t6)
  BY <1>1, CurrentIs DEF Copy, After
<1>3. \A y \in After(t6) : y[1] \in Int /\ x[1] <= y[1] /\ (y[1] <= x[1] => y = x)
  <2> SUFFICES ASSUME NEW y \in After(t6)
               PROVE  y[1] \in Int /\ x[1] <= y[1] /\ (y[1] <= x[1] => y = x)
    BY Zenon
  <2>1. y \in Current.hostMap /\ y[1] > s + 2
    BY Zenon, CurrentIs DEF After
  <2>2. PICK t \in Addresses, q \in Rips : y = <<t + Size(guest, q), q>> /\
        t + Size(guest, q) <= Current.cursor
    BY Zenon, <2>1 DEF Placed
  <2>3. Copy(guest, Current, t, q)
    BY Zenon, <2>1, <2>2 DEF Copy
  <2>4. (s = t /\ r = q) \/ s + Size(guest, r) <= t \/ t + Size(guest, q) <= s
    BY Zenon, <2>3 DEF Apart
  <2>5. t \in Nat /\ Size(guest, q) \in Nat /\ Size(guest, q) >= 3 /\ y[1] = t + Size(guest, q)
    BY <2>2, Sized, PlacesAssumption DEF Roomy, Addresses
  <2>6. CASE s = t /\ r = q
    BY <1>1, <2>2, <2>5, <2>6
  <2>7. CASE s + Size(guest, r) <= t
    BY <1>1, <2>5, <2>7
  <2>8. CASE t + Size(guest, q) <= s
    BY <1>1, <2>1, <2>5, <2>8
  <2> QED
    BY Zenon, <2>4, <2>6, <2>7, <2>8
<1> HIDE DEF x
<1>4. LowerBound(t6) = x
  <2> DEFINE z == CHOOSE z \in After(t6) : \A y \in After(t6) : z[1] <= y[1]
  <2>1. z \in After(t6) /\ \A y \in After(t6) : z[1] <= y[1]
    BY Zenon, <1>2, <1>3
  <2>2. z = x
    BY Zenon, <1>2, <1>3, <2>1
  <2> QED
    BY Zenon, <2>2 DEF LowerBound
<1> QED
  BY Zenon, <1>2, <1>4 DEF x

\* The state after invalidateAt: the thread is in the dispatcher.
LEMMA InDispatcher ==
    ASSUME LinksInv, mode = "thunk", mode' = "dispatch", guest' = guest, rip' = rip, t4' = t4
    PROVE  Running(guest, Current)' /\ Leaving(guest, Current)' /\ Registers(guest)'
<1>1. t4 = FALSE /\ rip \in Rips
  BY Zenon DEF LinksInv, Registers
<1>2. Running(guest, Current)' /\ Leaving(guest, Current)'
  BY Zenon DEF Running, Leaving
<1>3. Registers(guest)'
  BY Zenon, <1>1 DEF Registers
<1> QED
  BY Zenon, <1>2, <1>3

\* invalidateAt forgets the copy whose stub was run and rewrites the link to it.
LEMMA InvalidateAtInv ==
    ASSUME Roomy(guest), LinksInv, InvalidateAt
    PROVE  LinksInv'
<1>1. mode = "thunk" /\ guest \in DOMAIN Guests /\ CodeInv(guest, Current, prot, ver)
  BY Zenon DEF InvalidateAt, LinksInv
<1>2. PICK s \in Addresses, r \in Rips :
          Copy(guest, Current, s, r) /\ Stub(Current, s) /\ t6 = s + 2 /\ rip = r
          /\ Came(guest, Current, t5, s, r)
  BY Zenon, <1>1 DEF LinksInv, Leaving
<1>3. Typed(Current) /\ Placed(guest, Current) /\ Apart(guest, Current)
  BY Zenon, <1>1 DEF CodeInv
<1>4. After(t6) # {} /\ LowerBound(t6) = <<s + Size(guest, r), r>>
  BY Zenon, <1>1, <1>2, <1>3, Found
<1>5. LowerBound(t6)[2] = r
  BY <1>4
<1> DEFINE addr == IF t6 \in address[r] .. end[r] THEN [address EXCEPT ![r] = 0] ELSE address
           m == [words |-> words, cursor |-> cursor, address |-> addr, end |-> end, pending |-> pending,
                 hostMap |-> hostMap, cache |-> [cache EXCEPT ![Slot[r]] = NoEntry],
                     pageMap |-> pageMap]
<1>6. /\ address' = addr
      /\ words' = IF t5 = 0 THEN words ELSE LinkAt(words, t5 - 2, r, addr)
      /\ pending' = IF t5 = 0 THEN pending ELSE PendAt(pending, t5 - 2, r, addr)
      /\ cache' = [cache EXCEPT ![Slot[r]] = NoEntry]
      /\ mode' = "dispatch"
  BY Zenon, <1>4, <1>5 DEF InvalidateAt
<1>7. /\ UNCHANGED <<cursor, end, hostMap, pageMap, rip, t4>>
      /\ guest' = guest /\ prot' = prot /\ ver' = ver
  BY Zenon DEF InvalidateAt, guestVars
<1>8. Forgotten(Current, m, s, r)
  BY Zenon, <1>2, CurrentIs DEF Forgotten
<1>9. CodeInv(guest, m, prot, ver)
  <2> HIDE DEF m
  <2> QED
    BY Zenon, <1>1, <1>2, <1>8, ForgottenInv
<1>10. CodeInv(guest, Current', prot, ver)
  <2>1. CASE t5 = 0
    <3>1. Current' = m
      BY Zenon, <1>6, <1>7, <2>1 DEF Current
    <3> QED
      BY Zenon, <1>9, <3>1
  <2>2. CASE t5 # 0
    <3>1. Site(guest, Current, t5 - 2, r) /\ LinkedTo(Current, t5 - 2, s)
      BY Zenon, <1>2, <2>2 DEF Came
    <3>2. m.hostMap = Current.hostMap /\ m.words = Current.words
      BY Zenon, CurrentIs
    <3>3. Relinked(m, Current', t5 - 2, r)
      BY Zenon, <1>6, <1>7, <2>2, CurrentNext DEF Relinked
    <3> HIDE DEF m
    <3>4. Site(guest, m, t5 - 2, r)
      BY Zenon, <3>1, <3>2 DEF Site, Copy
    <3>5. ~Unlinked(m, t5 - 2)
      BY <3>1, <3>2 DEF LinkedTo, Unlinked, Nop, Back1, Plain, Word
    <3> QED
      BY Zenon, <1>1, <1>9, <3>3, <3>4, <3>5, RelinkedInv
  <2> QED
    BY Zenon, <2>1, <2>2
<1>11. Running(guest, Current)' /\ Leaving(guest, Current)' /\ Registers(guest)'
  BY Zenon, <1>1, <1>6, <1>7, InDispatcher
<1>12. CodeInv(guest, Current, prot, ver)'
  BY Zenon, <1>7, <1>10
<1>13. prot' \subseteq Pages /\ ver' \in [Pages -> Versions] /\ guest' \in DOMAIN Guests
  BY Zenon, <1>7 DEF LinksInv
<1> QED
  BY Zenon, <1>11, <1>12, <1>13 DEF LinksInv

\* invalidateRange never meets a block without an address.
LEMMA PageInvalidated ==
    ASSUME LinksInv, NEW p \in Pages, InvalidatePage(p)
    PROVE  Invalidated(Current, Current', p) /\ mode' = mode
<1>1. Mapped(Current)
  BY Zenon DEF LinksInv, CodeInv
<1>2. mode' = mode
  <2>1. \A r \in pageMap[p] : address[r] # 0
    BY Zenon, <1>1, CurrentIs DEF Mapped
  <2> QED
    BY Zenon, <2>1 DEF InvalidatePage
<1>3. Starts(Current, p) = {address[r] : r \in pageMap[p]}
  BY Zenon, CurrentIs DEF Starts
<1>4. words' = [a \in Addresses |-> StubbedWord(Current, p, a)]
  BY Zenon, <1>3, CurrentIs DEF InvalidatePage, Stubbed, StubbedWord
<1>5. /\ pageMap' = [pageMap EXCEPT ![p] = {}]
      /\ UNCHANGED <<cursor, address, end, pending, hostMap, cache>>
  BY Zenon DEF InvalidatePage
<1>6. Invalidated(Current, Current', p)
  BY Zenon, <1>4, <1>5, CurrentIs, CurrentNext DEF Invalidated
<1> QED
  BY Zenon, <1>2, <1>6

\* The thread stays where it is while a page is invalidated.
LEMMA StillRuns ==
    ASSUME Roomy(guest), LinksInv, NEW p \in Pages, Invalidated(Current, Current', p), guest' = guest,
           UNCHANGED <<pc, rip, t4, t5>>,
           NEW s \in Addresses, NEW r \in Rips, NEW i \in 1 .. Size(guest, r),
               Runs(guest, Current, s, r, i),
           Guests[guest].remote \/ i # 2
    PROVE  Runs(guest, Current, s, r, i)'
<1>1. guest \in DOMAIN Guests /\ CodeInv(guest, Current, prot, ver) /\ Copy(guest, Current, s, r)
  BY Zenon DEF LinksInv, Runs
<1>2. Copy(guest, Current', s, r)
  BY Zenon, <1>1, InvalidatedCame
<1>3. Stub(Current, s) => Stub(Current', s)
  BY Zenon, <1>1, InvalidatedCame
<1>4. Came(guest, Current, t5, s, r) => Came(guest, Current', t5, s, r)
  BY Zenon, <1>1, InvalidatedCame
<1>5. pc = s + i - 1 /\ RipAt(guest, r, i, rip) /\ (i = 1 => Came(guest, Current, t5, s, r))
  BY Zenon DEF Runs
<1>6. t4 => i = 2 /\ Stub(Current, s) /\ rip = r /\ Came(guest, Current, t5, s, r)
  BY Zenon DEF Runs
<1> QED
  BY Zenon, <1>2, <1>3, <1>4, <1>5, <1>6 DEF Runs

\* So does a thread in the thunk.
LEMMA StillLeaves ==
    ASSUME Roomy(guest), LinksInv, NEW p \in Pages, Invalidated(Current, Current', p), guest' = guest,
           UNCHANGED <<mode, rip, t5, t6>>
    PROVE  Leaving(guest, Current)'
<1> SUFFICES ASSUME mode = "thunk"
             PROVE  \E s \in Addresses, r \in Rips :
                        Copy(guest, Current', s, r) /\ Stub(Current', s) /\ t6 = s + 2 /\ rip = r
                        /\ Came(guest, Current', t5, s, r)
  BY Zenon DEF Leaving
<1>1. PICK s \in Addresses, r \in Rips :
          Copy(guest, Current, s, r) /\ Stub(Current, s) /\ t6 = s + 2 /\ rip = r
          /\ Came(guest, Current, t5, s, r)
  BY Zenon DEF LinksInv, Leaving
<1>2. guest \in DOMAIN Guests /\ CodeInv(guest, Current, prot, ver)
  BY Zenon DEF LinksInv
<1>3. Copy(guest, Current', s, r)
  BY Zenon, <1>1, <1>2, InvalidatedCame
<1>4. Stub(Current', s)
  BY Zenon, <1>1, <1>2, InvalidatedCame
<1>5. Came(guest, Current', t5, s, r)
  BY Zenon, <1>1, <1>2, InvalidatedCame
<1> QED
  BY Zenon, <1>1, <1>3, <1>4, <1>5

\* Another thread invalidates a page.
LEMMA RemoteInvalidateInv ==
    ASSUME Roomy(guest), LinksInv, RemoteInvalidate
    PROVE  LinksInv'
<1>1. PICK p \in Pages : /\ InvalidatePage(p) /\ prot' = prot \ {p}
                         /\ \E v \in Versions : ver' = [ver EXCEPT ![p] = v]
  BY Zenon DEF RemoteInvalidate
<1>2. UNCHANGED <<guest, pc, rip, t4, t5, t6>> /\ guest' = guest /\ Guests[guest].remote
  BY Zenon DEF RemoteInvalidate, Remote
<1>3. guest \in DOMAIN Guests /\ CodeInv(guest, Current, prot, ver) /\ Running(guest, Current) /\
      Registers(guest)
  BY Zenon DEF LinksInv
<1>4. Invalidated(Current, Current', p) /\ mode' = mode
  BY Zenon, <1>1, PageInvalidated
<1>5. ver' \in [Pages -> Versions] /\ (\A q \in Pages \ {p} : ver'[q] = ver[q]) /\ prot' \subseteq Pages
  BY Zenon, <1>1 DEF LinksInv
<1>6. CodeInv(guest, Current', prot \ {p}, ver')
  BY Zenon, <1>3, <1>4, <1>5, InvalidatedInv
<1>7. CodeInv(guest, Current, prot, ver)'
  BY Zenon, <1>1, <1>2, <1>6
<1>8. Running(guest, Current)'
  <2> SUFFICES ASSUME mode = "jit"
               PROVE  \E s \in Addresses,
                   r \in Rips : \E i \in 1 .. Size(guest, r) : Runs(guest, Current, s, r, i)'
    BY Zenon, <1>2, <1>4 DEF Running
  <2>1. PICK s \in Addresses, r \in Rips : \E i \in 1 .. Size(guest, r) : Runs(guest, Current, s, r, i)
    BY Zenon, <1>3 DEF Running
  <2>2. PICK i \in 1 .. Size(guest, r) : Runs(guest, Current, s, r, i)
    BY Zenon, <2>1
  <2>3. Runs(guest, Current, s, r, i)'
    BY Zenon, <1>2, <1>4, <2>2, StillRuns
  <2> QED
    BY Zenon, <2>3
<1>9. Leaving(guest, Current)'
  BY Zenon, <1>2, <1>4, StillLeaves
<1>10. Registers(guest)'
  BY Zenon, <1>2, <1>3, <1>4 DEF Registers
<1>11. guest' \in DOMAIN Guests
  BY Zenon, <1>2, <1>3
<1> QED
  BY Zenon, <1>5, <1>7, <1>8, <1>9, <1>10, <1>11 DEF LinksInv

\* The thread's own store invalidates a page.
LEMMA StoreFaultsInv ==
    ASSUME Roomy(guest), LinksInv, StoreFaults
    PROVE  LinksInv'
<1>1. mode = "jit" /\ words[pc].op = "store" /\ words[pc].arg \in prot
  BY Zenon DEF StoreFaults, At
<1>2. UNCHANGED <<guest, ver, pc, rip, t4, t5, t6>> /\ guest' = guest /\ ver' = ver
  BY Zenon DEF StoreFaults
<1>3. guest \in DOMAIN Guests /\ CodeInv(guest, Current, prot, ver) /\ Registers(guest) /\
      prot \subseteq Pages
  BY Zenon DEF LinksInv
<1>4. PICK p \in Pages : InvalidatePage(p) /\ prot' = prot \ {p}
  BY Zenon, <1>1, <1>3 DEF StoreFaults
<1>5. Invalidated(Current, Current', p) /\ mode' = mode
  BY Zenon, <1>4, PageInvalidated
<1>6. CodeInv(guest, Current', prot \ {p}, ver)
  BY Zenon, <1>3, <1>5, InvalidatedInv
<1>7. CodeInv(guest, Current, prot, ver)'
  BY Zenon, <1>2, <1>4, <1>6
<1>8. Running(guest, Current)'
  <2>1. PICK s \in Addresses, r \in Rips : \E i \in 1 .. Size(guest, r) : Instruction(s, r, i)
    BY Zenon, <1>1, AtInstruction DEF Body
  <2>2. PICK i \in 1 .. Size(guest, r) : Instruction(s, r, i)
    BY Zenon, <2>1
  <2>3. Runs(guest, Current, s, r, i) /\ OpAt(guest, r, i) = "store"
    BY Zenon, <1>1, <2>2 DEF Instruction
  <2>4. Guests[guest].remote \/ i # 2
    BY Zenon, <2>3 DEF Roomy
  <2>5. Runs(guest, Current, s, r, i)'
    BY Zenon, <1>2, <1>5, <2>3, <2>4, StillRuns
  <2> QED
    BY Zenon, <1>2, <2>5 DEF Running
<1>9. Leaving(guest, Current)'
  BY Zenon, <1>2, <1>5, StillLeaves
<1>10. Registers(guest)'
  BY Zenon, <1>2, <1>3, <1>5 DEF Registers
<1>11. guest' \in DOMAIN Guests /\ prot' \subseteq Pages /\ ver' \in [Pages -> Versions]
  BY Zenon, <1>2, <1>3, <1>4 DEF LinksInv
<1> QED
  BY Zenon, <1>7, <1>8, <1>9, <1>10, <1>11 DEF LinksInv

-----------------------------------------------------------------------------
(* The theorems.                                                           *)

\* Every guest's blocks have room for a stub.
AllRoomy == \A g \in DOMAIN Guests : Roomy(g)

\* Every step of the thread, and of the threads that invalidate its blocks,
\* keeps the invariant.
LEMMA Kept ==
    ASSUME AllRoomy, LinksInv, [Next]_vars
    PROVE  LinksInv'
<1>1. Roomy(guest)
  BY Zenon DEF AllRoomy, LinksInv
<1>2. CASE Next
  <2>1. CASE DispatchCached
    BY Zenon, <1>1, <2>1, DispatchCachedInv
  <2>2. CASE DispatchTranslated
    BY Zenon, <1>1, <2>2, DispatchTranslatedInv
  <2>3. CASE Compile
    BY Zenon, <1>1, <2>3, CompileInv
  <2>4. CASE InvalidateAt
    BY Zenon, <1>1, <2>4, InvalidateAtInv
  <2>5. CASE Step
    BY Zenon, <1>1, <2>5, StepInv
  <2>6. CASE AddRip
    BY Zenon, <1>1, <2>6, AddRipInv
  <2>7. CASE Ret
    BY Zenon, <1>1, <2>7, RetInv
  <2>8. CASE BranchIf
    BY Zenon, <1>1, <2>8, BranchIfInv
  <2>9. CASE Store
    BY Zenon, <1>1, <2>9, StoreInv
  <2>10. CASE StoreFaults
    BY Zenon, <1>1, <2>10, StoreFaultsInv
  <2>11. CASE JumpLinked
    BY Zenon, <1>1, <2>11, JumpLinkedInv
  <2>12. CASE BackToDispatcher
    BY Zenon, <1>1, <2>12, BackToDispatcherInv
  <2>13. CASE StubFirst
    BY Zenon, <1>1, <2>13, StubFirstInv
  <2>14. CASE StubSecond
    BY Zenon, <1>1, <2>14, StubSecondInv
  <2>15. CASE RemoteInvalidate
    BY Zenon, <1>1, <2>15, RemoteInvalidateInv
  <2> QED
    BY Zenon, <1>2, <2>1, <2>2, <2>3, <2>4, <2>5, <2>6, <2>7, <2>8, <2>9, <2>10, <2>11, <2>12, <2>13,
       <2>14, <2>15
       DEF Next, Thread
<1>3. CASE UNCHANGED vars
  <2>1. /\ UNCHANGED <<codeVars, guestVars>> /\ UNCHANGED codeVars /\ guest' = guest
        /\ UNCHANGED <<mode, pc, rip, t4, t5, t6>>
    BY Zenon, <1>3 DEF vars, guestVars, cpuVars
  <2>2. Current' = Current
    BY Zenon, <2>1 DEF Current, codeVars
  <2>3. Running(guest, Current)'
    BY <2>1, <2>2 DEF LinksInv, Running, Runs
  <2>4. Leaving(guest, Current)' /\ Registers(guest)'
    BY Zenon, <2>1, <2>2 DEF LinksInv, Leaving, Registers
  <2> QED
    BY Zenon, <2>1, <2>3, <2>4, RegistersOnly
<1> QED
  BY Zenon, <1>2, <1>3

\* Linking, unlinking, clearing and invalidating keep the code cache what the
\* invariant says, and no ASSERT of invalidateBlock or invalidateAt fails.
THEOREM LinksInvariant ==
    ASSUME AllRoomy
    PROVE  Spec => []LinksInv
<1>1. LinksInv /\ [Next]_vars => LinksInv'
  BY Zenon, Kept
<1> QED
  BY <1>1, Start, PTL DEF Spec

\* The instruction about to be run, by the copy it is in.
LEMMA FirstInstruction ==
    ASSUME AllRoomy, LinksInv, mode = "jit", words[pc].op \in Body
    PROVE  \E s \in Addresses, r \in Rips : \E i \in 1 .. Size(guest, r) :
               /\ Instruction(s, r, i) /\ words[pc].idx = i
               /\ words[pc].idx = 1 => pc = s /\ ~Stub(Current, s)
<1>1. Roomy(guest) /\ guest \in DOMAIN Guests /\ CodeInv(guest, Current, prot, ver)
  BY Zenon DEF AllRoomy, LinksInv
<1>2. PICK s \in Addresses, r \in Rips : \E i \in 1 .. Size(guest, r) : Instruction(s, r, i)
  BY Zenon, <1>1, AtInstruction
<1>3. PICK i \in 1 .. Size(guest, r) : Instruction(s, r, i)
  BY Zenon, <1>2
<1>4. Copy(guest, Current, s, r) /\ pc = s + i - 1 /\ (i = 1 => ~Stub(Current, s))
  BY Zenon, <1>3 DEF Instruction
<1>5. Holds(guest, Current, s, r, i)
  BY Zenon, <1>1, <1>4, Fetched
<1>6. words[pc] = Current.words[s + i - 1]
  BY Zenon, <1>4, CurrentIs
<1>7. Own(guest, Current, s, r, i)
  BY Zenon, <1>5, <1>6, OwnWord
<1>8. words[pc].idx = i
  BY Zenon, <1>6, <1>7 DEF Own
<1>9. i = 1 => pc = s
  BY <1>4, PlacesAssumption DEF Addresses
<1> QED
  BY Zenon, <1>3, <1>4, <1>8, <1>9

\* A link, the address cache, the dispatcher and a rewritten link lead to the
\* block that the guest rip register names.
THEOREM EntriesAreRight ==
    ASSUME AllRoomy
    PROVE  Spec => []RipMatches
<1>1. LinksInv => RipMatches
  <2> SUFFICES ASSUME LinksInv, mode = "jit", words[pc].op \in Body PROVE rip = words[pc].of
    BY Zenon DEF RipMatches
  <2>1. PICK s \in Addresses, r \in Rips : \E i \in 1 .. Size(guest, r) : Instruction(s, r, i)
    BY Zenon, FirstInstruction
  <2> QED
    BY Zenon, <2>1 DEF Instruction
<1> QED
  BY <1>1, LinksInvariant, PTL

\* No block is entered once its page has other contents than it was translated from.
THEOREM EntriesAreCurrent ==
    ASSUME AllRoomy
    PROVE  Spec => []NoStaleEntry
<1>1. LinksInv => NoStaleEntry
  <2> SUFFICES ASSUME LinksInv, mode = "jit", words[pc].op \in Body, words[pc].idx = 1
               PROVE  words[pc].ver = ver[PageOf[words[pc].of]]
    BY Zenon DEF NoStaleEntry
  <2>1. PICK s \in Addresses, r \in Rips : \E i \in 1 .. Size(guest, r) :
            Instruction(s, r, i) /\ pc = s /\ ~Stub(Current, s)
    BY Zenon, FirstInstruction
  <2>2. Copy(guest, Current, s, r) /\ words[pc].of = r /\ pc = s /\ ~Stub(Current, s)
    BY Zenon, <2>1 DEF Instruction
  <2>3. Heads(guest, Current, prot, ver)
    BY Zenon DEF LinksInv, CodeInv
  <2>4. Fresh(Current, prot, ver, s, r)
    BY Zenon, <2>2, <2>3 DEF Heads
  <2> QED
    BY Zenon, <2>2, <2>4, CurrentIs DEF Fresh
<1> QED
  BY <1>1, LinksInvariant, PTL

\* What waits in pending_links goes to the dispatcher.
THEOREM PendingIsUnlinked ==
    ASSUME AllRoomy
    PROVE  Spec => []PendingSitesAreUnlinked
<1>1. LinksInv => PendingSitesAreUnlinked
  BY Zenon, CurrentIs DEF LinksInv, CodeInv, Waiting, Unlinked, PendingSitesAreUnlinked
<1> QED
  BY <1>1, LinksInvariant, PTL

\* invalidateAt finds the block whose stub was run, and never no block.
THEOREM StubsAreFound ==
    ASSUME AllRoomy
    PROVE  Spec => []StubNamesItsBlock
<1>1. LinksInv => StubNamesItsBlock
  <2> SUFFICES ASSUME LinksInv, mode = "thunk" PROVE After(t6) # {} /\ LowerBound(t6)[2] = rip
    BY Zenon DEF StubNamesItsBlock
  <2>1. PICK s \in Addresses, r \in Rips : Copy(guest, Current, s, r) /\ t6 = s + 2 /\ rip = r
    BY Zenon DEF LinksInv, Leaving
  <2>2. guest \in DOMAIN Guests /\ Roomy(guest)
        /\ Typed(Current) /\ Placed(guest, Current) /\ Apart(guest, Current)
    BY Zenon DEF LinksInv, CodeInv, AllRoomy
  <2>3. After(t6) # {} /\ LowerBound(t6) = <<s + Size(guest, r), r>>
    BY Zenon, <2>1, <2>2, Found
  <2> QED
    BY <2>1, <2>3
<1> QED
  BY <1>1, LinksInvariant, PTL

\* A thread that invalidates its own blocks runs stubs whole.
THEOREM StubsRunWhole ==
    ASSUME AllRoomy
    PROVE  Spec => []NeverWild
<1>1. LinksInv => NeverWild
  BY Zenon DEF LinksInv, Registers, NeverWild, Remote
<1> QED
  BY <1>1, LinksInvariant, PTL
=============================================================================
