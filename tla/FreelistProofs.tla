--------------------------- MODULE FreelistProofs ---------------------------
(***************************************************************************)
(* The free list keeps its nodes in order and apart, and implements a set  *)
(* of free pages, for an address space and regions of any size.            *)
(***************************************************************************)
EXTENDS Freelist, SequenceTheorems, TLAPS

Nodes == [start : Nat, last : Nat]

Pages(node) == node.start .. node.last

\* The list is made of nodes inside the address space, the last one of which
\* reaches its end.
Sound(l) ==
    /\ l \in Seq(Nodes)
    /\ \A i \in 1 .. Len(l) : MinPage <= l[i].start /\ l[i].start <= l[i].last
    /\ Len(l) > 0 /\ l[Len(l)].last = LastPage
    /\ \A i \in 1 .. Len(l) - 1 : l[i].last < LastPage

Apart(l) == \A i, j \in 1 .. Len(l) : i < j => l[i].last + 1 < l[j].start

\* The region is one that the guest may ask for.
Asked(part) == part \in Nodes /\ MinPage <= part.start /\ part.start <= part.last /\ part.last <= TopPage

\* deallocate has passed nodes below the region only.
Below(l, c, part) == \A i \in 1 .. c - 1 : l[i].start < part.start /\ ~Holds(l[i], part)

\* The f-th node holds the region, and what follows is in the order of the starts,
\* copies of the region aside.
Covered(l, f, part) ==
    /\ f \in 1 .. Len(l) /\ Holds(l[f], part)
    /\ \A k \in f + 1 .. Len(l) : l[k].start >= part.start
    /\ \A k \in 1 .. Len(l) : (k > f /\ l[k] = part) \/ \A j \in 1 .. k - 1 : l[j].start <= l[k].start

Ahead(l, c, part) == \A k \in c .. Len(l) : l[k].start > part.start

ListInv ==
    /\ Sound(list) /\ Asked(new)
    /\ pc \in {"idle", "walk", "merge"} /\ current \in Nat \ {0}
    /\ pc = "idle" => Apart(list)
    /\ pc = "walk" => /\ current <= Len(list) + 1
                      /\ \/ Apart(list) /\ Below(list, current, new)
                         \/ \E f \in 1 .. current - 1 : Covered(list, f, new) /\ Ahead(list, current, new)
    /\ pc = "merge" => \E f \in 1 .. Len(list) : Covered(list, f, new)

-----------------------------------------------------------------------------
(* Sequences. *)

\* What putting a node into a list gives.
LEMMA InsertAtProperties ==
    ASSUME NEW S, NEW s \in Seq(S), NEW i \in 1 .. Len(s) + 1, NEW e \in S
    PROVE  /\ InsertAt(s, i, e) \in Seq(S)
           /\ Len(InsertAt(s, i, e)) = Len(s) + 1
           /\ \A k \in 1 .. Len(s) + 1 :
                  InsertAt(s, i, e)[k] = IF k < i THEN s[k] ELSE IF k = i THEN e ELSE s[k - 1]
<1> DEFINE front == SubSeq(s, 1, i - 1)
           back == SubSeq(s, i, Len(s))
<1>1. /\ Len(s) \in Nat
      /\ \A k \in 1 .. Len(s) : s[k] \in S
  BY LenProperties
<1>2. /\ front \in Seq(S) /\ Len(front) = i - 1
      /\ \A k \in 1 .. i - 1 : front[k] = s[k]
  BY <1>1, SubSeqProperties
<1>3. /\ back \in Seq(S) /\ Len(back) = Len(s) - i + 1
      /\ \A k \in 1 .. Len(s) - i + 1 : back[k] = s[i + k - 1]
  BY <1>1, SubSeqProperties
<1>4. <<e>> \in Seq(S) /\ Len(<<e>>) = 1 /\ <<e>>[1] = e
  OBVIOUS
<1> HIDE DEF front, back
<1> DEFINE both == front \o <<e>>
<1>5. /\ both \in Seq(S) /\ Len(both) = Len(front) + Len(<<e>>)
      /\ \A k \in 1 .. Len(front) + Len(<<e>>) : both[k] = IF k <= Len(front) THEN front[k] ELSE <<e>>[k - Len(front)]
  BY <1>2, <1>4, ConcatProperties
<1> HIDE DEF both
<1>6. both \in Seq(S) /\ back \in Seq(S)
  BY <1>3, <1>5
<1>7. /\ both \o back \in Seq(S) /\ Len(both \o back) = Len(both) + Len(back)
      /\ \A k \in 1 .. Len(both) + Len(back) : (both \o back)[k] = IF k <= Len(both) THEN both[k] ELSE back[k - Len(both)]
  BY <1>6, ConcatProperties
<1>8. /\ Len(both \o back) = Len(s) + 1
      /\ \A k \in 1 .. Len(s) + 1 : (both \o back)[k] = IF k < i THEN s[k] ELSE IF k = i THEN e ELSE s[k - 1]
  BY <1>1, <1>2, <1>3, <1>4, <1>5, <1>7, SMTT(60)
<1>9. InsertAt(s, i, e) = both \o back
  BY DEF InsertAt, front, back, both
<1> QED
  BY <1>7, <1>8, <1>9

\* What deleting a node from a list gives.
LEMMA RemoveAtProperties ==
    ASSUME NEW S, NEW s \in Seq(S), NEW i \in 1 .. Len(s)
    PROVE  /\ RemoveAt(s, i) \in Seq(S)
           /\ Len(RemoveAt(s, i)) = Len(s) - 1
           /\ \A k \in 1 .. Len(s) - 1 : RemoveAt(s, i)[k] = IF k < i THEN s[k] ELSE s[k + 1]
<1> DEFINE front == SubSeq(s, 1, i - 1)
           back == SubSeq(s, i + 1, Len(s))
<1>1. /\ Len(s) \in Nat
      /\ \A k \in 1 .. Len(s) : s[k] \in S
  BY LenProperties
<1>2. /\ front \in Seq(S) /\ Len(front) = i - 1
      /\ \A k \in 1 .. i - 1 : front[k] = s[k]
  BY <1>1, SubSeqProperties
<1>3. /\ back \in Seq(S) /\ Len(back) = Len(s) - i
      /\ \A k \in 1 .. Len(s) - i : back[k] = s[i + k]
  BY <1>1, SubSeqProperties
<1> HIDE DEF front, back
<1>4. /\ front \o back \in Seq(S) /\ Len(front \o back) = Len(front) + Len(back)
      /\ \A k \in 1 .. Len(front) + Len(back) :
            (front \o back)[k] = IF k <= Len(front) THEN front[k] ELSE back[k - Len(front)]
  BY <1>2, <1>3, ConcatProperties, Zenon
<1>5. /\ Len(front \o back) = Len(s) - 1
      /\ \A k \in 1 .. Len(s) - 1 : (front \o back)[k] = IF k < i THEN s[k] ELSE s[k + 1]
  <2>1. Len(front \o back) = Len(s) - 1
    BY <1>1, <1>2, <1>3, <1>4
  <2>2. ASSUME NEW k \in 1 .. Len(s) - 1
        PROVE  (front \o back)[k] = IF k < i THEN s[k] ELSE s[k + 1]
    <3>1. (front \o back)[k] = IF k <= i - 1 THEN front[k] ELSE back[k - (i - 1)]
      BY <1>1, <1>2, <1>3, <1>4
    <3>2. CASE k < i
      BY <1>1, <1>2, <3>1, <3>2
    <3>3. CASE k >= i
      <4>1. k - (i - 1) \in 1 .. Len(s) - i
        BY <1>1, <3>3
      <4> QED
        BY <1>1, <1>3, <3>1, <3>3, <4>1
    <3>4. k < i \/ k >= i
      BY <1>1
    <3> QED
      BY <3>2, <3>3, <3>4, Zenon
  <2> QED
    BY <2>1, <2>2
<1>6. RemoveAt(s, i) = front \o back
  BY DEF RemoveAt, front, back
<1> QED
  BY <1>4, <1>5, <1>6

-----------------------------------------------------------------------------
(* Numbers of 32 bits. *)

\* end + 1 does not wrap for a node that ends below the last page.
LEMMA PastIsNext ==
    ASSUME NEW node \in Nodes, node.last < LastPage
    PROVE  Past(node) = node.last + 1
  BY PagesAssumption DEF Past, Nodes

\* cur_size is the length of the region, for the node at the very end too, where end + 1
\* wraps.
LEMMA SizeIsLength ==
    ASSUME NEW node \in Nodes, MinPage <= node.start, node.start <= node.last, node.last <= LastPage
    PROVE  Size(node) = node.last - node.start + 1
<1>1. CASE node.last < LastPage
  <2>1. Past(node) = node.last + 1
    BY <1>1, PastIsNext
  <2>2. node.last + 1 - node.start \in 0 .. LastPage
    BY PagesAssumption, <1>1 DEF Nodes
  <2> QED
    BY <2>1, <2>2, PagesAssumption DEF Size, Nodes
<1>2. CASE node.last = LastPage
  <2>1. Past(node) = 0
    BY <1>2, PagesAssumption DEF Past, Nodes
  <2>2. (0 - node.start) % (LastPage + 1) = LastPage + 1 - node.start
    BY <1>2, PagesAssumption DEF Nodes
  <2> QED
    BY <2>1, <2>2, <1>2, PagesAssumption DEF Size, Nodes
<1> QED
  BY <1>1, <1>2, PagesAssumption DEF Nodes

-----------------------------------------------------------------------------
(* The pages of a list, and of a list without some of its nodes. *)

Others(l, I) == UNION {Pages(l[k]) : k \in DOMAIN l \ I}

\* The pages of a list are those of one node and those of the others.
LEMMA FreeSplit ==
    ASSUME NEW l \in Seq(Nodes), NEW i \in 1 .. Len(l)
    PROVE  Free(l) = Others(l, {i}) \cup Pages(l[i])
  BY LenProperties DEF Free, Others, Pages

\* Likewise with two nodes set apart.
LEMMA OthersSplit ==
    ASSUME NEW l \in Seq(Nodes), NEW i \in 1 .. Len(l), NEW j \in 1 .. Len(l), i # j
    PROVE  Others(l, {i}) = Others(l, {i, j}) \cup Pages(l[j])
  BY LenProperties DEF Others, Pages

\* A new node adds its pages.
LEMMA FreeInsert ==
    ASSUME NEW l \in Seq(Nodes), NEW i \in 1 .. Len(l) + 1, NEW e \in Nodes
    PROVE  Free(InsertAt(l, i, e)) = Free(l) \cup Pages(e)
<1> DEFINE m == InsertAt(l, i, e)
<1>1. /\ m \in Seq(Nodes) /\ Len(m) = Len(l) + 1
      /\ \A k \in 1 .. Len(l) + 1 : m[k] = IF k < i THEN l[k] ELSE IF k = i THEN e ELSE l[k - 1]
  BY InsertAtProperties
<1>2. /\ Len(l) \in Nat /\ DOMAIN l = 1 .. Len(l) /\ DOMAIN m = 1 .. Len(l) + 1
  BY <1>1, LenProperties
<1> HIDE DEF m
<1>3. ASSUME NEW x \in Free(m)
      PROVE  x \in Free(l) \cup Pages(e)
  <2>1. PICK k \in 1 .. Len(l) + 1 : x \in Pages(m[k])
    BY <1>2, <1>3 DEF Free, Pages
  <2>2. CASE k < i
    BY <1>1, <1>2, <2>1, <2>2 DEF Free, Pages
  <2>3. CASE k = i
    BY <1>1, <2>1, <2>3
  <2>4. CASE k > i
    <3>1. k - 1 \in DOMAIN l /\ m[k] = l[k - 1]
      BY <1>1, <1>2, <2>4
    <3> QED
      BY <3>1, <2>1 DEF Free, Pages
  <2> QED
    BY <1>2, <2>2, <2>3, <2>4
<1>4. ASSUME NEW x \in Free(l)
      PROVE  x \in Free(m)
  <2>1. PICK k \in 1 .. Len(l) : x \in Pages(l[k])
    BY <1>2, <1>4 DEF Free, Pages
  <2>2. CASE k < i
    <3>1. k \in DOMAIN m /\ m[k] = l[k]
      BY <1>1, <1>2, <2>2
    <3> QED
      BY <3>1, <2>1 DEF Free, Pages
  <2>3. CASE k >= i
    <3>1. k + 1 \in DOMAIN m /\ m[k + 1] = l[k]
      BY <1>1, <1>2, <2>3
    <3> QED
      BY <3>1, <2>1 DEF Free, Pages
  <2> QED
    BY <1>2, <2>2, <2>3
<1>5. Pages(e) \subseteq Free(m)
  <2>1. i \in DOMAIN m /\ m[i] = e
    BY <1>1, <1>2
  <2> QED
    BY <2>1 DEF Free, Pages
<1> QED
  BY <1>3, <1>4, <1>5 DEF m

\* A deleted node leaves the pages of the others.
LEMMA FreeRemove ==
    ASSUME NEW l \in Seq(Nodes), NEW i \in 1 .. Len(l)
    PROVE  Free(RemoveAt(l, i)) = Others(l, {i})
<1> DEFINE m == RemoveAt(l, i)
<1>1. /\ m \in Seq(Nodes) /\ Len(m) = Len(l) - 1
      /\ \A k \in 1 .. Len(l) - 1 : m[k] = IF k < i THEN l[k] ELSE l[k + 1]
  BY RemoveAtProperties
<1>2. /\ Len(l) \in Nat /\ DOMAIN l = 1 .. Len(l) /\ DOMAIN m = 1 .. Len(l) - 1
  BY <1>1, LenProperties
<1> HIDE DEF m
<1>3. ASSUME NEW x \in Free(m)
      PROVE  x \in Others(l, {i})
  <2>1. PICK k \in 1 .. Len(l) - 1 : x \in Pages(m[k])
    BY <1>2, <1>3 DEF Free, Pages
  <2>2. PICK j \in DOMAIN l \ {i} : m[k] = l[j]
    <3>1. CASE k < i
      BY <1>1, <1>2, <3>1
    <3>2. CASE k >= i
      <4>1. k + 1 \in DOMAIN l \ {i} /\ m[k] = l[k + 1]
        BY <1>1, <1>2, <3>2
      <4> QED
        BY <4>1
    <3> QED
      BY <1>2, <3>1, <3>2
  <2> QED
    BY <2>1, <2>2 DEF Others
<1>4. ASSUME NEW x \in Others(l, {i})
      PROVE  x \in Free(m)
  <2>1. PICK k \in DOMAIN l \ {i} : x \in Pages(l[k])
    BY <1>4 DEF Others
  <2>2. PICK j \in DOMAIN m : m[j] = l[k]
    <3>1. CASE k < i
      BY <1>1, <1>2, <3>1
    <3>2. CASE k > i
      <4>1. k - 1 \in DOMAIN m /\ m[k - 1] = l[k]
        BY <1>1, <1>2, <3>2
      <4> QED
        BY <4>1
    <3> QED
      BY <1>2, <3>1, <3>2
  <2> QED
    BY <2>1, <2>2 DEF Free, Pages
<1> QED
  BY <1>3, <1>4, Zenon DEF m

\* A changed node changes its own pages only.
LEMMA FreeReplace ==
    ASSUME NEW l \in Seq(Nodes), NEW i \in 1 .. Len(l), NEW e \in Nodes
    PROVE  Free([l EXCEPT ![i] = e]) = Others(l, {i}) \cup Pages(e)
  BY LenProperties DEF Free, Others, Pages

\* Likewise with another node set apart.
LEMMA OthersReplace ==
    ASSUME NEW l \in Seq(Nodes), NEW i \in 1 .. Len(l), NEW j \in 1 .. Len(l), NEW e \in Nodes, i # j
    PROVE  Others([l EXCEPT ![i] = e], {j}) = Others(l, {i, j}) \cup Pages(e)
  BY LenProperties DEF Free, Others, Pages

\* What is left of a node around a part of it.
LEMMA PartOfNode ==
    ASSUME NEW n \in Nodes, NEW p \in Nodes, n.start <= p.start, p.start <= p.last, p.last <= n.last
    PROVE  /\ Pages(p) \subseteq Pages(n)
           /\ p.last = n.last => n.start .. p.start - 1 = Pages(n) \ Pages(p)
           /\ p.start = n.start => p.last + 1 .. n.last = Pages(n) \ Pages(p)
           /\ (n.start .. p.start - 1) \cup (p.last + 1 .. n.last) = Pages(n) \ Pages(p)
<1>1. n.start \in Int /\ n.last \in Int /\ p.start \in Int /\ p.last \in Int
  BY DEF Nodes
<1>2. Pages(p) \subseteq Pages(n)
  BY <1>1 DEF Pages
<1>3. p.last = n.last => n.start .. p.start - 1 = Pages(n) \ Pages(p)
  BY <1>1 DEF Pages
<1>4. p.start = n.start => p.last + 1 .. n.last = Pages(n) \ Pages(p)
  BY <1>1 DEF Pages
<1>5. (n.start .. p.start - 1) \cup (p.last + 1 .. n.last) = Pages(n) \ Pages(p)
  BY <1>1 DEF Pages
<1> QED
  BY <1>2, <1>3, <1>4, <1>5

\* The node that two nodes become has the pages of both, when the second starts
\* within the first or right behind it,
LEMMA JoinedPages ==
    ASSUME NEW a \in Nodes, NEW b \in Nodes, NEW c \in Nodes,
           a.start <= b.start, b.start <= a.last + 1,
           c.start = a.start, c.last >= a.last, c.last >= b.last, c.last = a.last \/ c.last = b.last
    PROVE  Pages(c) = Pages(a) \cup Pages(b)
<1>1. /\ a.start \in Int /\ a.last \in Int /\ b.start \in Int /\ b.last \in Int
      /\ c.start \in Int /\ c.last \in Int
  BY DEF Nodes
<1>2. ASSUME NEW x \in Int
      PROVE  x \in Pages(c) <=> x \in Pages(a) \/ x \in Pages(b)
  BY <1>1 DEF Pages
<1> QED
  BY <1>1, <1>2 DEF Pages

\* and adds nothing to them when the second starts before the first.
LEMMA JoinedBehind ==
    ASSUME NEW a \in Nodes, NEW b \in Nodes, NEW c \in Nodes, b.start < a.start,
           c.start = a.start, c.last >= a.last, c.last >= b.last, c.last = a.last \/ c.last = b.last
    PROVE  Pages(c) \cup Pages(b) = Pages(a) \cup Pages(b)
<1>1. /\ a.start \in Int /\ a.last \in Int /\ b.start \in Int /\ b.last \in Int
      /\ c.start \in Int /\ c.last \in Int
  BY DEF Nodes
<1>2. ASSUME NEW x \in Int
      PROVE  x \in Pages(c) \/ x \in Pages(b) <=> x \in Pages(a) \/ x \in Pages(b)
  BY <1>1 DEF Pages
<1> QED
  BY <1>1, <1>2 DEF Pages

\* Nodes are their numbers.
LEMMA NodeEqual ==
    ASSUME NEW m \in Nodes, NEW n \in Nodes
    PROVE  m = n <=> m.start = n.start /\ m.last = n.last
  BY DEF Nodes

\* What Sound says of the numbers in the list.
LEMMA SoundNumbers ==
    ASSUME NEW l, Sound(l)
    PROVE  /\ l \in Seq(Nodes) /\ Len(l) \in Nat /\ DOMAIN l = 1 .. Len(l) /\ Len(l) > 0
           /\ \A k \in 1 .. Len(l) : /\ l[k] \in Nodes /\ l[k].start \in Nat /\ l[k].last \in Nat
                                     /\ MinPage <= l[k].start /\ l[k].start <= l[k].last /\ l[k].last <= LastPage
                                     /\ (k < Len(l) => l[k].last < LastPage)
           /\ l[Len(l)].last = LastPage
<1>1. /\ l \in Seq(Nodes) /\ Len(l) \in Nat /\ DOMAIN l = 1 .. Len(l) /\ Len(l) > 0
      /\ \A k \in 1 .. Len(l) : l[k] \in Nodes
  BY LenProperties DEF Sound
<1>2. \A k \in 1 .. Len(l) : l[k].start \in Nat /\ l[k].last \in Nat
  BY <1>1 DEF Nodes
<1> QED
  BY <1>1, <1>2, PagesAssumption DEF Sound

-----------------------------------------------------------------------------
(* allocate *)

\* Nodes that are apart share no page.
LEMMA ApartDisjoint ==
    ASSUME NEW l, Sound(l), Apart(l), NEW i \in 1 .. Len(l)
    PROVE  Others(l, {i}) \cap Pages(l[i]) = {}
<1>1. /\ Len(l) \in Nat /\ DOMAIN l = 1 .. Len(l)
      /\ \A k \in 1 .. Len(l) : l[k] \in Nodes
  BY LenProperties DEF Sound
<1>2. ASSUME NEW k \in 1 .. Len(l), k # i, NEW x \in Pages(l[k]), x \in Pages(l[i])
      PROVE  FALSE
  BY <1>1, <1>2 DEF Apart, Pages, Nodes
<1> QED
  BY <1>1, <1>2 DEF Others

\* A list whose nodes are parts of the nodes of a list that is in order, in the same
\* order, is in order.
LEMMA PartsOfNodes ==
    ASSUME NEW l, Sound(l), Apart(l), NEW m \in Seq(Nodes),
           NEW s \in [1 .. Len(m) -> 1 .. Len(l)],
           \A k \in 1 .. Len(m) : l[s[k]].start <= m[k].start /\ m[k].start <= m[k].last /\ m[k].last <= l[s[k]].last,
           \A j, k \in 1 .. Len(m) : j < k => s[j] < s[k] \/ m[j].last + 1 < m[k].start,
           Len(m) > 0, m[Len(m)].last = LastPage
    PROVE  Sound(m) /\ Apart(m)
<1>1. /\ Len(l) \in Nat
      /\ \A k \in 1 .. Len(l) : /\ l[k].start \in Nat /\ l[k].last \in Nat
                                /\ MinPage <= l[k].start /\ l[k].start <= l[k].last
  BY SoundNumbers
<1>2. Len(m) \in Nat /\ \A k \in 1 .. Len(m) : m[k] \in Nodes
  BY LenProperties
<1>3. \A k \in 1 .. Len(m) : m[k].start \in Nat /\ m[k].last \in Nat
  BY <1>2 DEF Nodes
<1>4. \A k \in 1 .. Len(m) : s[k] \in 1 .. Len(l)
  OBVIOUS
<1>5. ASSUME NEW j \in 1 .. Len(m), NEW k \in 1 .. Len(m), j < k
      PROVE  m[j].last + 1 < m[k].start
  <2>1. s[j] < s[k] => l[s[j]].last + 1 < l[s[k]].start
    BY <1>4 DEF Apart
  <2>2. /\ l[s[j]].last \in Nat /\ l[s[k]].start \in Nat
        /\ m[j].last <= l[s[j]].last /\ l[s[k]].start <= m[k].start
        /\ m[j].last \in Nat /\ m[k].start \in Nat
    BY <1>1, <1>3, <1>4
  <2>3. s[j] < s[k] \/ m[j].last + 1 < m[k].start
    BY <1>5
  <2> QED
    BY <2>1, <2>2, <2>3, SMTT(60)
<1>6. Apart(m)
  BY <1>5 DEF Apart
<1>7. ASSUME NEW k \in 1 .. Len(m)
      PROVE  MinPage <= m[k].start /\ m[k].start <= m[k].last
  BY <1>1, <1>3, <1>4, PagesAssumption
<1>8. ASSUME NEW k \in 1 .. Len(m) - 1
      PROVE  m[k].last < LastPage
  <2>1. m[k].last + 1 < m[Len(m)].start
    BY <1>2, <1>5
  <2> QED
    BY <1>2, <1>3, <1>7, <2>1, PagesAssumption
<1> QED
  BY <1>6, <1>7, <1>8 DEF Sound

\* allocate breaks the pages off the node that holds them, and off nothing else.
LEMMA BreakOffProperties ==
    ASSUME NEW part, Asked(part), Sound(list), Apart(list), NEW i \in 1 .. Len(list), Holds(list[i], part)
    PROVE  /\ Sound(BreakOff(part, i)) /\ Apart(BreakOff(part, i))
           /\ Free(BreakOff(part, i)) = Free(list) \ Pages(part)
<1>1. /\ list \in Seq(Nodes) /\ Len(list) \in Nat /\ DOMAIN list = 1 .. Len(list) /\ Len(list) > 0
      /\ \A k \in 1 .. Len(list) : /\ list[k] \in Nodes /\ list[k].start \in Nat /\ list[k].last \in Nat
                                   /\ MinPage <= list[k].start /\ list[k].start <= list[k].last
                                   /\ list[k].last <= LastPage /\ (k < Len(list) => list[k].last < LastPage)
      /\ list[Len(list)].last = LastPage
  BY SoundNumbers
<1>2. /\ part.start \in Nat /\ part.last \in Nat /\ list[i].start \in Nat /\ list[i].last \in Nat
      /\ MinPage <= list[i].start /\ list[i].start <= part.start /\ part.start <= part.last
      /\ part.last <= list[i].last /\ part.last < LastPage
  BY <1>1, PagesAssumption DEF Asked, Nodes, Holds
<1>3. /\ Free(list) = Others(list, {i}) \cup Pages(list[i])
      /\ Others(list, {i}) \cap Pages(list[i]) = {}
  BY <1>1, FreeSplit, ApartDisjoint, Zenon
<1> DEFINE low == Node(list[i].start, part.start - 1)
           high == Node(part.last + 1, list[i].last)
<1>4. low \in Nodes \/ part.start = list[i].start
  BY <1>2 DEF Node, Nodes
<1>5. high \in Nodes
  BY <1>2 DEF Node, Nodes
<1>6. /\ Pages(part) \subseteq Pages(list[i])
      /\ part.last = list[i].last => Pages(low) = Pages(list[i]) \ Pages(part)
      /\ part.start = list[i].start => Pages(high) = Pages(list[i]) \ Pages(part)
      /\ Pages(low) \cup Pages(high) = Pages(list[i]) \ Pages(part)
  <2>1. Pages(low) = list[i].start .. part.start - 1 /\ Pages(high) = part.last + 1 .. list[i].last
    BY DEF Pages, Node
  <2>2. list[i] \in Nodes /\ part \in Nodes
    BY <1>1 DEF Asked
  <2> HIDE DEF low, high
  <2> QED
    BY <1>2, <2>1, <2>2, PartOfNode
<1>7. part = list[i] <=> part.start = list[i].start /\ part.last = list[i].last
  BY <1>1, NodeEqual DEF Asked
<1>8. /\ low.start = list[i].start /\ low.last = part.start - 1
      /\ high.start = part.last + 1 /\ high.last = list[i].last
  BY DEF Node
<1>9. CASE part = list[i]
  <2>1. BreakOff(part, i) = RemoveAt(list, i)
    BY <1>9 DEF BreakOff
  <2>2. i < Len(list)
    BY <1>1, <1>2, <1>9 DEF Sound
  <2> DEFINE m == RemoveAt(list, i)
  <2>3. /\ m \in Seq(Nodes) /\ Len(m) = Len(list) - 1
        /\ \A k \in 1 .. Len(list) - 1 : m[k] = IF k < i THEN list[k] ELSE list[k + 1]
    BY <1>1, RemoveAtProperties, Zenon
  <2>4. Free(m) = Others(list, {i})
    BY <1>1, FreeRemove
  <2> HIDE DEF m
  <2> DEFINE s == [k \in 1 .. Len(m) |-> IF k < i THEN k ELSE k + 1]
  <2>5. Sound(m) /\ Apart(m)
    <3>1. s \in [1 .. Len(m) -> 1 .. Len(list)]
      BY <1>1, <2>2, <2>3
    <3>2. \A k \in 1 .. Len(m) : m[k] = list[s[k]]
      BY <1>1, <2>3
    <3>3. \A j, k \in 1 .. Len(m) : j < k => s[j] < s[k]
      BY <1>1, <2>3
    <3>4. Len(m) > 0 /\ m[Len(m)] = list[Len(list)]
      BY <1>1, <2>2, <2>3
    <3> HIDE DEF s
    <3>5. ASSUME NEW k \in 1 .. Len(m)
          PROVE  list[s[k]].start <= m[k].start /\ m[k].start <= m[k].last /\ m[k].last <= list[s[k]].last
      <4>1. s[k] \in 1 .. Len(list) /\ m[k] = list[s[k]]
        BY <3>1, <3>2
      <4> QED
        BY <1>1, <4>1
    <3> QED
      BY <1>1, <2>3, <3>1, <3>3, <3>4, <3>5, PartsOfNodes, Zenon
  <2> QED
    BY <2>1, <2>4, <2>5, <1>3, <1>9, Zenon DEF m
<1>10. CASE part # list[i] /\ part.last = list[i].last
  <2> DEFINE m == [list EXCEPT ![i] = low]
  <2>1. BreakOff(part, i) = m
    BY <1>10 DEF BreakOff
  <2>2. i < Len(list) /\ low \in Nodes /\ part.start > list[i].start
    BY <1>1, <1>2, <1>4, <1>7, <1>10 DEF Sound
  <2> HIDE DEF low, high
  <2>3. /\ m \in Seq(Nodes) /\ Len(m) = Len(list)
        /\ \A k \in 1 .. Len(list) : m[k] = IF k = i THEN low ELSE list[k]
    BY <1>1, <2>2, ExceptSeq
  <2>4. Free(m) = Others(list, {i}) \cup Pages(low)
    BY <1>1, <2>2, FreeReplace, Zenon
  <2> HIDE DEF m
  <2> DEFINE s == [k \in 1 .. Len(m) |-> k]
  <2>5. Sound(m) /\ Apart(m)
    <3>1. s \in [1 .. Len(m) -> 1 .. Len(list)]
      BY <1>1, <2>3
    <3>2. \A k \in 1 .. Len(m) : list[s[k]].start <= m[k].start /\ m[k].start <= m[k].last /\ m[k].last <= list[s[k]].last
      BY <1>1, <1>2, <1>8, <2>2, <2>3, SMTT(60)
    <3>3. \A j, k \in 1 .. Len(m) : j < k => s[j] < s[k]
      BY <1>1, <2>3
    <3>4. Len(m) > 0 /\ m[Len(m)].last = LastPage
      BY <1>1, <1>8, <2>2, <2>3
    <3> HIDE DEF s
    <3> QED
      BY <2>3, <3>1, <3>2, <3>3, <3>4, PartsOfNodes
  <2> QED
    BY <2>1, <2>4, <2>5, <1>3, <1>6, <1>10, Zenon
<1>11. CASE part # list[i] /\ part.last # list[i].last /\ part.start = list[i].start
  <2> DEFINE m == [list EXCEPT ![i] = high]
  <2>1. BreakOff(part, i) = m
    BY <1>11 DEF BreakOff
  <2>2. part.last < list[i].last
    BY <1>2, <1>11
  <2> HIDE DEF low, high
  <2>3. /\ m \in Seq(Nodes) /\ Len(m) = Len(list)
        /\ \A k \in 1 .. Len(list) : m[k] = IF k = i THEN high ELSE list[k]
    BY <1>1, <1>5, ExceptSeq
  <2>4. Free(m) = Others(list, {i}) \cup Pages(high)
    BY <1>1, <1>5, FreeReplace, Zenon
  <2> HIDE DEF m
  <2> DEFINE s == [k \in 1 .. Len(m) |-> k]
  <2>5. Sound(m) /\ Apart(m)
    <3>1. s \in [1 .. Len(m) -> 1 .. Len(list)]
      BY <1>1, <2>3
    <3>2. \A k \in 1 .. Len(m) : list[s[k]].start <= m[k].start /\ m[k].start <= m[k].last /\ m[k].last <= list[s[k]].last
      BY <1>1, <1>2, <1>8, <2>2, <2>3, SMTT(60)
    <3>3. \A j, k \in 1 .. Len(m) : j < k => s[j] < s[k]
      BY <1>1, <2>3
    <3>4. Len(m) > 0 /\ m[Len(m)].last = LastPage
      BY <1>1, <1>8, <2>2, <2>3
    <3> HIDE DEF s
    <3> QED
      BY <2>3, <3>1, <3>2, <3>3, <3>4, PartsOfNodes
  <2> QED
    BY <2>1, <2>4, <2>5, <1>3, <1>6, <1>11, Zenon
<1>12. CASE part # list[i] /\ part.last # list[i].last /\ part.start # list[i].start
  <2> DEFINE l == [list EXCEPT ![i] = low]
             m == InsertAt(l, i + 1, high)
  <2>1. BreakOff(part, i) = m
    BY <1>12 DEF BreakOff
  <2>2. low \in Nodes /\ part.last < list[i].last /\ part.start > list[i].start
    BY <1>2, <1>4, <1>12
  <2> HIDE DEF low, high
  <2>3. /\ l \in Seq(Nodes) /\ Len(l) = Len(list)
        /\ \A k \in 1 .. Len(list) : l[k] = IF k = i THEN low ELSE list[k]
    BY <1>1, <2>2, ExceptSeq
  <2>4. Free(l) = Others(list, {i}) \cup Pages(low)
    BY <1>1, <2>2, FreeReplace, Zenon
  <2> HIDE DEF l
  <2>5. l \in Seq(Nodes) /\ high \in Nodes /\ i + 1 \in 1 .. Len(l) + 1
    BY <1>1, <1>5, <2>3
  <2>6. /\ m \in Seq(Nodes) /\ Len(m) = Len(l) + 1
        /\ \A k \in 1 .. Len(l) + 1 : m[k] = IF k < i + 1 THEN l[k] ELSE IF k = i + 1 THEN high ELSE l[k - 1]
    BY <2>5, InsertAtProperties, SMTT(60)
  <2>7. Free(m) = Free(l) \cup Pages(high)
    BY <2>5, FreeInsert
  <2> HIDE DEF m
  <2>8. /\ Len(m) = Len(list) + 1
        /\ \A k \in 1 .. Len(list) + 1 :
              m[k] = IF k < i THEN list[k] ELSE IF k = i THEN low ELSE IF k = i + 1 THEN high ELSE list[k - 1]
    <3>1. Len(m) = Len(list) + 1
      BY <2>3, <2>6
    <3>2. ASSUME NEW k \in 1 .. Len(list) + 1
          PROVE  m[k] = IF k < i THEN list[k] ELSE IF k = i THEN low ELSE IF k = i + 1 THEN high ELSE list[k - 1]
      <4>1. CASE k <= i
        BY <1>1, <2>3, <2>6, <4>1, SMTT(60)
      <4>2. CASE k = i + 1
        BY <1>1, <2>3, <2>6, <4>2
      <4>3. CASE k > i + 1
        <5>1. k - 1 \in 1 .. Len(list) /\ k - 1 # i
          BY <1>1, <4>3
        <5>2. m[k] = l[k - 1]
          BY <1>1, <2>3, <2>6, <4>3
        <5>3. l[k - 1] = list[k - 1]
          BY <2>3, <5>1
        <5> QED
          BY <1>1, <4>3, <5>2, <5>3
      <4> QED
        BY <1>1, <4>1, <4>2, <4>3
    <3> QED
      BY <3>1, <3>2
  <2> DEFINE s == [k \in 1 .. Len(m) |-> IF k <= i THEN k ELSE k - 1]
  <2>9. Sound(m) /\ Apart(m)
    <3>1. s \in [1 .. Len(m) -> 1 .. Len(list)]
      BY <1>1, <2>8
    <3>2. ASSUME NEW k \in 1 .. Len(m)
          PROVE  list[s[k]].start <= m[k].start /\ m[k].start <= m[k].last /\ m[k].last <= list[s[k]].last
      <4>1. CASE k < i
        BY <1>1, <2>8, <4>1
      <4>2. CASE k = i
        BY <1>1, <1>2, <1>8, <2>2, <2>8, <4>2
      <4>3. CASE k = i + 1
        <5>1. m[k] = high /\ s[k] = i
          BY <1>1, <2>8, <4>3
        <5> QED
          BY <1>2, <1>8, <2>2, <5>1, SMTT(60)
      <4>4. CASE k > i + 1
        <5>1. m[k] = list[k - 1] /\ s[k] = k - 1 /\ k - 1 \in 1 .. Len(list)
          BY <1>1, <2>8, <4>4
        <5> QED
          BY <1>1, <5>1
      <4> QED
        BY <1>1, <2>8, <4>1, <4>2, <4>3, <4>4
    <3>3. ASSUME NEW j \in 1 .. Len(m), NEW k \in 1 .. Len(m), j < k
          PROVE  s[j] < s[k] \/ m[j].last + 1 < m[k].start
      <4>1. CASE j = i /\ k = i + 1
        <5>1. m[j] = low /\ m[k] = high
          BY <1>1, <2>8, <4>1
        <5> QED
          BY <1>2, <1>8, <2>2, <5>1
      <4>2. CASE ~(j = i /\ k = i + 1)
        BY <1>1, <2>8, <3>3, <4>2
      <4> QED
        BY <4>1, <4>2
    <3>4. Len(m) > 0 /\ m[Len(m)].last = LastPage
      BY <1>1, <1>8, <2>2, <2>8
    <3> HIDE DEF s
    <3> QED
      BY <2>6, <3>1, <3>2, <3>3, <3>4, PartsOfNodes, Zenon
  <2> QED
    BY <2>1, <2>4, <2>7, <2>9, <1>3, <1>6, Zenon
<1> QED
  BY <1>9, <1>10, <1>11, <1>12

\* A free region lies in one node, because nodes do not touch.
LEMMA FreeInOneNode ==
    ASSUME Sound(list), Apart(list), NEW part \in Nodes, part.start <= part.last
    PROVE  Pages(part) \subseteq Free(list) <=> \E i \in 1 .. Len(list) : Holds(list[i], part)
<1>1. /\ Len(list) \in Nat /\ DOMAIN list = 1 .. Len(list)
      /\ \A k \in 1 .. Len(list) : /\ list[k].start \in Nat /\ list[k].last \in Nat
                                   /\ list[k].start <= list[k].last
  BY SoundNumbers
<1>2. part.start \in Nat /\ part.last \in Nat
  BY DEF Nodes
<1>3. ASSUME NEW i \in 1 .. Len(list), Holds(list[i], part)
      PROVE  Pages(part) \subseteq Free(list)
  <2>1. Pages(part) \subseteq Pages(list[i])
    BY <1>1, <1>2, <1>3 DEF Holds, Pages
  <2> QED
    BY <1>1, <2>1 DEF Free, Pages
<1>4. ASSUME Pages(part) \subseteq Free(list)
      PROVE  \E i \in 1 .. Len(list) : Holds(list[i], part)
  <2>1. \A x \in part.start .. part.last : \E k \in 1 .. Len(list) : list[k].start <= x /\ x <= list[k].last
    BY <1>1, <1>4 DEF Free, Pages
  <2>2. PICK i \in 1 .. Len(list) : list[i].start <= part.start /\ part.start <= list[i].last
    BY <1>2, <2>1
  <2>3. ASSUME part.last > list[i].last
        PROVE  FALSE
    <3>1. list[i].last + 1 \in part.start .. part.last
      BY <1>1, <1>2, <2>2, <2>3
    <3>2. PICK j \in 1 .. Len(list) : list[j].start <= list[i].last + 1 /\ list[i].last + 1 <= list[j].last
      BY <2>1, <3>1
    <3>3. CASE j = i
      BY <1>1, <3>2, <3>3
    <3>4. CASE i < j
      BY <1>1, <3>2, <3>4 DEF Apart
    <3>5. CASE j < i
      BY <1>1, <3>2, <3>5 DEF Apart
    <3> QED
      BY <1>1, <3>3, <3>4, <3>5
  <2> QED
    BY <1>1, <1>2, <2>2, <2>3 DEF Holds
<1> QED
  BY <1>3, <1>4

\* allocate at an address: it takes the pages when they are free, and fails
\* otherwise.
LEMMA AllocateStep ==
    ASSUME Sound(list), Apart(list), NEW part, Asked(part), Allocate(part)
    PROVE  /\ Sound(list)' /\ Apart(list)'
           /\ \/ /\ Pages(part) \subseteq Free(list)
                 /\ Free(list)' = Free(list) \ Pages(part) /\ res' = part.start
              \/ /\ ~(Pages(part) \subseteq Free(list))
                 /\ list' = list /\ res' = ENOMEM
<1>1. DOMAIN list = 1 .. Len(list)
  BY SoundNumbers
<1>2. part \in Nodes /\ part.start <= part.last
  BY DEF Asked
<1>3. ASSUME NEW i \in 1 .. Len(list), FirstHolding(part, i), list' = BreakOff(part, i), res' = part.start
      PROVE  /\ Sound(list)' /\ Apart(list)' /\ Pages(part) \subseteq Free(list)
             /\ Free(list)' = Free(list) \ Pages(part)
  <2>1. Holds(list[i], part)
    BY <1>3 DEF FirstHolding
  <2>2. Pages(part) \subseteq Free(list)
    BY <2>1, <1>2, FreeInOneNode
  <2>3. Sound(BreakOff(part, i)) /\ Apart(BreakOff(part, i)) /\ Free(BreakOff(part, i)) = Free(list) \ Pages(part)
    BY <2>1, BreakOffProperties
  <2>4. Sound(list') /\ Apart(list') /\ Free(list') = Free(list) \ Pages(part)
    BY <2>3, <1>3
  <2> QED
    BY <2>2, <2>4, Zenon DEF Sound, Apart, Free
<1>4. ASSUME \A i \in 1 .. Len(list) : ~Holds(list[i], part), list' = list, res' = ENOMEM
      PROVE  Sound(list)' /\ Apart(list)' /\ ~(Pages(part) \subseteq Free(list))
  <2>1. ~(Pages(part) \subseteq Free(list))
    BY <1>4, <1>2, FreeInOneNode
  <2> QED
    BY <1>4, <2>1 DEF Sound, Apart
<1> QED
  BY <1>1, <1>3, <1>4 DEF Allocate

\* allocate anywhere fails only when no region is large enough.
LEMMA AnywhereStep ==
    ASSUME Sound(list), Apart(list), NEW n \in 1 .. MaxSize, AllocateAny(n)
    PROVE  /\ Sound(list)' /\ Apart(list)'
           /\ \/ \E a \in MinPage .. LastPage :
                     /\ a .. a + n - 1 \subseteq Free(list)
                     /\ Free(list)' = Free(list) \ (a .. a + n - 1) /\ res' = a
              \/ /\ \A a \in MinPage .. LastPage : ~(a .. a + n - 1 \subseteq Free(list))
                 /\ list' = list /\ res' = ENOMEM
<1>1. /\ Len(list) \in Nat /\ DOMAIN list = 1 .. Len(list)
      /\ \A k \in 1 .. Len(list) : /\ list[k] \in Nodes /\ list[k].start \in Nat /\ list[k].last \in Nat
                                   /\ MinPage <= list[k].start /\ list[k].start <= list[k].last
                                   /\ list[k].last <= LastPage
  BY SoundNumbers
<1>2. n \in Nat /\ n > 0
  BY PagesAssumption
<1>3. \A k \in 1 .. Len(list) : Size(list[k]) = list[k].last - list[k].start + 1
  BY <1>1, SizeIsLength
<1>4. ASSUME NEW i \in 1 .. Len(list), Best(n, i), list[i].start + n - 1 <= TopPage,
             Allocate(Node(list[i].start, list[i].start + n - 1))
      PROVE  /\ Sound(list)' /\ Apart(list)'
             /\ \E a \in MinPage .. LastPage :
                     /\ a .. a + n - 1 \subseteq Free(list)
                     /\ Free(list)' = Free(list) \ (a .. a + n - 1) /\ res' = a
  <2> DEFINE part == Node(list[i].start, list[i].start + n - 1)
  <2>1. part.start = list[i].start /\ part.last = list[i].start + n - 1
    BY DEF Node
  <2>2. part \in Nodes
    BY <1>1, <1>2 DEF Node, Nodes
  <2> HIDE DEF part
  <2>3. Asked(part)
    BY <1>1, <1>2, <1>4, <2>1, <2>2 DEF Asked
  <2>4. Size(list[i]) >= n
    BY <1>4 DEF Best
  <2>5. Holds(list[i], part)
    BY <1>1, <1>2, <1>3, <2>1, <2>4 DEF Holds
  <2>6. Pages(part) \subseteq Free(list)
    BY <2>2, <2>3, <2>5, FreeInOneNode DEF Asked
  <2>7. Allocate(part)
    BY <1>4 DEF part
  <2>8. /\ Sound(list)' /\ Apart(list)'
        /\ Free(list)' = Free(list) \ Pages(part) /\ res' = part.start
    BY <2>3, <2>6, <2>7, AllocateStep
  <2>9. list[i].start \in MinPage .. LastPage
    BY <1>1, PagesAssumption
  <2> QED
    BY <2>1, <2>6, <2>8, <2>9 DEF Pages
<1>5. ASSUME \A i \in 1 .. Len(list) : Size(list[i]) < n, list' = list, res' = ENOMEM
      PROVE  /\ Sound(list)' /\ Apart(list)'
             /\ \A a \in MinPage .. LastPage : ~(a .. a + n - 1 \subseteq Free(list))
  <2>1. ASSUME NEW a \in MinPage .. LastPage, a .. a + n - 1 \subseteq Free(list)
        PROVE  FALSE
    <3> DEFINE part == Node(a, a + n - 1)
    <3>1. a \in Nat
      BY PagesAssumption
    <3>2. part \in Nodes /\ part.start = a /\ part.last = a + n - 1
      BY <1>2, <3>1 DEF Node, Nodes
    <3> HIDE DEF part
    <3>3. PICK i \in 1 .. Len(list) : Holds(list[i], part)
      BY <1>2, <2>1, <3>1, <3>2, FreeInOneNode DEF Pages
    <3> QED
      BY <1>1, <1>2, <1>3, <1>5, <3>1, <3>2, <3>3 DEF Holds
  <2> QED
    BY <1>5, <2>1 DEF Sound, Apart
<1> QED
  BY <1>1, <1>4, <1>5, Zenon DEF AllocateAny

-----------------------------------------------------------------------------
(* deallocate and consolidate. *)

\* The new node goes into the list: it or an earlier node holds the region, and
\* the walk is past every node that starts at or below it.
LEMMA InsertedList ==
    ASSUME Sound(list), NEW part, Asked(part), NEW c \in 1 .. Len(list), list[c].start >= part.start,
           \/ Apart(list) /\ Below(list, c, part)
           \/ \E f \in 1 .. c - 1 : Covered(list, f, part) /\ Ahead(list, c, part)
    PROVE  /\ Sound(InsertAt(list, c, part))
           /\ \E f \in 1 .. c + 1 : Covered(InsertAt(list, c, part), f, part)
           /\ Ahead(InsertAt(list, c, part), c + 2, part)
<1> DEFINE m == InsertAt(list, c, part)
<1>1. /\ list \in Seq(Nodes) /\ Len(list) \in Nat /\ Len(list) > 0
      /\ \A k \in 1 .. Len(list) : /\ list[k] \in Nodes /\ list[k].start \in Nat /\ list[k].last \in Nat
                                   /\ MinPage <= list[k].start /\ list[k].start <= list[k].last
                                   /\ list[k].last <= LastPage
                                   /\ (k < Len(list) => list[k].last < LastPage)
      /\ list[Len(list)].last = LastPage
  BY SoundNumbers
<1>2. /\ part \in Nodes /\ part.start \in Nat /\ part.last \in Nat /\ MinPage <= part.start
      /\ part.start <= part.last /\ part.last < LastPage
  BY PagesAssumption DEF Asked, Nodes
<1>3. c \in Nat /\ c \in 1 .. Len(list) + 1
  BY <1>1
<1>4. /\ m \in Seq(Nodes) /\ Len(m) = Len(list) + 1
      /\ \A k \in 1 .. Len(list) + 1 : m[k] = IF k < c THEN list[k] ELSE IF k = c THEN part ELSE list[k - 1]
  BY <1>1, <1>2, <1>3, InsertAtProperties
<1> HIDE DEF m
<1>5. \A k \in 1 .. Len(m) : k < c => k \in 1 .. Len(list) /\ m[k] = list[k]
  BY <1>1, <1>3, <1>4
<1>6. c \in 1 .. Len(m) /\ m[c] = part
  BY <1>1, <1>3, <1>4
<1>7. \A k \in 1 .. Len(m) : k > c => k - 1 \in 1 .. Len(list) /\ k - 1 >= c /\ m[k] = list[k - 1]
  BY <1>1, <1>3, <1>4
<1>8. Sound(m)
  <2>1. ASSUME NEW k \in 1 .. Len(m)
        PROVE  MinPage <= m[k].start /\ m[k].start <= m[k].last
    <3>1. CASE k < c
      BY <1>1, <1>5, <3>1
    <3>2. CASE k = c
      BY <1>2, <1>6, <3>2
    <3>3. CASE k > c
      <4>1. k - 1 \in 1 .. Len(list) /\ m[k] = list[k - 1]
        BY <1>7, <3>3
      <4> QED
        BY <1>1, <4>1
    <3> QED
      BY <1>3, <3>1, <3>2, <3>3
  <2>2. Len(m) > 0 /\ m[Len(m)].last = LastPage
    <3>1. Len(m) \in 1 .. Len(m) /\ Len(m) > c /\ Len(m) - 1 = Len(list)
      BY <1>1, <1>3, <1>4
    <3> QED
      BY <1>1, <1>7, <3>1
  <2>3. ASSUME NEW k \in 1 .. Len(m) - 1
        PROVE  m[k].last < LastPage
    <3>1. CASE k < c
      BY <1>1, <1>3, <1>4, <1>5, <3>1
    <3>2. CASE k = c
      BY <1>2, <1>6, <3>2
    <3>3. CASE k > c
      <4>1. k - 1 \in 1 .. Len(list) /\ k - 1 < Len(list) /\ m[k] = list[k - 1]
        BY <1>1, <1>3, <1>4, <1>7, <3>3
      <4> QED
        BY <1>1, <4>1
    <3> QED
      BY <1>3, <3>1, <3>2, <3>3
  <2> QED
    BY <1>4, <2>1, <2>2, <2>3 DEF Sound
<1>9. CASE Apart(list) /\ Below(list, c, part)
  <2>1. ASSUME NEW j \in 1 .. Len(list), NEW k \in 1 .. Len(list), j < k
        PROVE  list[j].start < list[k].start
    <3>1. list[j].last + 1 < list[k].start
      BY <1>9, <2>1 DEF Apart
    <3> QED
      BY <1>1, <3>1
  <2>2. ASSUME NEW j \in 1 .. Len(list), j < c
        PROVE  list[j].start < part.start
    BY <1>3, <1>9, <2>2 DEF Below
  <2>3. ASSUME NEW k \in 1 .. Len(list), k >= c
        PROVE  list[k].start >= part.start
    <3>1. CASE k = c
      BY <3>1
    <3>2. CASE c < k
      <4>1. list[c].start < list[k].start
        BY <2>1, <3>2
      <4> QED
        BY <1>1, <1>2, <4>1
    <3> QED
      BY <1>3, <2>3, <3>1, <3>2
  <2>4. Holds(m[c], part)
    BY <1>2, <1>6 DEF Holds
  <2>5. ASSUME NEW k \in c + 1 .. Len(m)
        PROVE  m[k].start >= part.start
    <3>1. k \in 1 .. Len(m) /\ k > c
      BY <1>3
    <3> QED
      BY <1>7, <2>3, <3>1
  <2>6. ASSUME NEW k \in 1 .. Len(m), NEW j \in 1 .. k - 1
        PROVE  m[j].start <= m[k].start
    <3>1. j \in 1 .. Len(m) /\ j < k
      OBVIOUS
    <3>2. CASE k < c
      <4>1. j \in 1 .. Len(list) /\ k \in 1 .. Len(list) /\ m[j] = list[j] /\ m[k] = list[k]
        BY <1>3, <1>5, <3>1, <3>2
      <4>2. list[j].start < list[k].start
        BY <2>1, <3>1, <4>1
      <4> QED
        BY <1>1, <4>1, <4>2
    <3>3. CASE k = c
      <4>1. j \in 1 .. Len(list) /\ j < c /\ m[j] = list[j]
        BY <1>3, <1>5, <3>1, <3>3
      <4>2. list[j].start < part.start
        BY <2>2, <4>1
      <4> QED
        BY <1>1, <1>2, <1>6, <3>3, <4>1, <4>2
    <3>4. CASE k > c
      <4>1. k - 1 \in 1 .. Len(list) /\ k - 1 >= c /\ m[k] = list[k - 1]
        BY <1>7, <3>4
      <4>2. CASE j < c
        <5>1. j \in 1 .. Len(list) /\ j < k - 1 /\ m[j] = list[j]
          BY <1>3, <1>5, <3>1, <4>1, <4>2
        <5>2. list[j].start < list[k - 1].start
          BY <2>1, <4>1, <5>1
        <5> QED
          BY <1>1, <4>1, <5>1, <5>2
      <4>3. CASE j = c
        <5>1. list[k - 1].start >= part.start
          BY <2>3, <4>1
        <5> QED
          BY <1>1, <1>2, <1>6, <4>1, <4>3, <5>1
      <4>4. CASE j > c
        <5>1. j - 1 \in 1 .. Len(list) /\ j - 1 < k - 1 /\ m[j] = list[j - 1]
          BY <1>7, <3>1, <4>4
        <5>2. list[j - 1].start < list[k - 1].start
          BY <2>1, <4>1, <5>1
        <5> QED
          BY <1>1, <4>1, <5>1, <5>2, SMTT(60)
      <4> QED
        BY <1>3, <4>2, <4>3, <4>4
    <3> QED
      BY <1>3, <3>2, <3>3, <3>4
  <2>7. Covered(m, c, part)
    BY <1>6, <2>4, <2>5, <2>6 DEF Covered
  <2>8. ASSUME NEW k \in c + 2 .. Len(m)
        PROVE  m[k].start > part.start
    <3>1. k - 1 \in 1 .. Len(list) /\ c < k - 1 /\ m[k] = list[k - 1]
      BY <1>3, <1>7
    <3>2. list[c].start < list[k - 1].start
      BY <2>1, <3>1
    <3> QED
      BY <1>1, <1>2, <3>1, <3>2, SMTT(60)
  <2>9. Ahead(m, c + 2, part)
    BY <2>8 DEF Ahead
  <2>10. c \in 1 .. c + 1
    BY <1>3
  <2> QED
    BY <1>8, <2>7, <2>9, <2>10 DEF m
<1>10. CASE \E f \in 1 .. c - 1 : Covered(list, f, part) /\ Ahead(list, c, part)
  <2>1. PICK f \in 1 .. c - 1 : Covered(list, f, part) /\ Ahead(list, c, part)
    BY <1>10
  <2>2. ASSUME NEW k \in 1 .. Len(list), k >= c
        PROVE  list[k].start > part.start
    BY <1>1, <1>3, <2>1, <2>2 DEF Ahead
  <2>3. f \in 1 .. Len(m) /\ Holds(m[f], part)
    BY <1>1, <1>3, <1>4, <1>5, <2>1 DEF Covered
  <2>4. ASSUME NEW k \in f + 1 .. Len(m)
        PROVE  m[k].start >= part.start
    <3>1. k \in 1 .. Len(m) /\ k > f
      BY <2>1
    <3>2. CASE k < c
      <4>1. k \in f + 1 .. Len(list) /\ m[k] = list[k]
        BY <1>5, <3>1, <3>2
      <4> QED
        BY <2>1, <4>1 DEF Covered
    <3>3. CASE k = c
      BY <1>2, <1>6, <3>3
    <3>4. CASE k > c
      <4>1. k - 1 \in 1 .. Len(list) /\ k - 1 >= c /\ m[k] = list[k - 1]
        BY <1>7, <3>1, <3>4
      <4>2. list[k - 1].start > part.start
        BY <2>2, <4>1
      <4> QED
        BY <1>1, <1>2, <4>1, <4>2, SMTT(60)
    <3> QED
      BY <1>3, <3>1, <3>2, <3>3, <3>4
  <2>5. ASSUME NEW k \in 1 .. Len(m)
        PROVE  (k > f /\ m[k] = part) \/ \A j \in 1 .. k - 1 : m[j].start <= m[k].start
    <3>1. CASE k < c
      <4>1. k \in 1 .. Len(list) /\ m[k] = list[k]
        BY <1>5, <3>1
      <4>2. \A j \in 1 .. k - 1 : m[j] = list[j]
        BY <1>3, <1>5, <3>1
      <4>3. (k > f /\ list[k] = part) \/ \A j \in 1 .. k - 1 : list[j].start <= list[k].start
        BY <2>1, <4>1 DEF Covered
      <4> QED
        BY <4>1, <4>2, <4>3
    <3>2. CASE k = c
      BY <1>3, <1>6, <2>1, <3>2
    <3>3. CASE k > c
      <4>1. k - 1 \in 1 .. Len(list) /\ k - 1 >= c /\ m[k] = list[k - 1]
        BY <1>7, <3>3
      <4>2. list[k - 1].start > part.start
        BY <2>2, <4>1
      <4>3. list[k - 1] # part
        BY <1>1, <1>2, <4>1, <4>2
      <4>4. \A j \in 1 .. (k - 1) - 1 : list[j].start <= list[k - 1].start
        BY <2>1, <4>1, <4>3 DEF Covered
      <4>5. ASSUME NEW j \in 1 .. k - 1
            PROVE  m[j].start <= m[k].start
        <5>1. CASE j < c
          <6>1. j \in 1 .. (k - 1) - 1 /\ m[j] = list[j]
            BY <1>3, <1>5, <4>1, <5>1
          <6> QED
            BY <4>1, <4>4, <6>1
        <5>2. CASE j = c
          BY <1>1, <1>2, <1>6, <4>1, <4>2, <5>2, SMTT(60)
        <5>3. CASE j > c
          <6>1. j - 1 \in 1 .. (k - 1) - 1 /\ m[j] = list[j - 1]
            BY <1>3, <1>7, <4>1, <5>3
          <6> QED
            BY <4>1, <4>4, <6>1
        <5> QED
          BY <1>3, <5>1, <5>2, <5>3
      <4> QED
        BY <4>5
    <3> QED
      BY <1>3, <3>1, <3>2, <3>3
  <2>6. Covered(m, f, part)
    BY <2>3, <2>4, <2>5 DEF Covered
  <2>7. ASSUME NEW k \in c + 2 .. Len(m)
        PROVE  m[k].start > part.start
    <3>1. k - 1 \in 1 .. Len(list) /\ k - 1 >= c /\ m[k] = list[k - 1]
      BY <1>3, <1>7
    <3> QED
      BY <2>2, <3>1
  <2>8. Ahead(m, c + 2, part)
    BY <2>7 DEF Ahead
  <2>9. f \in 1 .. c + 1
    BY <1>3, <2>1
  <2> QED
    BY <1>8, <2>6, <2>8, <2>9 DEF m
<1> QED
  BY <1>9, <1>10

\* While two neighbours do not touch, the second is no copy of the region behind
\* the node that holds it.
LEMMA NoCopyBehindGap ==
    ASSUME Sound(list), NEW part, Asked(part), NEW f \in 1 .. Len(list), Covered(list, f, part),
           NEW i \in 1 .. Len(list), i > f, ~Touch(i - 1)
    PROVE  list[i] # part
<1>1. /\ Len(list) \in Nat
      /\ \A k \in 1 .. Len(list) : /\ list[k] \in Nodes /\ list[k].start \in Nat /\ list[k].last \in Nat
                                   /\ list[k].start <= list[k].last
                                   /\ (k < Len(list) => list[k].last < LastPage)
  BY SoundNumbers
<1>2. i - 1 \in 1 .. Len(list) /\ i - 1 < Len(list) /\ i - 1 >= f /\ (i - 1) + 1 = i
  BY <1>1
<1>3. part.start \in Nat /\ part.last \in Nat /\ part.start <= part.last
  BY DEF Asked, Nodes
<1>4. Past(list[i - 1]) = list[i - 1].last + 1
  BY <1>1, <1>2, PastIsNext
<1>5. list[i - 1].last + 1 < list[i].start
  BY <1>1, <1>2, <1>4 DEF Touch
<1>6. list[i - 1].last >= part.start
  <2>1. CASE i - 1 = f
    BY <1>1, <1>2, <1>3, <2>1 DEF Covered, Holds
  <2>2. CASE i - 1 > f
    BY <1>1, <1>2, <1>3, <2>2, SMTT(60) DEF Covered
  <2> QED
    BY <1>2, <2>1, <2>2
<1> QED
  BY <1>1, <1>2, <1>3, <1>5, <1>6

\* Two neighbours that touch become one node, and with the region counted in, the
\* same pages are free.
LEMMA MergedList ==
    ASSUME Sound(list), NEW part, Asked(part), NEW f \in 1 .. Len(list), Covered(list, f, part),
           NEW i \in 1 .. Len(list), Touch(i), \A j \in 1 .. i - 1 : ~Touch(j)
    PROVE  /\ Sound(Merged(i)) /\ \E g \in 1 .. Len(Merged(i)) : Covered(Merged(i), g, part)
           /\ Free(Merged(i)) \cup Pages(part) = Free(list) \cup Pages(part)
<1>1. /\ list \in Seq(Nodes) /\ Len(list) \in Nat /\ Len(list) > 0 /\ DOMAIN list = 1 .. Len(list)
      /\ \A k \in 1 .. Len(list) : /\ list[k] \in Nodes /\ list[k].start \in Nat /\ list[k].last \in Nat
                                   /\ MinPage <= list[k].start /\ list[k].start <= list[k].last
                                   /\ list[k].last <= LastPage
                                   /\ (k < Len(list) => list[k].last < LastPage)
      /\ list[Len(list)].last = LastPage
  BY SoundNumbers
<1>2. part \in Nodes /\ part.start \in Nat /\ part.last \in Nat /\ part.start <= part.last
  BY DEF Asked, Nodes
<1>3. i \in Nat /\ i < Len(list) /\ i + 1 \in 1 .. Len(list) /\ i + 1 # i
  BY <1>1 DEF Touch
<1>4. list[i + 1].start <= list[i].last + 1
  <2>1. Past(list[i]) = list[i].last + 1
    BY <1>1, <1>3, PastIsNext
  <2> QED
    BY <1>1, <1>3, <2>1 DEF Touch
<1> DEFINE both == Joined(i)
           l == [list EXCEPT ![i] = both]
           m == Merged(i)
<1>5. /\ both \in Nodes /\ both.start \in Nat /\ both.last \in Nat
      /\ both.start = list[i].start
      /\ both.last >= list[i].last /\ both.last >= list[i + 1].last
      /\ both.last = list[i].last \/ both.last = list[i + 1].last
  <2>1. both.start = list[i].start /\ both.last = IF list[i].last >= list[i + 1].last THEN list[i].last ELSE list[i + 1].last
    BY DEF Joined, Node
  <2>2. both.last \in Nat
    BY <1>1, <1>3, <2>1
  <2>3. both \in Nodes
    BY <1>1, <2>1, <2>2 DEF Joined, Node, Nodes
  <2> HIDE DEF both
  <2> QED
    BY <1>1, <1>3, <2>1, <2>2, <2>3
<1>6. m = RemoveAt(l, i + 1)
  BY DEF Merged
<1> HIDE DEF both, m
<1>7. /\ l \in Seq(Nodes) /\ Len(l) = Len(list) /\ i + 1 \in 1 .. Len(l)
      /\ \A k \in 1 .. Len(list) : l[k] = IF k = i THEN both ELSE list[k]
  BY <1>1, <1>3, <1>5
<1> HIDE DEF l
<1>8. /\ m \in Seq(Nodes) /\ Len(m) = Len(list) - 1
      /\ \A k \in 1 .. Len(list) - 1 : m[k] = IF k < i + 1 THEN l[k] ELSE l[k + 1]
  BY <1>6, <1>7, RemoveAtProperties, Zenon
<1>9. i \in 1 .. Len(m) /\ m[i] = both
  <2>1. i \in 1 .. Len(list) - 1 /\ i < i + 1 /\ Len(list) \in Nat
    BY <1>1, <1>3
  <2> QED
    BY <1>7, <1>8, <2>1
<1>10. ASSUME NEW k \in 1 .. Len(m), k < i
       PROVE  k \in 1 .. Len(list) /\ m[k] = list[k]
  <2>1. k \in 1 .. Len(list) - 1 /\ k \in 1 .. Len(list) /\ k < i + 1 /\ k # i
    BY <1>1, <1>3, <1>8, <1>10
  <2> QED
    BY <1>7, <1>8, <2>1
<1>11. ASSUME NEW k \in 1 .. Len(m), k > i
       PROVE  k + 1 \in 1 .. Len(list) /\ m[k] = list[k + 1]
  <2>1. k \in 1 .. Len(list) - 1 /\ k + 1 \in 1 .. Len(list) /\ ~(k < i + 1) /\ k + 1 # i
    BY <1>1, <1>3, <1>8, <1>11
  <2> QED
    BY <1>7, <1>8, <2>1
<1>12. Sound(m)
  <2>1. ASSUME NEW k \in 1 .. Len(m)
        PROVE  MinPage <= m[k].start /\ m[k].start <= m[k].last
    <3>1. CASE k < i
      BY <1>1, <1>10, <3>1
    <3>2. CASE k = i
      BY <1>1, <1>5, <1>9, <3>2
    <3>3. CASE k > i
      BY <1>1, <1>11, <3>3
    <3> QED
      BY <1>3, <3>1, <3>2, <3>3
  <2>2. Len(m) > 0 /\ m[Len(m)].last = LastPage
    <3>1. Len(m) \in 1 .. Len(m) /\ Len(m) > 0
      BY <1>1, <1>3, <1>8
    <3>2. CASE i = Len(m)
      <4>1. i + 1 = Len(list)
        BY <1>1, <1>8, <3>2
      <4> QED
        BY <1>1, <1>5, <1>9, <3>1, <3>2, <4>1
    <3>3. CASE i < Len(m)
      <4>1. m[Len(m)] = list[Len(m) + 1] /\ Len(m) + 1 = Len(list)
        BY <1>1, <1>8, <1>11, <3>1, <3>3
      <4> QED
        BY <1>1, <3>1, <4>1
    <3> QED
      BY <1>9, <3>2, <3>3
  <2>3. ASSUME NEW k \in 1 .. Len(m) - 1
        PROVE  m[k].last < LastPage
    <3>1. k \in 1 .. Len(m) /\ k + 1 < Len(list)
      BY <1>1, <1>8
    <3>2. CASE k < i
      BY <1>1, <1>3, <1>10, <3>1, <3>2
    <3>3. CASE k = i
      BY <1>1, <1>3, <1>5, <1>9, <3>1, <3>3
    <3>4. CASE k > i
      BY <1>1, <1>11, <3>1, <3>4, Zenon
    <3> QED
      BY <1>3, <3>2, <3>3, <3>4
  <2> QED
    BY <1>8, <2>1, <2>2, <2>3 DEF Sound
<1>13. ASSUME NEW k \in 1 .. Len(list)
       PROVE  (k > f /\ list[k] = part) \/ \A j \in 1 .. k - 1 : list[j].start <= list[k].start
  BY DEF Covered
<1>14. \A j \in 1 .. i - 1 : list[j].start <= list[i].start
  <2>1. CASE i > f
    <3>1. ~Touch(i - 1)
      BY <1>3, <2>1
    <3>2. list[i] # part
      BY <2>1, <3>1, NoCopyBehindGap
    <3> QED
      BY <1>13, <3>2
  <2>2. CASE ~(i > f)
    BY <1>13, <2>2
  <2> QED
    BY <2>1, <2>2
<1> DEFINE g == IF i < f THEN f - 1 ELSE f
<1>15. g \in 1 .. Len(m) /\ (i < f => g = f - 1) /\ (i >= f => g = f)
  BY <1>1, <1>3, <1>8
<1> HIDE DEF g
<1>16. Holds(list[f], part)
  BY DEF Covered
<1>17. Holds(m[g], part)
  <2>1. CASE f < i
    <3>1. g = f /\ m[g] = list[f]
      BY <1>3, <1>10, <1>15, <2>1
    <3> QED
      BY <1>16, <3>1
  <2>2. CASE f = i
    <3>1. g = i /\ m[g] = both
      BY <1>9, <1>15, <2>2
    <3> QED
      BY <1>1, <1>2, <1>5, <1>16, <2>2, <3>1 DEF Holds
  <2>3. CASE f = i + 1
    <3>1. g = i /\ m[g] = both
      BY <1>3, <1>9, <1>15, <2>3
    <3>2. list[i].start <= list[f].start
      <4>1. i \in 1 .. f - 1 /\ ~(f > f)
        BY <1>3, <2>3
      <4> QED
        BY <1>13, <4>1
    <3> QED
      BY <1>1, <1>2, <1>3, <1>5, <1>16, <2>3, <3>1, <3>2 DEF Holds
  <2>4. CASE f > i + 1
    <3>1. g > i /\ g + 1 = f
      BY <1>3, <1>15, <2>4
    <3>2. m[g] = list[f]
      BY <1>11, <1>15, <3>1
    <3> QED
      BY <1>16, <3>2
  <2> QED
    BY <1>3, <2>1, <2>2, <2>3, <2>4
<1>18. ASSUME NEW k \in g + 1 .. Len(m)
       PROVE  m[k].start >= part.start
  <2>1. k \in 1 .. Len(m) /\ k > g
    BY <1>15
  <2>2. \A h \in f + 1 .. Len(list) : list[h].start >= part.start
    BY DEF Covered
  <2>3. CASE k < i
    <3>1. m[k] = list[k] /\ k \in f + 1 .. Len(list)
      BY <1>3, <1>10, <1>15, <2>1, <2>3
    <3> QED
      BY <2>2, <3>1
  <2>4. CASE k = i
    <3>1. m[k] = both /\ i \in f + 1 .. Len(list)
      BY <1>3, <1>9, <1>15, <2>1, <2>4
    <3> QED
      BY <1>5, <2>2, <3>1
  <2>5. CASE k > i
    <3>1. m[k] = list[k + 1] /\ k + 1 \in f + 1 .. Len(list)
      BY <1>3, <1>11, <1>15, <2>1, <2>5
    <3> QED
      BY <2>2, <3>1
  <2> QED
    BY <1>3, <2>1, <2>3, <2>4, <2>5
<1>19. \A k \in 1 .. Len(m) : m[k].start = list[IF k <= i THEN k ELSE k + 1].start
  <2>1. ASSUME NEW k \in 1 .. Len(m)
        PROVE  m[k].start = list[IF k <= i THEN k ELSE k + 1].start
    <3>1. CASE k < i
      BY <1>3, <1>10, <3>1
    <3>2. CASE k = i
      BY <1>5, <1>9, <3>2
    <3>3. CASE k > i
      BY <1>3, <1>11, <3>3
    <3> QED
      BY <1>3, <3>1, <3>2, <3>3
  <2> QED
    BY <2>1
<1>20. ASSUME NEW k \in 1 .. Len(m)
       PROVE  (k > g /\ m[k] = part) \/ \A j \in 1 .. k - 1 : m[j].start <= m[k].start
  <2>1. Len(m) \in Nat /\ k \in Nat /\ \A j \in 1 .. k - 1 : j \in 1 .. Len(m)
    BY <1>1, <1>8
  <2>2. CASE k < i
    <3>1. m[k] = list[k] /\ k \in 1 .. Len(list) /\ (k > f => k > g)
      BY <1>3, <1>10, <1>15, <2>2
    <3>2. \A j \in 1 .. k - 1 : m[j].start = list[j].start
      BY <1>3, <1>19, <2>1, <2>2
    <3> QED
      BY <1>13, <3>1, <3>2
  <2>3. CASE k = i
    <3>1. \A j \in 1 .. k - 1 : m[j].start = list[j].start
      BY <1>3, <1>19, <2>1, <2>3
    <3> QED
      BY <1>5, <1>9, <1>14, <2>3, <3>1
  <2>4. CASE k > i
    <3>1. m[k] = list[k + 1] /\ k + 1 \in 1 .. Len(list) /\ (k + 1 > f => k > g)
      BY <1>3, <1>11, <1>15, <2>4
    <3>2. (k + 1 > f /\ list[k + 1] = part) \/ \A j \in 1 .. (k + 1) - 1 : list[j].start <= list[k + 1].start
      BY <1>13, <3>1
    <3>3. ASSUME \A j \in 1 .. (k + 1) - 1 : list[j].start <= list[k + 1].start, NEW j \in 1 .. k - 1
          PROVE  m[j].start <= m[k].start
      <4>1. CASE j <= i
        <5>1. m[j].start = list[j].start /\ j \in 1 .. (k + 1) - 1
          BY <1>3, <1>19, <2>1, <4>1
        <5> QED
          BY <3>1, <3>3, <5>1
      <4>2. CASE j > i
        <5>1. m[j].start = list[j + 1].start /\ j + 1 \in 1 .. (k + 1) - 1
          BY <1>3, <1>19, <2>1, <4>2
        <5> QED
          BY <3>1, <3>3, <5>1
      <4> QED
        BY <1>3, <4>1, <4>2
    <3> QED
      BY <3>1, <3>2, <3>3
  <2> QED
    BY <1>3, <2>2, <2>3, <2>4
<1>21. Covered(m, g, part)
  BY <1>15, <1>17, <1>18, <1>20 DEF Covered
<1>22. Free(m) \cup Pages(part) = Free(list) \cup Pages(part)
  <2>1. Free(m) = Others(l, {i + 1})
    BY <1>6, <1>7, FreeRemove, Zenon
  <2>2. Others(l, {i + 1}) = Others(list, {i, i + 1}) \cup Pages(both)
    <3>1. list \in Seq(Nodes) /\ i + 1 \in 1 .. Len(list) /\ i # i + 1 /\ both \in Nodes
      BY <1>1, <1>3, <1>5
    <3>2. ASSUME NEW j \in 1 .. Len(list), i # j
          PROVE  Others([list EXCEPT ![i] = both], {j}) = Others(list, {i, j}) \cup Pages(both)
      BY <3>1, <3>2, OthersReplace
    <3> QED
      BY <3>1, <3>2, Zenon DEF l
  <2>3. Free(list) = Others(list, {i}) \cup Pages(list[i])
    BY <1>1, FreeSplit
  <2>4. Others(list, {i}) = Others(list, {i, i + 1}) \cup Pages(list[i + 1])
    BY <1>1, <1>3, OthersSplit, Zenon
  <2>5. Pages(both) \cup Pages(part) = Pages(list[i]) \cup Pages(list[i + 1]) \cup Pages(part)
    <3>1. /\ both.start \in Int /\ both.last \in Int /\ list[i].start \in Int /\ list[i].last \in Int
          /\ list[i + 1].start \in Int /\ list[i + 1].last \in Int /\ part.start \in Int /\ part.last \in Int
          /\ list[i].start <= list[i].last
      BY <1>1, <1>2, <1>3, <1>5
    <3>2. CASE list[i].start <= list[i + 1].start
      <4>1. Pages(both) = Pages(list[i]) \cup Pages(list[i + 1])
        BY <1>1, <1>3, <1>4, <1>5, <3>2, JoinedPages, SMTT(60)
      <4> QED
        BY <4>1
    <3>3. CASE ~(list[i].start <= list[i + 1].start)
      <4>1. list[i + 1] = part
        <5>1. i \in 1 .. (i + 1) - 1
          BY <1>3
        <5> QED
          BY <1>3, <1>13, <3>3, <5>1
      <4>2. Pages(both) \cup Pages(part) = Pages(list[i]) \cup Pages(part)
        BY <1>1, <1>2, <1>3, <1>4, <1>5, <3>1, <3>3, <4>1, JoinedBehind, SMTT(60)
      <4> QED
        BY <4>1, <4>2
    <3> QED
      BY <3>2, <3>3
  <2> QED
    BY <2>1, <2>2, <2>3, <2>4, <2>5, Zenon
<1> QED
  BY <1>12, <1>15, <1>21, <1>22 DEF m

\* When no neighbours touch, the list is as it must be between calls.
LEMMA ConsolidatedList ==
    ASSUME Sound(list), NEW part, Asked(part), NEW f \in 1 .. Len(list), Covered(list, f, part),
           \A i \in 1 .. Len(list) : ~Touch(i)
    PROVE  Apart(list) /\ Pages(part) \subseteq Free(list)
<1>1. /\ Len(list) \in Nat /\ DOMAIN list = 1 .. Len(list)
      /\ \A k \in 1 .. Len(list) : /\ list[k] \in Nodes /\ list[k].start \in Nat /\ list[k].last \in Nat
                                   /\ (k < Len(list) => list[k].last < LastPage)
  BY SoundNumbers
<1>2. part.start \in Nat /\ part.last \in Nat
  BY DEF Asked, Nodes
<1>3. ASSUME NEW i \in 1 .. Len(list), NEW j \in 1 .. Len(list), i < j
      PROVE  list[i].start <= list[j].start
  <2>1. ~(j > f /\ list[j] = part)
    <3>1. SUFFICES ASSUME j > f
                   PROVE  list[j] # part
      OBVIOUS
    <3>2. j - 1 \in 1 .. Len(list)
      BY <3>1
    <3> QED
      BY <3>1, <3>2, NoCopyBehindGap
  <2>2. i \in 1 .. j - 1
    BY <1>3
  <2> QED
    BY <2>1, <2>2 DEF Covered
<1>4. ASSUME NEW i \in 1 .. Len(list), NEW j \in 1 .. Len(list), i < j
      PROVE  list[i].last + 1 < list[j].start
  <2>1. i < Len(list) /\ i + 1 \in 1 .. Len(list)
    BY <1>1, <1>4
  <2>2. Past(list[i]) = list[i].last + 1
    BY <1>1, <2>1, PastIsNext
  <2>3. list[i].last + 1 < list[i + 1].start
    <3>1. ~Touch(i)
      OBVIOUS
    <3> QED
      BY <1>1, <2>1, <2>2, <3>1 DEF Touch
  <2>4. list[i + 1].start <= list[j].start
    <3>1. CASE i + 1 < j
      BY <1>3, <2>1, <3>1
    <3>2. CASE i + 1 = j
      BY <1>1, <3>2
    <3> QED
      BY <1>4, <3>1, <3>2
  <2> QED
    BY <1>1, <2>1, <2>3, <2>4
<1>5. Pages(part) \subseteq Pages(list[f])
  BY <1>1, <1>2 DEF Covered, Holds, Pages
<1> QED
  BY <1>1, <1>4, <1>5 DEF Apart, Free, Pages

-----------------------------------------------------------------------------
(* The invariant. *)

\* The list that the constructor makes.
LEMMA InitSound == Init => ListInv
<1> SUFFICES ASSUME Init
             PROVE  ListInv
  OBVIOUS
<1>1. /\ MinPage \in Nat /\ LastPage \in Nat /\ TopPage \in Nat
      /\ MinPage <= TopPage /\ TopPage < LastPage
  BY PagesAssumption
<1>2. Node(MinPage, LastPage) \in Nodes /\ Node(MinPage, MinPage) \in Nodes
  BY <1>1 DEF Node, Nodes
<1>3. list \in Seq(Nodes) /\ Len(list) = 1 /\ list[1] = Node(MinPage, LastPage)
  BY <1>2 DEF Init
<1>4. list[1].start = MinPage /\ list[1].last = LastPage
  BY <1>3 DEF Node
<1>5. Sound(list) /\ Apart(list)
  BY <1>1, <1>3, <1>4 DEF Sound, Apart
<1>6. Asked(new)
  BY <1>1, <1>2 DEF Init, Asked, Node
<1> QED
  BY <1>5, <1>6 DEF Init, ListInv

\* A call with a region of the guest's part of the address space.
LEMMA AskedRegion ==
    ASSUME NEW n \in 1 .. MaxSize, NEW a \in MinPage .. TopPage - n + 1
    PROVE  Asked(Node(a, a + n - 1)) /\ Pages(Node(a, a + n - 1)) = a .. a + n - 1
<1>1. MinPage \in Nat /\ TopPage \in Nat /\ n \in Nat /\ n > 0 /\ a \in Nat
  BY PagesAssumption
<1>2. Node(a, a + n - 1) \in Nodes
  BY <1>1 DEF Node, Nodes
<1> QED
  BY <1>1, <1>2 DEF Asked, Node, Pages

\* deallocate returns with the pages of the region free.
LEMMA ReturnStep ==
    ASSUME ListInv, Return, list' = list, Apart(list), Pages(new) \subseteq Free(list), pc # "idle"
    PROVE  ListInv' /\ (Free(list) \cup Returning)' = Free(list) \cup Returning
<1>1. Asked(Node(MinPage, MinPage))
  <2>1. MinPage \in Nat /\ MinPage <= TopPage
    BY PagesAssumption
  <2>2. Node(MinPage, MinPage) \in Nodes
    BY <2>1 DEF Node, Nodes
  <2> QED
    BY <2>1, <2>2 DEF Asked, Node
<1>2. pc' = "idle" /\ new' = Node(MinPage, MinPage) /\ current' = 1
  BY DEF Return
<1>3. Sound(list)' /\ Apart(list)' /\ Asked(new)' /\ Free(list)' = Free(list)
  BY <1>1, <1>2 DEF ListInv, Sound, Apart, Asked, Free
<1>4. Returning' = {} /\ Returning = Pages(new)
  BY <1>2 DEF Returning, Pages
<1> QED
  BY <1>2, <1>3, <1>4 DEF ListInv

\* deallocate finds the region free already: nothing was inserted by then.
LEMMA ContainedStep ==
    ASSUME ListInv, Contained
    PROVE  ListInv' /\ (Free(list) \cup Returning)' = Free(list) \cup Returning
<1>1. /\ Sound(list) /\ Asked(new) /\ pc = "walk" /\ current \in Nat \ {0} /\ current <= Len(list)
      /\ Holds(list[current], new)
  BY DEF ListInv, Contained
<1>2. /\ Len(list) \in Nat /\ DOMAIN list = 1 .. Len(list)
      /\ \A k \in 1 .. Len(list) : list[k].start \in Nat /\ list[k].last \in Nat
  BY <1>1, SoundNumbers
<1>3. new \in Nodes /\ new.start \in Nat /\ new.last \in Nat /\ new.start <= new.last
  BY <1>1 DEF Asked, Nodes
<1>4. current \in 1 .. Len(list)
  BY <1>1, <1>2
<1>5. ~Ahead(list, current, new)
  <2>1. list[current].start <= new.start
    BY <1>1 DEF Holds
  <2> QED
    BY <1>2, <1>3, <1>4, <2>1 DEF Ahead
<1>6. Apart(list)
  BY <1>1, <1>5 DEF ListInv
<1>7. Pages(new) \subseteq Free(list)
  BY <1>1, <1>3, <1>4, <1>6, FreeInOneNode
<1> QED
  BY <1>1, <1>6, <1>7, ReturnStep DEF Contained

\* A node is passed, or the region goes in before it.
LEMMA VisitStep ==
    ASSUME ListInv, Visit
    PROVE  ListInv' /\ (Free(list) \cup Returning)' = Free(list) \cup Returning
<1>1. /\ Sound(list) /\ Asked(new) /\ pc = "walk" /\ current \in Nat \ {0} /\ current <= Len(list)
      /\ ~Holds(list[current], new)
      /\ \/ Apart(list) /\ Below(list, current, new)
         \/ \E f \in 1 .. current - 1 : Covered(list, f, new) /\ Ahead(list, current, new)
  BY DEF ListInv, Visit
<1>2. /\ list \in Seq(Nodes) /\ Len(list) \in Nat
      /\ \A k \in 1 .. Len(list) : list[k].start \in Nat /\ list[k].last \in Nat
  BY <1>1, SoundNumbers
<1>3. new \in Nodes /\ new.start \in Nat
  BY <1>1 DEF Asked, Nodes
<1>4. current \in 1 .. Len(list) /\ current \in 1 .. Len(list) + 1
  BY <1>1, <1>2
<1>5. pc' = pc /\ new' = new
  BY DEF Visit
<1>6. Asked(new)' /\ Returning' = Returning /\ Returning = Pages(new)
  BY <1>1, <1>5 DEF Asked, Returning, Pages
<1>7. CASE list[current].start >= new.start
  <2> DEFINE m == InsertAt(list, current, new)
  <2>1. list' = m /\ current' = current + 2
    BY <1>7 DEF Visit
  <2>2. /\ Sound(m) /\ Ahead(m, current + 2, new)
        /\ \E f \in 1 .. current + 1 : Covered(m, f, new)
    BY <1>1, <1>4, <1>7, InsertedList
  <2>3. Free(m) = Free(list) \cup Pages(new)
    BY <1>2, <1>3, <1>4, FreeInsert
  <2>4. Len(m) = Len(list) + 1
    BY <1>2, <1>3, <1>4, InsertAtProperties
  <2> HIDE DEF m
  <2>5. Sound(list)' /\ Free(list)' = Free(m)
    BY <2>1, <2>2 DEF Sound, Free
  <2>6. current' \in Nat \ {0} /\ current' <= Len(list') + 1 /\ current' - 1 = current + 1
    BY <1>1, <1>2, <2>1, <2>4
  <2>7. \E f \in 1 .. current' - 1 : Covered(list', f, new') /\ Ahead(list', current', new')
    BY <1>5, <2>1, <2>2, <2>6
  <2>8. (\E f \in 1 .. current - 1 : Covered(list, f, new) /\ Ahead(list, current, new))'
    BY <2>7 DEF Covered, Ahead, Holds
  <2>9. ListInv'
    BY <1>1, <1>5, <1>6, <2>5, <2>6, <2>8, Zenon DEF ListInv
  <2> QED
    BY <1>6, <2>3, <2>5, <2>9
<1>8. CASE ~(list[current].start >= new.start)
  <2>1. list' = list /\ current' = current + 1
    BY <1>8 DEF Visit
  <2>2. Apart(list) /\ Below(list, current, new)
    <3>1. ~Ahead(list, current, new)
      BY <1>2, <1>3, <1>4, <1>8 DEF Ahead
    <3> QED
      BY <1>1, <3>1
  <2>3. Below(list, current + 1, new)
    <3>1. ASSUME NEW i \in 1 .. (current + 1) - 1
          PROVE  list[i].start < new.start /\ ~Holds(list[i], new)
      <4>1. CASE i = current
        BY <1>1, <1>2, <1>3, <1>4, <1>8, <4>1
      <4>2. CASE i # current
        <5>1. i \in 1 .. current - 1
          BY <1>1, <4>2
        <5> QED
          BY <2>2, <5>1 DEF Below
      <4> QED
        BY <4>1, <4>2
    <3> QED
      BY <3>1 DEF Below
  <2>4. Sound(list)' /\ Apart(list)' /\ Free(list)' = Free(list) /\ Below(list, current, new)'
    BY <1>1, <1>5, <2>1, <2>2, <2>3 DEF Sound, Apart, Free, Below, Holds
  <2>5. current' \in Nat \ {0} /\ current' <= Len(list') + 1
    BY <1>1, <1>2, <2>1
  <2> QED
    BY <1>1, <1>5, <1>6, <2>4, <2>5 DEF ListInv
<1> QED
  BY <1>7, <1>8

\* The walk does not end without having found a place for the region: the last node
\* reaches the end of the address space, above every region asked for.
LEMMA WalkEndStep ==
    ASSUME ListInv, WalkEnd
    PROVE  ListInv' /\ (Free(list) \cup Returning)' = Free(list) \cup Returning
<1>1. /\ Sound(list) /\ Asked(new) /\ pc = "walk" /\ current \in Nat \ {0}
      /\ current > Len(list) /\ current <= Len(list) + 1
      /\ pc' = "merge" /\ list' = list /\ new' = new /\ current' = current
      /\ \/ Apart(list) /\ Below(list, current, new)
         \/ \E f \in 1 .. current - 1 : Covered(list, f, new) /\ Ahead(list, current, new)
  BY DEF ListInv, WalkEnd
<1>2. /\ Len(list) \in Nat /\ Len(list) > 0
      /\ \A k \in 1 .. Len(list) : list[k].start \in Nat
      /\ list[Len(list)].last = LastPage
  BY <1>1, SoundNumbers
<1>3. new.start \in Nat /\ new.last \in Nat /\ new.last <= LastPage
  BY <1>1, PagesAssumption DEF Asked, Nodes
<1>4. Len(list) = current - 1 /\ Len(list) \in 1 .. Len(list)
  BY <1>1, <1>2
<1>5. ~Below(list, current, new)
  <2>1. SUFFICES ASSUME list[Len(list)].start < new.start, ~Holds(list[Len(list)], new)
                 PROVE  FALSE
    BY <1>4 DEF Below
  <2> QED
    BY <1>2, <1>3, <1>4, <2>1 DEF Holds
<1>6. PICK f \in 1 .. Len(list) : Covered(list, f, new)
  BY <1>1, <1>4, <1>5
<1>7. (\E g \in 1 .. Len(list) : Covered(list, g, new))'
  BY <1>1, <1>6 DEF Covered, Holds
<1>8. Sound(list)' /\ Asked(new)' /\ Free(list)' = Free(list) /\ Returning' = Returning
  BY <1>1 DEF Sound, Asked, Free, Returning
<1> QED
  BY <1>1, <1>7, <1>8 DEF ListInv

\* consolidate merges two neighbours.
LEMMA MergeStep ==
    ASSUME ListInv, Merge
    PROVE  ListInv' /\ (Free(list) \cup Returning)' = Free(list) \cup Returning
<1>1. /\ Sound(list) /\ Asked(new) /\ pc = "merge" /\ current \in Nat \ {0}
      /\ pc' = "merge" /\ new' = new /\ current' = current
  BY DEF ListInv, Merge
<1>2. PICK f \in 1 .. Len(list) : Covered(list, f, new)
  BY <1>1 DEF ListInv
<1>3. DOMAIN list = 1 .. Len(list)
  BY <1>1, SoundNumbers
<1>4. PICK i \in 1 .. Len(list) : /\ Touch(i) /\ \A j \in 1 .. i - 1 : ~Touch(j)
                                  /\ list' = Merged(i)
  BY <1>3 DEF Merge
<1>5. /\ Sound(Merged(i)) /\ \E g \in 1 .. Len(Merged(i)) : Covered(Merged(i), g, new)
      /\ Free(Merged(i)) \cup Pages(new) = Free(list) \cup Pages(new)
  BY <1>1, <1>2, <1>4, MergedList
<1>6. /\ Sound(list') /\ \E g \in 1 .. Len(list') : Covered(list', g, new')
      /\ Free(list') \cup Pages(new) = Free(list) \cup Pages(new)
  BY <1>1, <1>4, <1>5
<1>7. Sound(list)' /\ Asked(new)' /\ (\E g \in 1 .. Len(list) : Covered(list, g, new))'
  BY <1>1, <1>6, Zenon DEF Sound, Asked, Covered, Holds
<1>8. Returning = Pages(new) /\ Returning' = Pages(new) /\ Free(list)' = Free(list')
  BY <1>1 DEF Returning, Pages, Free
<1> QED
  BY <1>1, <1>6, <1>7, <1>8 DEF ListInv

\* consolidate ends.
LEMMA ConsolidatedStep ==
    ASSUME ListInv, Consolidated
    PROVE  ListInv' /\ (Free(list) \cup Returning)' = Free(list) \cup Returning
<1>1. Sound(list) /\ Asked(new) /\ pc = "merge"
  BY DEF ListInv, Consolidated
<1>2. PICK f \in 1 .. Len(list) : Covered(list, f, new)
  BY <1>1 DEF ListInv
<1>3. DOMAIN list = 1 .. Len(list)
  BY <1>1, SoundNumbers
<1>4. Apart(list) /\ Pages(new) \subseteq Free(list)
  BY <1>1, <1>2, <1>3, ConsolidatedList DEF Consolidated
<1> QED
  BY <1>1, <1>4, ReturnStep DEF Consolidated

\* allocate at an address is AllocateAt on the set.
LEMMA FixedStep ==
    ASSUME ListInv, NEW n \in 1 .. MaxSize, NEW a \in MinPage .. TopPage - n + 1, AllocateFixed(a, n)
    PROVE  ListInv' /\ Abstract!AllocateAt(a, n)
<1> DEFINE part == Node(a, a + n - 1)
<1>1. /\ Sound(list) /\ Apart(list) /\ pc = "idle" /\ pc' = pc /\ new' = new /\ current' = current
      /\ call' = <<"at", a, n>> /\ Allocate(part)
  BY DEF ListInv, AllocateFixed
<1>2. Asked(part) /\ Pages(part) = a .. a + n - 1 /\ part.start = a
  BY AskedRegion DEF Node
<1> HIDE DEF part
<1>3. /\ Sound(list)' /\ Apart(list)'
      /\ \/ /\ Pages(part) \subseteq Free(list)
            /\ Free(list)' = Free(list) \ Pages(part) /\ res' = a
         \/ /\ ~(Pages(part) \subseteq Free(list))
            /\ list' = list /\ res' = ENOMEM
  BY <1>1, <1>2, AllocateStep
<1>4. ListInv'
  BY <1>1, <1>3 DEF ListInv, Asked
<1>5. Returning = {} /\ Returning' = {}
  BY <1>1 DEF Returning
<1>6. list' = list => Free(list)' = Free(list)
  BY DEF Free
<1>7. Abstract!AllocateAt(a, n)
  BY <1>1, <1>2, <1>3, <1>5, <1>6 DEF Abstract!AllocateAt, Abstract!Region
<1> QED
  BY <1>4, <1>7

\* allocate anywhere is Allocate on the set.
LEMMA AnyStep ==
    ASSUME ListInv, NEW n \in 1 .. MaxSize, AllocateAny(n)
    PROVE  ListInv' /\ Abstract!Allocate(n)
<1>1. /\ Sound(list) /\ Apart(list) /\ pc = "idle" /\ pc' = pc /\ new' = new /\ current' = current
      /\ call' = <<"any", n>>
  BY DEF ListInv, AllocateAny
<1>2. /\ Sound(list)' /\ Apart(list)'
      /\ \/ \E a \in MinPage .. LastPage :
                /\ a .. a + n - 1 \subseteq Free(list)
                /\ Free(list)' = Free(list) \ (a .. a + n - 1) /\ res' = a
         \/ /\ \A a \in MinPage .. LastPage : ~(a .. a + n - 1 \subseteq Free(list))
            /\ list' = list /\ res' = ENOMEM
  BY <1>1, AnywhereStep
<1>3. ListInv'
  BY <1>1, <1>2 DEF ListInv, Asked
<1>4. Returning = {} /\ Returning' = {}
  BY <1>1 DEF Returning
<1>5. list' = list => Free(list)' = Free(list)
  BY DEF Free
<1>6. Abstract!Allocate(n)
  BY <1>1, <1>2, <1>4, <1>5 DEF Abstract!Allocate, Abstract!Region
<1> QED
  BY <1>3, <1>6

\* The call of deallocate is the step that gives the region back to the set.
LEMMA DeallocateStep ==
    ASSUME ListInv, NEW n \in 1 .. MaxSize, NEW a \in MinPage .. TopPage - n + 1, Deallocate(a, n)
    PROVE  ListInv' /\ Abstract!Deallocate(a, n)
<1> DEFINE part == Node(a, a + n - 1)
<1>1. /\ Sound(list) /\ Apart(list) /\ pc = "idle" /\ pc' = "walk" /\ new' = part /\ current' = 1
      /\ call' = <<"dealloc", a, n>> /\ list' = list /\ res' = res
  BY DEF ListInv, Deallocate
<1>2. Asked(part) /\ Pages(part) = a .. a + n - 1
  BY AskedRegion
<1> HIDE DEF part
<1>3. Len(list) \in Nat
  BY <1>1, SoundNumbers
<1>4. Sound(list)' /\ Apart(list)' /\ Asked(new)' /\ Below(list, current, new)' /\ current' <= Len(list)' + 1
  BY <1>1, <1>2, <1>3 DEF Sound, Apart, Asked, Below
<1>5. ListInv'
  BY <1>1, <1>4 DEF ListInv
<1>6. Returning = {} /\ Returning' = Pages(part) /\ Free(list)' = Free(list)
  BY <1>1 DEF Returning, Pages, Free
<1>7. Abstract!Deallocate(a, n)
  BY <1>1, <1>2, <1>6 DEF Abstract!Deallocate, Abstract!Region
<1> QED
  BY <1>5, <1>7

\* A step keeps the invariant, and is a step of the set of free pages or leaves it
\* alone.
LEMMA NextStep ==
    ASSUME ListInv, Next
    PROVE  ListInv' /\ [Abstract!Next]_<<Free(list) \cup Returning, call, res>>
<1>1. ASSUME NEW n \in 1 .. MaxSize, AllocateAny(n)
      PROVE  ListInv' /\ Abstract!Next
  BY <1>1, AnyStep DEF Abstract!Next
<1>2. ASSUME NEW n \in 1 .. MaxSize, NEW a \in MinPage .. TopPage - n + 1, AllocateFixed(a, n) \/ Deallocate(a, n)
      PROVE  ListInv' /\ Abstract!Next
  <2>1. a \in MinPage .. LastPage - n + 1
    BY PagesAssumption
  <2>2. CASE AllocateFixed(a, n)
    BY <2>1, <2>2, FixedStep DEF Abstract!Next
  <2>3. CASE Deallocate(a, n)
    BY <2>1, <2>3, DeallocateStep DEF Abstract!Next
  <2> QED
    BY <1>2, <2>2, <2>3
<1>3. ASSUME Contained \/ Visit \/ WalkEnd \/ Merge \/ Consolidated
      PROVE  ListInv' /\ UNCHANGED <<Free(list) \cup Returning, call, res>>
  <2>1. call' = call /\ res' = res
    BY <1>3 DEF Contained, Visit, WalkEnd, Merge, Consolidated
  <2>2. ListInv' /\ (Free(list) \cup Returning)' = Free(list) \cup Returning
    BY <1>3, ContainedStep, VisitStep, WalkEndStep, MergeStep, ConsolidatedStep
  <2> QED
    BY <2>1, <2>2
<1> QED
  BY <1>1, <1>2, <1>3 DEF Next

\* What does not change keeps the invariant.
LEMMA StutterStep ==
    ASSUME ListInv, UNCHANGED vars
    PROVE  ListInv' /\ UNCHANGED <<Free(list) \cup Returning, call, res>>
<1>1. list' = list /\ call' = call /\ res' = res /\ pc' = pc /\ new' = new /\ current' = current
  BY DEF vars
<1>2. ListInv'
  BY <1>1 DEF ListInv, Sound, Apart, Asked, Below, Covered, Ahead, Holds
<1>3. (Free(list) \cup Returning)' = Free(list) \cup Returning
  BY <1>1 DEF Free, Returning
<1> QED
  BY <1>1, <1>2, <1>3

-----------------------------------------------------------------------------
(* The theorems. *)

\* At every step of deallocate and consolidate the list is made of regions inside
\* the address space; either the walk has not reached the region's place in an
\* ordered list, or a node holds the region and what is out of order behind that
\* node are copies of the region.
THEOREM ListInvariant == Spec => []ListInv
<1>1. ListInv /\ [Next]_vars => ListInv'
  BY NextStep, StutterStep
<1> QED
  BY <1>1, InitSound, PTL DEF Spec

\* Between calls the free list is in order, and its nodes neither touch nor
\* overlap, however large the address space is and whatever regions deallocate is
\* called with.
THEOREM ListIsNormal == Spec => []Normal
<1>1. ListInv => Normal
  <2> SUFFICES ASSUME ListInv, pc = "idle"
               PROVE  \A i, j \in DOMAIN list : i < j => list[i].last + 1 < list[j].start
    BY DEF Normal
  <2>1. DOMAIN list = 1 .. Len(list) /\ Apart(list)
    BY SoundNumbers DEF ListInv
  <2> QED
    BY <2>1 DEF Apart
<1> QED
  BY <1>1, ListInvariant, PTL

\* The linked list, walked and merged node by node, behaves as a set of free
\* pages: allocate takes what it returns and fails only when nothing fits, and
\* deallocate adds exactly its region.
THEOREM ListRefinesSet == Spec => Refines
<1>1. Init => Abstract!Init
  <2> SUFFICES ASSUME Init
               PROVE  Abstract!Init
    OBVIOUS
  <2>1. list = <<Node(MinPage, LastPage)>> /\ call = <<"new">> /\ res = ENOMEM /\ pc = "idle"
    BY DEF Init
  <2>2. Free(list) = MinPage .. LastPage
    <3>1. DOMAIN list = {1} /\ list[1].start = MinPage /\ list[1].last = LastPage
      BY <2>1 DEF Node
    <3> QED
      BY <3>1, Zenon DEF Free
  <2>3. Returning = {}
    BY <2>1 DEF Returning
  <2> QED
    BY <2>1, <2>2, <2>3 DEF Abstract!Init
<1>2. ListInv /\ [Next]_vars => [Abstract!Next]_<<Free(list) \cup Returning, call, res>>
  BY NextStep, StutterStep
<1> QED
  BY <1>1, <1>2, ListInvariant, PTL DEF Spec, Refines, Abstract!Spec

=============================================================================
