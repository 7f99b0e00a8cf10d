--------------------------- MODULE ThreadsProofs ---------------------------
(***************************************************************************)
(* Clone, fork and exit keep the frame of CloneMe, the registers, the list *)
(* of states and the semaphores in order, for any number of processes and  *)
(* threads.                                                                *)
(***************************************************************************)
EXTENDS Threads, TLAPS

\* No handler ran in CloneMe and no guest asked for CLONE_CHILD_SETTID.
Quiet == rough \cap {"eintr", "settid"} = {}
\* CloneMe from FUTEX_WAIT to its return.
Waiting == {"futex", "asleep", "spin"}

\* A call of CloneMe for u: until the new thread has set new_tid the frame is there,
\* and the caller is in one call only.  The caller has stopped waiting only after the
\* helper has exited, unless a signal or CLONE_CHILD_SETTID made it.
CallOf(p, u) ==
    /\ helper[p][u] \in {"start", "create"} =>
           pc[p][u] = "none" /\ ~newTid[p][u] /\ frame[p][u] /\ u \notin states[p]
    /\ pc[p][u] \in {"create", "list", "init"} =>
           helper[p][u] \in {"detach", "none"} /\ ~newTid[p][u] /\ frame[p][u]
    /\ pc[p][u] \in {"create", "list"} => u \notin states[p]
    /\ frame[p][u] => pc[p][caller[p][u]] \in Waiting
    /\ settid[p][u] => "settid" \in rough
    /\ Quiet /\ helper[p][u] # "none" =>
           frame[p][u] /\ pc[p][caller[p][u]] # "spin" /\ cloneTid[p][u] = -1

CallInOrder(p) ==
    /\ \A u \in Slots : CallOf(p, u)
    /\ \A u, v \in Slots : frame[p][u] /\ frame[p][v] /\ caller[p][u] = caller[p][v] => u = v

\* The child of a fork has one thread until it has its own list.
ForkedAlone(p) ==
    \A t \in Slots : pc[p][t] = "forked" =>
        \A u \in Slots : helper[p][u] = "none" /\ (u # t => pc[p][u] = "none")

\* The list has every thread that may run guest code, and no other.
Listed(p) ==
    /\ \A t \in Slots : pc[p][t] \notin {"none", "create", "list", "forked"} => t \in states[p]
    /\ kind[p] \in {"start", "fork"} =>
         \A t \in states[p] : pc[p][t] # "none" \/ \E u \in Slots : pc[p][u] = "forked"

\* Who has states_lock, and who has a page_map_lock.
StatesHeld(p) ==
    kind[p] \in {"start", "fork"} /\ statesSem[p] = 0 =>
        \E t \in Slots : pc[p][t] \in {"walk", "patch", "forked"}

PagesHeld(p) ==
    "held" \notin rough =>
        \A u \in Slots : pageSem[p][u] = 0 =>
            pc[p][u] = "page" \/ \E t \in Slots : pc[p][t] = "patch" /\ target[p][t] = u

\* What holds in a process that has not ended.
InOrder(p) == Alive(p) => CallInOrder(p) /\ ForkedAlone(p) /\ Listed(p) /\ StatesHeld(p) /\ PagesHeld(p)

\* No handler has run while its thread was in CloneMe.
NoHandler == "eintr" \notin rough => \A p \in Procs, u \in Slots : regs[p][u] = "app" /\ ~handler[p][u]

\* The inductive invariant.
ThreadsInv == TypeOK /\ NoHandler /\ \A p \in Procs : InOrder(p)

-----------------------------------------------------------------------------
(* What a step leaves alone.                                               *)

\* All but where the threads are is as it was in process q.
SameButPc(q) ==
    /\ kind'[q] = kind[q] /\ caller'[q] = caller[q] /\ settid'[q] = settid[q] /\ helper'[q] = helper[q]
    /\ cloneTid'[q] = cloneTid[q] /\ newTid'[q] = newTid[q] /\ frame'[q] = frame[q]
    /\ states'[q] = states[q] /\ statesSem'[q] = statesSem[q] /\ pageSem'[q] = pageSem[q] /\
       target'[q] = target[q]

\* What belongs to thread t of process p has a new value, and nothing else in p.
Becomes(new, old, p, t, value) == new[p][t] = value /\ \A u \in Slots \ {t} : new[p][u] = old[p][u]

\* Thread t of p has moved, and no other.
Moved(p, t, place) == Becomes(pc', pc, p, t, place)

\* What a function of the processes and their threads, or of the processes, returns.
EachThread(f, S) == f \in [Procs -> [Slots -> S]]
EachProcess(f, S) == f \in [Procs -> S]

\* The other processes keep what they have.
Elsewhere(new, old, p) == \A q \in Procs \ {p} : new[q] = old[q]

\* The type invariant, in these terms.
Types ==
    /\ EachThread(pc, Places)
    /\ EachThread(caller, Slots)
    /\ EachThread(settid, BOOLEAN)
    /\ EachThread(helper, {"none", "start", "create", "detach"})
    /\ EachThread(cloneTid, {-1, 0, 1})
    /\ EachThread(newTid, BOOLEAN)
    /\ EachThread(frame, BOOLEAN)
    /\ EachThread(handler, BOOLEAN)
    /\ EachThread(regs, {"app", "handler"})
    /\ EachThread(pageSem, 0 .. 1)
    /\ EachThread(todo, SUBSET Slots)
    /\ EachThread(target, Slots)
    /\ EachProcess(kind, {"none", "start", "fork", "vfork", "gone"})
    /\ EachProcess(states, SUBSET Slots)
    /\ EachProcess(statesSem, 0 .. 1)
    /\ pipe \subseteq Procs /\ rough \subseteq RoughEvents /\ calls \in 0 .. MaxCalls

\* Both say the same, in a state
LEMMA Typed == TypeOK <=> Types
  BY DEF TypeOK, Types, EachThread, EachProcess

\* and in the next one.
LEMMA TypedNext == Types' => TypeOK'
  BY DEF TypeOK, Types, EachThread, EachProcess

\* The lists have thread states, and callers and targets are thread states.
LEMMA SlotsTyped ==
    ASSUME TypeOK, NEW p \in Procs
    PROVE  states[p] \subseteq Slots /\ \A u \in Slots : caller[p][u] \in Slots /\
        target[p][u] \in Slots
  BY DEF TypeOK

\* A process in which nothing has changed is in order.
LEMMA Undisturbed ==
    ASSUME NEW q \in Procs, InOrder(q), rough \subseteq rough', SameButPc(q), pc'[q] = pc[q]
    PROVE  InOrder(q)'
<1>1. Alive(q)' = Alive(q)
  BY DEF Alive, SameButPc
<1>2. ASSUME Alive(q) PROVE CallInOrder(q) /\ ForkedAlone(q) /\ Listed(q) /\ StatesHeld(q) /\
        PagesHeld(q)
  BY <1>2 DEF InOrder
<1>3. ASSUME Alive(q) PROVE CallInOrder(q)'
  BY <1>2, <1>3 DEF CallInOrder, CallOf, SameButPc, Quiet
<1>4. ASSUME Alive(q) PROVE ForkedAlone(q)'
  BY <1>2, <1>4 DEF ForkedAlone, SameButPc
<1>5. ASSUME Alive(q) PROVE Listed(q)'
  BY <1>2, <1>5 DEF Listed, SameButPc
<1>6. ASSUME Alive(q) PROVE StatesHeld(q)' /\ PagesHeld(q)'
  BY <1>2, <1>6 DEF StatesHeld, PagesHeld, SameButPc
<1> QED
  BY <1>1, <1>3, <1>4, <1>5, <1>6 DEF InOrder

\* A step in one process keeps the invariant when it keeps that process in order.
LEMMA OneProcess ==
    ASSUME ThreadsInv, TypeOK', NoHandler', rough \subseteq rough', NEW p \in Procs, InOrder(p)',
           \A q \in Procs \ {p} : SameButPc(q) /\ pc'[q] = pc[q]
    PROVE  ThreadsInv'
<1>1. ASSUME NEW q \in Procs PROVE InOrder(q)'
  <2>1. CASE q = p
    BY <2>1
  <2>2. CASE q # p
    BY <2>2, Undisturbed DEF ThreadsInv
  <2> QED
    BY <2>1, <2>2
<1> QED
  BY <1>1 DEF ThreadsInv

\* Where a thread has no part in a call of CloneMe, no semaphore and its own list.
Ordinary == {"guest", "exit", "states", "vfork", "close", "poll"}

\* A thread that neither waits in CloneMe nor is on its way into the list.
Settled == Ordinary \cup {"page", "walk", "patch", "forked"}

\* The calls of CloneMe are not concerned by what such a thread does.
LEMMA CallsUndisturbed ==
    ASSUME TypeOK, NEW p \in Procs, NEW t \in Slots, CallInOrder(p), rough \subseteq rough',
           states'[p] = states[p],
           pc[p][t] \in Settled, pc'[p][t] \in Settled, \A u \in Slots \ {t} : pc'[p][u] = pc[p][u],
           caller'[p] = caller[p], settid'[p] = settid[p], helper'[p] = helper[p],
           cloneTid'[p] = cloneTid[p], newTid'[p] = newTid[p], frame'[p] = frame[p]
    PROVE  CallInOrder(p)'
<1>1. \A u \in Slots : caller[p][u] \in Slots
  BY DEF TypeOK
<1> QED
  BY <1>1 DEF CallInOrder, CallOf, Quiet, Waiting, Settled, Ordinary

\* A page_map_lock keeps its holder when no thread that has one moves.
LEMMA PagesUndisturbed ==
    ASSUME NEW p \in Procs, PagesHeld(p), rough \subseteq rough', pageSem'[p] = pageSem[p],
           target'[p] = target[p],
           \A u \in Slots : pc[p][u] \in {"page", "patch"} => pc'[p][u] = pc[p][u]
    PROVE  PagesHeld(p)'
  BY DEF PagesHeld

\* Steps that concern only threads that wait in CloneMe, and their helpers.
LEMMA OthersUndisturbed ==
    ASSUME TypeOK, NEW p \in Procs, ForkedAlone(p), Listed(p), StatesHeld(p), PagesHeld(p),
           rough \subseteq rough',
           \A u \in Slots : pc'[p][u] = pc[p][u] \/ (pc[p][u] \in Waiting /\ pc'[p][u] \in Waiting),
           \A u \in Slots : helper[p][u] = "none" => helper'[p][u] = "none",
           kind'[p] = kind[p], states'[p] = states[p], statesSem'[p] = statesSem[p],
           pageSem'[p] = pageSem[p], target'[p] = target[p]
    PROVE  ForkedAlone(p)' /\ Listed(p)' /\ StatesHeld(p)' /\ PagesHeld(p)'
<1>1. states[p] \subseteq Slots
  BY DEF TypeOK
<1>2. ForkedAlone(p)'
  <2> SUFFICES ASSUME NEW t \in Slots, pc'[p][t] = "forked", NEW u \in Slots
               PROVE  helper'[p][u] = "none" /\ (u # t => pc'[p][u] = "none")
    BY DEF ForkedAlone
  <2>1. pc[p][t] = "forked"
    BY DEF Waiting
  <2>2. helper[p][u] = "none" /\ (u # t => pc[p][u] = "none")
    BY <2>1 DEF ForkedAlone
  <2> QED
    BY <2>2 DEF Waiting
<1>3. Listed(p)'
  BY <1>1 DEF Listed, Waiting
<1>4. StatesHeld(p)'
  BY DEF StatesHeld, Waiting
<1>5. PagesHeld(p)'
  BY PagesUndisturbed DEF Waiting
<1> QED
  BY <1>2, <1>3, <1>4, <1>5

\* A thread moves between ordinary places.
LEMMA MovesInOrder ==
    ASSUME NEW p \in Procs, NEW t \in Slots, TypeOK, InOrder(p), Alive(p), pc[p][t] \in Ordinary,
           NEW place \in Ordinary,
           rough \subseteq rough', SameButPc(p), Moved(p, t, place)
    PROVE  InOrder(p)'
<1>1. CallInOrder(p) /\ ForkedAlone(p) /\ Listed(p) /\ StatesHeld(p) /\ PagesHeld(p)
  BY DEF InOrder
<1>0. /\ states[p] \subseteq Slots
      /\ \A u \in Slots : caller[p][u] \in Slots /\ target[p][u] \in Slots
  BY DEF TypeOK
<1>2. CallInOrder(p)'
  BY <1>1, <1>0 DEF CallInOrder, CallOf, SameButPc, Quiet, Moved, Becomes, Ordinary, Waiting
<1>3. ForkedAlone(p)'
  BY <1>1 DEF ForkedAlone, SameButPc, Moved, Becomes, Ordinary
<1>4. Listed(p)'
  BY <1>1, <1>0 DEF Listed, SameButPc, Moved, Becomes, Ordinary
<1>5. StatesHeld(p)' /\ PagesHeld(p)'
  BY <1>1 DEF StatesHeld, PagesHeld, SameButPc, Moved, Becomes, Ordinary
<1> QED
  BY <1>2, <1>3, <1>4, <1>5 DEF InOrder

\* An ordinary move that changes nothing else but the pipe keeps the invariant.
LEMMA MovesStep ==
    ASSUME ThreadsInv, NEW p \in Procs, NEW t \in Slots, Alive(p), pc[p][t] \in Ordinary,
           NEW place \in Ordinary,
           Goto(p, t, place), UNCHANGED <<kind, threadVars, lockVars, rough>>,
           pipe' \subseteq Procs, calls' \in 0 .. MaxCalls
    PROVE  ThreadsInv'
<1>1. TypeOK /\ NoHandler /\ InOrder(p)
  BY DEF ThreadsInv
<1>2. place \in Places
  BY DEF Ordinary, Places
<1>3. /\ EachThread(pc', Places) /\ Elsewhere(pc', pc, p)
      /\ Moved(p, t, place)
  <2>1. EachThread(pc, Places)
    BY <1>1, Typed DEF Types
  <2> QED
    BY <1>2, <2>1 DEF Goto, Moved, EachThread, Becomes, Elsewhere
<1>4. \A q \in Procs : SameButPc(q)
  BY DEF SameButPc, threadVars, lockVars
<1>5. TypeOK'
  BY <1>1, <1>3, Typed, TypedNext DEF Types, threadVars, lockVars
<1>6. NoHandler'
  BY <1>1 DEF NoHandler, threadVars
<1>7. InOrder(p)'
  BY <1>1, <1>3, <1>4, MovesInOrder
<1> QED
  BY <1>3, <1>4, <1>5, <1>6, <1>7, OneProcess DEF Elsewhere

-----------------------------------------------------------------------------
(* The actions.                                                            *)

\* CloneMe starts a helper for the new thread and waits for it.
LEMMA CloneStep ==
    ASSUME ThreadsInv, NEW p \in Procs, NEW t \in Slots, NEW u \in Slots, NEW f \in BOOLEAN,
           Clone(p, t, u, f), calls' \in 0 .. MaxCalls
    PROVE  ThreadsInv'
<1>1. /\ TypeOK /\ NoHandler /\ Alive(p)
      /\ CallInOrder(p) /\ ForkedAlone(p) /\ Listed(p)
      /\ StatesHeld(p) /\ PagesHeld(p)
  BY Zenon DEF ThreadsInv, InOrder, Clone, At
<1>2. Types /\ states[p] \subseteq Slots /\ \A w \in Slots : caller[p][w] \in Slots /\
      target[p][w] \in Slots
  BY <1>1, Typed, SlotsTyped
<1>3. /\ pc[p][t] = "guest" /\ pc[p][u] = "none" /\ helper[p][u] = "none"
      /\ ~frame[p][u] /\ u \notin states[p] /\ u # t
  BY DEF Clone, At, Free, Calling
<1>4. /\ pc' = [pc EXCEPT ![p][t] = "futex"]
      /\ caller' = [caller EXCEPT ![p][u] = t]
      /\ settid' = [settid EXCEPT ![p][u] = f]
      /\ helper' = [helper EXCEPT ![p][u] = "start"]
      /\ cloneTid' = [cloneTid EXCEPT ![p][u] = -1]
      /\ newTid' = [newTid EXCEPT ![p][u] = FALSE]
      /\ frame' = [frame EXCEPT ![p][u] = TRUE]
  BY DEF Clone, Goto, DropFrame
<1>5. /\ EachThread(pc', Places) /\ Elsewhere(pc', pc, p)
      /\ Becomes(pc', pc, p, t, "futex")
  <2>1. EachThread(pc, Places)
    BY <1>2 DEF Types
  <2> QED
    BY <2>1, <1>4 DEF EachThread, Becomes, Elsewhere, Places
<1>6. /\ EachThread(caller', Slots) /\ Elsewhere(caller', caller, p)
      /\ Becomes(caller', caller, p, u, t)
  <2>1. EachThread(caller, Slots)
    BY <1>2 DEF Types
  <2> QED
    BY <2>1, <1>4 DEF EachThread, Becomes, Elsewhere
<1>7. /\ EachThread(settid', BOOLEAN) /\ Elsewhere(settid', settid, p)
      /\ Becomes(settid', settid, p, u, f)
  <2>1. EachThread(settid, BOOLEAN)
    BY <1>2 DEF Types
  <2> QED
    BY <2>1, <1>4 DEF EachThread, Becomes, Elsewhere
<1>8. /\ EachThread(helper', {"none", "start", "create", "detach"}) /\ Elsewhere(helper', helper, p)
      /\ Becomes(helper', helper, p, u, "start")
  <2>1. EachThread(helper, {"none", "start", "create", "detach"})
    BY <1>2 DEF Types
  <2> QED
    BY <2>1, <1>4 DEF EachThread, Becomes, Elsewhere
<1>9. /\ EachThread(cloneTid', {-1, 0, 1}) /\ Elsewhere(cloneTid', cloneTid, p)
      /\ Becomes(cloneTid', cloneTid, p, u, -1)
  <2>1. EachThread(cloneTid, {-1, 0, 1})
    BY <1>2 DEF Types
  <2> QED
    BY <2>1, <1>4 DEF EachThread, Becomes, Elsewhere
<1>10. /\ EachThread(newTid', BOOLEAN) /\ Elsewhere(newTid', newTid, p)
      /\ Becomes(newTid', newTid, p, u, FALSE)
  <2>1. EachThread(newTid, BOOLEAN)
    BY <1>2 DEF Types
  <2> QED
    BY <2>1, <1>4 DEF EachThread, Becomes, Elsewhere
<1>11. /\ EachThread(frame', BOOLEAN) /\ Elsewhere(frame', frame, p)
      /\ Becomes(frame', frame, p, u, TRUE)
  <2>1. EachThread(frame, BOOLEAN)
    BY <1>2 DEF Types
  <2> QED
    BY <2>1, <1>4 DEF EachThread, Becomes, Elsewhere
<1>12. UNCHANGED <<kind, handler, regs, states, statesSem, pageSem, todo, target, pipe>>
  BY DEF Clone, threadVars, lockVars, DropFrame
<1>13. rough \subseteq rough' /\ rough' \subseteq RoughEvents /\ (f => "settid" \in rough')
  BY <1>2 DEF Clone, RoughEvents, Types
<1>14. TypeOK'
  BY <1>2, <1>5, <1>6, <1>7, <1>8, <1>9, <1>10, <1>11, <1>12, <1>13, TypedNext DEF Types
<1>15. NoHandler'
  BY <1>1, <1>12, <1>13, Zenon DEF NoHandler
<1>16. \A q \in Procs \ {p} : SameButPc(q) /\ pc'[q] = pc[q]
  BY <1>5, <1>6, <1>7, <1>8, <1>9, <1>10, <1>11, <1>12, Zenon DEF SameButPc, Elsewhere
<1>17. states'[p] = states[p]
  BY <1>12, Zenon
<1>18. CallInOrder(p)'
  <2>1. CallOf(p, u)'
    <3>0. CallOf(p, u) /\ caller[p][u] \in Slots
      BY <1>1, <1>2 DEF CallInOrder
    <3>1. /\ helper'[p][u] = "start" /\ newTid'[p][u] = FALSE /\ frame'[p][u] = TRUE
          /\ caller'[p][u] = t /\ settid'[p][u] = f /\ cloneTid'[p][u] = -1
      BY <1>5, <1>6, <1>7, <1>8, <1>9, <1>10, <1>11 DEF Becomes
    <3>2. pc'[p][u] = "none"
      BY <1>2, <1>3, <1>5 DEF Becomes
    <3>3. pc'[p][caller'[p][u]] = "futex"
      BY <1>2, <1>3, <3>0, <3>2, <1>5, <3>1 DEF CallOf, Waiting, Becomes
    <3> QED
      BY <1>3, <3>0, <3>1, <3>2, <3>3, <1>17, <1>13 DEF CallOf, Quiet, Waiting
  <2>2. ASSUME NEW w \in Slots, w # u PROVE CallOf(p, w)'
    <3>1. CallOf(p, w) /\ caller[p][w] \in Slots
      BY <1>1, <1>2 DEF CallInOrder
    <3>2. /\ helper'[p][w] = helper[p][w] /\ newTid'[p][w] = newTid[p][w] /\ frame'[p][w] = frame[p][w]
          /\ caller'[p][w] = caller[p][w] /\ settid'[p][w] = settid[p][w] /\
             cloneTid'[p][w] = cloneTid[p][w]
      BY <2>2, <1>5, <1>6, <1>7, <1>8, <1>9, <1>10, <1>11 DEF Becomes
    <3>3. pc'[p][w] = pc[p][w] \/ (pc[p][w] = "guest" /\ pc'[p][w] = "futex")
      BY <1>2, <1>3, <2>2, <1>5 DEF Becomes
    <3>4. frame[p][w] => pc'[p][caller[p][w]] = pc[p][caller[p][w]]
      BY <1>2, <1>3, <2>2, <3>1, <1>5 DEF CallOf, Waiting, Becomes
    <3> QED
      BY <3>1, <3>2, <3>3, <3>4, <1>17, <1>13 DEF CallOf, Quiet, Waiting
  <2>3. ASSUME NEW v \in Slots, NEW w \in Slots, frame'[p][v], frame'[p][w],
          caller'[p][v] = caller'[p][w]
        PROVE  v = w
    <3>1. \A x \in Slots \ {u} : frame'[p][x] => frame[p][x] /\ caller'[p][x] = caller[p][x] /\
          caller[p][x] # t
      BY <1>1, <1>3, <1>5, <1>6, <1>7, <1>8, <1>9, <1>10, <1>11 DEF CallInOrder, CallOf, Waiting,
         Becomes
    <3>2. caller'[p][u] = t
      BY <1>5, <1>6, <1>7, <1>8, <1>9, <1>10, <1>11 DEF Becomes
    <3> QED
      BY <1>1, <2>3, <3>1, <3>2 DEF CallInOrder
  <2> QED
    BY <2>1, <2>2, <2>3 DEF CallInOrder
<1>19. ForkedAlone(p)'
  BY <1>1, <1>3, <1>5, <1>8, Zenon DEF ForkedAlone, Becomes
<1>20. states'[p] = states[p] /\ kind'[p] = kind[p]
  BY <1>12, Zenon
<1>21. Listed(p)'
  BY <1>1, <1>2, <1>3, <1>5, <1>20, Zenon DEF Listed, Becomes
<1>22. statesSem'[p] = statesSem[p] /\ kind'[p] = kind[p]
  BY <1>12, Zenon
<1>23. StatesHeld(p)'
  BY <1>1, <1>3, <1>5, <1>22, Zenon DEF StatesHeld, Becomes
<1>24. pageSem'[p] = pageSem[p] /\ target'[p] = target[p]
  BY <1>12, Zenon
<1>25. PagesHeld(p)'
  BY <1>1, <1>3, <1>5, <1>24, <1>13, PagesUndisturbed, Zenon DEF Becomes
<1> QED
  BY <1>18, <1>19, <1>21, <1>23, <1>25, <1>13, <1>14, <1>15, <1>16, OneProcess, Zenon DEF InOrder

\* pthread_create: the new thread starts.
LEMMA HelperCreateStep ==
    ASSUME ThreadsInv, NEW p \in Procs, NEW u \in Slots, HelperCreate(p, u), calls' \in 0 .. MaxCalls
    PROVE  ThreadsInv'
<1>1. /\ TypeOK /\ NoHandler /\ Alive(p)
      /\ CallInOrder(p) /\ ForkedAlone(p) /\ Listed(p)
      /\ StatesHeld(p) /\ PagesHeld(p)
  BY Zenon DEF ThreadsInv, InOrder, HelperCreate, At
<1>2. Types /\ states[p] \subseteq Slots /\ \A w \in Slots : caller[p][w] \in Slots /\
      target[p][w] \in Slots
  BY <1>1, Typed, SlotsTyped
<1>3. helper[p][u] = "create"
  BY DEF HelperCreate, At, Free, Calling
<1>4. pc[p][u] = "none" /\ ~newTid[p][u] /\ frame[p][u] /\ u \notin states[p]
  BY <1>1, <1>2, <1>3 DEF CallInOrder, CallOf
<1>5. /\ helper' = [helper EXCEPT ![p][u] = "detach"]
      /\ pc' = [pc EXCEPT ![p][u] = "create"]
  BY DEF HelperCreate, Goto, DropFrame
<1>6. /\ EachThread(helper', {"none", "start", "create", "detach"}) /\ Elsewhere(helper', helper, p)
      /\ Becomes(helper', helper, p, u, "detach")
  <2>1. EachThread(helper, {"none", "start", "create", "detach"})
    BY <1>2 DEF Types
  <2> QED
    BY <2>1, <1>5 DEF EachThread, Becomes, Elsewhere
<1>7. /\ EachThread(pc', Places) /\ Elsewhere(pc', pc, p)
      /\ Becomes(pc', pc, p, u, "create")
  <2>1. EachThread(pc, Places)
    BY <1>2 DEF Types
  <2> QED
    BY <2>1, <1>5 DEF EachThread, Becomes, Elsewhere, Places
<1>8. UNCHANGED <<kind, caller, settid, cloneTid, newTid, frame, handler, regs, states, statesSem,
        pageSem, todo, target, pipe, rough>>
  BY DEF HelperCreate, threadVars, lockVars, DropFrame
<1>9. rough \subseteq rough' /\ rough' \subseteq RoughEvents
  BY <1>2, <1>8 DEF Types
<1>10. TypeOK'
  BY <1>2, <1>6, <1>7, <1>8, <1>9, TypedNext DEF Types
<1>11. NoHandler'
  BY <1>1, <1>8, <1>9, Zenon DEF NoHandler
<1>12. \A q \in Procs \ {p} : SameButPc(q) /\ pc'[q] = pc[q]
  BY <1>6, <1>7, <1>8, Zenon DEF SameButPc, Elsewhere
<1>13. newTid'[p] = newTid[p] /\ frame'[p] = frame[p] /\ states'[p] = states[p] /\
       caller'[p] = caller[p] /\ settid'[p] = settid[p] /\ cloneTid'[p] = cloneTid[p]
  BY <1>8, Zenon
<1>14. CallInOrder(p)'
  BY <1>1, <1>2, <1>3, <1>4, <1>6, <1>7, <1>13, <1>9 DEF CallInOrder, CallOf, Quiet, Waiting, Becomes
<1>15. ForkedAlone(p)'
  BY <1>1, <1>3, <1>4, <1>6, <1>7, Zenon DEF ForkedAlone, Becomes
<1>16. states'[p] = states[p] /\ kind'[p] = kind[p]
  BY <1>8, Zenon
<1>17. Listed(p)'
  BY <1>1, <1>2, <1>3, <1>4, <1>7, <1>16, Zenon DEF Listed, Becomes
<1>18. statesSem'[p] = statesSem[p] /\ kind'[p] = kind[p]
  BY <1>8, Zenon
<1>19. StatesHeld(p)'
  BY <1>1, <1>3, <1>4, <1>7, <1>18, Zenon DEF StatesHeld, Becomes
<1>20. pageSem'[p] = pageSem[p] /\ target'[p] = target[p]
  BY <1>8, Zenon
<1>21. PagesHeld(p)'
  BY <1>1, <1>3, <1>4, <1>7, <1>20, <1>9, PagesUndisturbed, Zenon DEF Becomes
<1> QED
  BY <1>14, <1>15, <1>17, <1>19, <1>21, <1>9, <1>10, <1>11, <1>12, OneProcess, Zenon DEF InOrder

\* ThreadState::Create copies the registers of the caller.
LEMMA CreateStep ==
    ASSUME ThreadsInv, NEW p \in Procs, NEW u \in Slots, Create(p, u), calls' \in 0 .. MaxCalls
    PROVE  ThreadsInv'
<1>1. /\ TypeOK /\ NoHandler /\ Alive(p)
      /\ CallInOrder(p) /\ ForkedAlone(p) /\ Listed(p)
      /\ StatesHeld(p) /\ PagesHeld(p)
  BY Zenon DEF ThreadsInv, InOrder, Create, At
<1>2. Types /\ states[p] \subseteq Slots /\ \A w \in Slots : caller[p][w] \in Slots /\
      target[p][w] \in Slots
  BY <1>1, Typed, SlotsTyped
<1>3. pc[p][u] = "create"
  BY DEF Create, At, Free, Calling
<1>4. /\ pageSem' = [pageSem EXCEPT ![p][u] = 1]
      /\ regs' = [regs EXCEPT ![p][u] = regs[p][caller[p][u]]]
      /\ pc' = [pc EXCEPT ![p][u] = "list"]
  BY DEF Create, Goto, DropFrame
<1>5. /\ EachThread(pageSem', 0 .. 1) /\ Elsewhere(pageSem', pageSem, p)
      /\ Becomes(pageSem', pageSem, p, u, 1)
  <2>1. EachThread(pageSem, 0 .. 1)
    BY <1>2 DEF Types
  <2> QED
    BY <2>1, <1>4 DEF EachThread, Becomes, Elsewhere
<1>6. /\ EachThread(regs', {"app", "handler"}) /\ Elsewhere(regs', regs, p)
      /\ Becomes(regs', regs, p, u, regs[p][caller[p][u]])
  <2>1. EachThread(regs, {"app", "handler"})
    BY <1>2 DEF Types
  <2>2. regs[p][caller[p][u]] \in {"app", "handler"}
    BY <1>2, <2>1 DEF EachThread
  <2> QED
    BY <2>1, <2>2, <1>4 DEF EachThread, Becomes, Elsewhere
<1>7. /\ EachThread(pc', Places) /\ Elsewhere(pc', pc, p)
      /\ Becomes(pc', pc, p, u, "list")
  <2>1. EachThread(pc, Places)
    BY <1>2 DEF Types
  <2> QED
    BY <2>1, <1>4 DEF EachThread, Becomes, Elsewhere, Places
<1>8. UNCHANGED <<kind, caller, settid, helper, cloneTid, newTid, frame, handler, states, statesSem,
        todo, target, pipe, rough>>
  BY DEF Create, threadVars, lockVars, DropFrame
<1>9. rough \subseteq rough' /\ rough' \subseteq RoughEvents
  BY <1>2, <1>8 DEF Types
<1>10. TypeOK'
  BY <1>2, <1>5, <1>6, <1>7, <1>8, <1>9, TypedNext DEF Types
<1>11. NoHandler'
  <2> SUFFICES ASSUME "eintr" \notin rough', NEW q \in Procs, NEW w \in Slots
               PROVE  regs'[q][w] = "app" /\ ~handler'[q][w]
    BY DEF NoHandler
  <2>1. regs[q][w] = "app" /\ ~handler[q][w]
    BY <1>1, <1>8, <1>9 DEF NoHandler
  <2>2. CASE q = p /\ w = u
    <3>1. regs[p][caller[p][u]] = "app"
      BY <1>1, <1>2, <1>8, <1>9 DEF NoHandler
    <3> QED
      BY <3>1, <2>1, <2>2, <1>6, <1>8 DEF Becomes
  <2>3. CASE q = p /\ w # u
    BY <2>1, <2>3, <1>6, <1>8 DEF Becomes
  <2>4. CASE q # p
    BY <2>1, <2>4, <1>6, <1>8 DEF Elsewhere
  <2> QED
    BY <2>2, <2>3, <2>4
<1>12. \A q \in Procs \ {p} : SameButPc(q) /\ pc'[q] = pc[q]
  BY <1>5, <1>7, <1>8, Zenon DEF SameButPc, Elsewhere
<1>13. helper'[p] = helper[p] /\ newTid'[p] = newTid[p] /\ frame'[p] = frame[p] /\
       states'[p] = states[p] /\ caller'[p] = caller[p] /\ settid'[p] = settid[p] /\
       cloneTid'[p] = cloneTid[p]
  BY <1>8, Zenon
<1>14. CallInOrder(p)'
  BY <1>1, <1>2, <1>3, <1>7, <1>13, <1>9 DEF CallInOrder, CallOf, Quiet, Waiting, Becomes
<1>15. helper'[p] = helper[p]
  BY <1>8, Zenon
<1>16. ForkedAlone(p)'
  BY <1>1, <1>3, <1>7, <1>15, Zenon DEF ForkedAlone, Becomes
<1>17. states'[p] = states[p] /\ kind'[p] = kind[p]
  BY <1>8, Zenon
<1>18. Listed(p)'
  BY <1>1, <1>2, <1>3, <1>7, <1>17, Zenon DEF Listed, Becomes
<1>19. statesSem'[p] = statesSem[p] /\ kind'[p] = kind[p]
  BY <1>8, Zenon
<1>20. StatesHeld(p)'
  BY <1>1, <1>3, <1>7, <1>19, Zenon DEF StatesHeld, Becomes
<1>21. target'[p] = target[p]
  BY <1>8, Zenon
<1>22. PagesHeld(p)'
  <2> SUFFICES ASSUME "held" \notin rough', NEW w \in Slots, pageSem'[p][w] = 0
               PROVE  pc'[p][w] = "page" \/ \E v \in Slots : pc'[p][v] = "patch" /\ target'[p][v] = w
    BY DEF PagesHeld
  <2>1. w # u /\ pageSem[p][w] = 0
    BY <1>2, <1>5, <1>7, <1>21 DEF Becomes
  <2>2. pc[p][w] = "page" \/ \E v \in Slots : pc[p][v] = "patch" /\ target[p][v] = w
    BY <1>1, <2>1, <1>5, <1>7, <1>21, <1>9 DEF PagesHeld
  <2> QED
    BY <1>2, <1>3, <2>1, <2>2, <1>5, <1>7, <1>21 DEF Becomes
<1> QED
  BY <1>14, <1>16, <1>18, <1>20, <1>22, <1>9, <1>10, <1>11, <1>12, OneProcess, Zenon DEF InOrder

\* The new state enters the list.
LEMMA ListStep ==
    ASSUME ThreadsInv, NEW p \in Procs, NEW u \in Slots, List(p, u), calls' \in 0 .. MaxCalls
    PROVE  ThreadsInv'
<1>1. /\ TypeOK /\ NoHandler /\ Alive(p)
      /\ CallInOrder(p) /\ ForkedAlone(p) /\ Listed(p)
      /\ StatesHeld(p) /\ PagesHeld(p)
  BY Zenon DEF ThreadsInv, InOrder, List, At
<1>2. Types /\ states[p] \subseteq Slots /\ \A w \in Slots : caller[p][w] \in Slots /\
      target[p][w] \in Slots
  BY <1>1, Typed, SlotsTyped
<1>3. pc[p][u] = "list"
  BY DEF List, At, Free, Calling
<1>4. /\ pc' = [pc EXCEPT ![p][u] = "init"]
      /\ states' = [states EXCEPT ![p] = (states[p] \cup {u})]
  BY DEF List, Goto, DropFrame
<1>5. /\ EachThread(pc', Places) /\ Elsewhere(pc', pc, p)
      /\ Becomes(pc', pc, p, u, "init")
  <2>1. EachThread(pc, Places)
    BY <1>2 DEF Types
  <2> QED
    BY <2>1, <1>4 DEF EachThread, Becomes, Elsewhere, Places
<1>6. /\ EachProcess(states', SUBSET Slots) /\ Elsewhere(states', states, p)
      /\ states'[p] = (states[p] \cup {u})
  BY <1>2, <1>4 DEF Types, EachProcess, Elsewhere
<1>7. UNCHANGED <<kind, caller, settid, helper, cloneTid, newTid, frame, handler, regs, statesSem,
        pageSem, todo, target, pipe, rough>>
  BY DEF List, threadVars, lockVars, DropFrame
<1>8. rough \subseteq rough' /\ rough' \subseteq RoughEvents
  BY <1>2, <1>7 DEF Types
<1>9. TypeOK'
  BY <1>2, <1>5, <1>6, <1>7, <1>8, TypedNext DEF Types
<1>10. NoHandler'
  BY <1>1, <1>7, <1>8, Zenon DEF NoHandler
<1>11. \A q \in Procs \ {p} : SameButPc(q) /\ pc'[q] = pc[q]
  BY <1>5, <1>6, <1>7, Zenon DEF SameButPc, Elsewhere
<1>12. helper'[p] = helper[p] /\ newTid'[p] = newTid[p] /\ frame'[p] = frame[p] /\
       caller'[p] = caller[p] /\ settid'[p] = settid[p] /\ cloneTid'[p] = cloneTid[p]
  BY <1>7, Zenon
<1>13. CallInOrder(p)'
  <2>1. CallOf(p, u)'
    <3>0. CallOf(p, u) /\ caller[p][u] \in Slots
      BY <1>1, <1>2 DEF CallInOrder
    <3>1. /\ helper'[p][u] = helper[p][u] /\ newTid'[p][u] = newTid[p][u] /\ frame'[p][u] = frame[p][u]
          /\ caller'[p][u] = caller[p][u] /\ settid'[p][u] = settid[p][u] /\
             cloneTid'[p][u] = cloneTid[p][u]
      BY <1>5, <1>12 DEF Becomes
    <3>2. pc'[p][u] = "init" /\ pc[p][u] = "list"
      BY <1>2, <1>3, <1>5 DEF Becomes
    <3>3. frame[p][u] => pc'[p][caller[p][u]] = pc[p][caller[p][u]]
      BY <1>2, <1>3, <3>0, <3>2, <1>5, <3>1 DEF CallOf, Waiting, Becomes
    <3> QED
      BY <1>3, <3>0, <3>1, <3>2, <3>3, <1>6, <1>8 DEF CallOf, Quiet, Waiting
  <2>2. ASSUME NEW w \in Slots, w # u PROVE CallOf(p, w)'
    <3>1. CallOf(p, w) /\ caller[p][w] \in Slots
      BY <1>1, <1>2 DEF CallInOrder
    <3>2. /\ helper'[p][w] = helper[p][w] /\ newTid'[p][w] = newTid[p][w] /\ frame'[p][w] = frame[p][w]
          /\ caller'[p][w] = caller[p][w] /\ settid'[p][w] = settid[p][w] /\
             cloneTid'[p][w] = cloneTid[p][w]
      BY <2>2, <1>5, <1>12 DEF Becomes
    <3>3. pc'[p][w] = pc[p][w]
      BY <1>2, <1>3, <2>2, <1>5 DEF Becomes
    <3>4. frame[p][w] => pc'[p][caller[p][w]] = pc[p][caller[p][w]]
      BY <1>2, <1>3, <2>2, <3>1, <1>5 DEF CallOf, Waiting, Becomes
    <3> QED
      BY <2>2, <3>1, <3>2, <3>3, <3>4, <1>6, <1>8 DEF CallOf, Quiet, Waiting
  <2>3. ASSUME NEW v \in Slots, NEW w \in Slots, frame'[p][v], frame'[p][w],
          caller'[p][v] = caller'[p][w]
        PROVE  v = w
    BY <1>1, <2>3, <1>5, <1>12 DEF CallInOrder, Becomes
  <2> QED
    BY <2>1, <2>2, <2>3 DEF CallInOrder
<1>14. helper'[p] = helper[p]
  BY <1>7, Zenon
<1>15. ForkedAlone(p)'
  BY <1>1, <1>3, <1>5, <1>14, Zenon DEF ForkedAlone, Becomes
<1>16. kind'[p] = kind[p]
  BY <1>7, Zenon
<1>17. Listed(p)'
  BY <1>1, <1>2, <1>3, <1>5, <1>6, <1>16, Zenon DEF Listed, Becomes
<1>18. statesSem'[p] = statesSem[p] /\ kind'[p] = kind[p]
  BY <1>7, Zenon
<1>19. StatesHeld(p)'
  BY <1>1, <1>3, <1>5, <1>18, Zenon DEF StatesHeld, Becomes
<1>20. pageSem'[p] = pageSem[p] /\ target'[p] = target[p]
  BY <1>7, Zenon
<1>21. PagesHeld(p)'
  BY <1>1, <1>3, <1>5, <1>20, <1>8, PagesUndisturbed, Zenon DEF Becomes
<1> QED
  BY <1>13, <1>15, <1>17, <1>19, <1>21, <1>8, <1>9, <1>10, <1>11, OneProcess, Zenon DEF InOrder

\* The new thread sets new_tid and runs the guest.
LEMMA InitThreadStep ==
    ASSUME ThreadsInv, NEW p \in Procs, NEW u \in Slots, InitThread(p, u), calls' \in 0 .. MaxCalls
    PROVE  ThreadsInv'
<1>1. /\ TypeOK /\ NoHandler /\ Alive(p)
      /\ CallInOrder(p) /\ ForkedAlone(p) /\ Listed(p)
      /\ StatesHeld(p) /\ PagesHeld(p)
  BY Zenon DEF ThreadsInv, InOrder, InitThread, At
<1>2. Types /\ states[p] \subseteq Slots /\ \A w \in Slots : caller[p][w] \in Slots /\
      target[p][w] \in Slots
  BY <1>1, Typed, SlotsTyped
<1>3. pc[p][u] = "init"
  BY DEF InitThread, At, Free, Calling
<1>4. /\ regs' = [regs EXCEPT ![p][u] = "app"]
      /\ newTid' = [newTid EXCEPT ![p][u] = TRUE]
      /\ pc' = [pc EXCEPT ![p][u] = "guest"]
  BY DEF InitThread, Goto, DropFrame
<1>5. /\ EachThread(regs', {"app", "handler"}) /\ Elsewhere(regs', regs, p)
      /\ Becomes(regs', regs, p, u, "app")
  <2>1. EachThread(regs, {"app", "handler"})
    BY <1>2 DEF Types
  <2> QED
    BY <2>1, <1>4 DEF EachThread, Becomes, Elsewhere
<1>6. /\ EachThread(newTid', BOOLEAN) /\ Elsewhere(newTid', newTid, p)
      /\ Becomes(newTid', newTid, p, u, TRUE)
  <2>1. EachThread(newTid, BOOLEAN)
    BY <1>2 DEF Types
  <2> QED
    BY <2>1, <1>4 DEF EachThread, Becomes, Elsewhere
<1>7. /\ EachThread(pc', Places) /\ Elsewhere(pc', pc, p)
      /\ Becomes(pc', pc, p, u, "guest")
  <2>1. EachThread(pc, Places)
    BY <1>2 DEF Types
  <2> QED
    BY <2>1, <1>4 DEF EachThread, Becomes, Elsewhere, Places
<1>8. UNCHANGED <<kind, caller, settid, helper, cloneTid, frame, handler, states, statesSem, pageSem,
        todo, target, pipe, rough>>
  BY DEF InitThread, threadVars, lockVars, DropFrame
<1>9. rough \subseteq rough' /\ rough' \subseteq RoughEvents
  BY <1>2, <1>8 DEF Types
<1>10. TypeOK'
  BY <1>2, <1>5, <1>6, <1>7, <1>8, <1>9, TypedNext DEF Types
<1>11. NoHandler'
  <2> SUFFICES ASSUME "eintr" \notin rough', NEW q \in Procs, NEW w \in Slots
               PROVE  regs'[q][w] = "app" /\ ~handler'[q][w]
    BY DEF NoHandler
  <2>1. regs[q][w] = "app" /\ ~handler[q][w]
    BY <1>1, <1>8, <1>9 DEF NoHandler
  <2>2. CASE q = p /\ w = u
    BY <2>1, <2>2, <1>5, <1>8 DEF Becomes
  <2>3. CASE q = p /\ w # u
    BY <2>1, <2>3, <1>5, <1>8 DEF Becomes
  <2>4. CASE q # p
    BY <2>1, <2>4, <1>5, <1>8 DEF Elsewhere
  <2> QED
    BY <2>2, <2>3, <2>4
<1>12. \A q \in Procs \ {p} : SameButPc(q) /\ pc'[q] = pc[q]
  BY <1>6, <1>7, <1>8, Zenon DEF SameButPc, Elsewhere
<1>13. states'[p] = states[p]
  BY <1>8, Zenon
<1>14. helper'[p] = helper[p] /\ frame'[p] = frame[p] /\ caller'[p] = caller[p] /\
       settid'[p] = settid[p] /\ cloneTid'[p] = cloneTid[p]
  BY <1>8, Zenon
<1>15. CallInOrder(p)'
  <2>1. CallOf(p, u)'
    <3>0. CallOf(p, u) /\ caller[p][u] \in Slots
      BY <1>1, <1>2 DEF CallInOrder
    <3>1. /\ helper'[p][u] = helper[p][u] /\ newTid'[p][u] = TRUE /\ frame'[p][u] = frame[p][u]
          /\ caller'[p][u] = caller[p][u] /\ settid'[p][u] = settid[p][u] /\
             cloneTid'[p][u] = cloneTid[p][u]
      BY <1>6, <1>7, <1>14 DEF Becomes
    <3>2. pc'[p][u] = "guest" /\ pc[p][u] = "init"
      BY <1>2, <1>3, <1>7 DEF Becomes
    <3>3. frame[p][u] => pc'[p][caller[p][u]] = pc[p][caller[p][u]]
      BY <1>2, <1>3, <3>0, <3>2, <1>7, <3>1 DEF CallOf, Waiting, Becomes
    <3> QED
      BY <1>3, <3>0, <3>1, <3>2, <3>3, <1>13, <1>9 DEF CallOf, Quiet, Waiting
  <2>2. ASSUME NEW w \in Slots, w # u PROVE CallOf(p, w)'
    <3>1. CallOf(p, w) /\ caller[p][w] \in Slots
      BY <1>1, <1>2 DEF CallInOrder
    <3>2. /\ helper'[p][w] = helper[p][w] /\ newTid'[p][w] = newTid[p][w] /\ frame'[p][w] = frame[p][w]
          /\ caller'[p][w] = caller[p][w] /\ settid'[p][w] = settid[p][w] /\
             cloneTid'[p][w] = cloneTid[p][w]
      BY <2>2, <1>6, <1>7, <1>14 DEF Becomes
    <3>3. pc'[p][w] = pc[p][w]
      BY <1>2, <1>3, <2>2, <1>7 DEF Becomes
    <3>4. frame[p][w] => pc'[p][caller[p][w]] = pc[p][caller[p][w]]
      BY <1>2, <1>3, <2>2, <3>1, <1>7 DEF CallOf, Waiting, Becomes
    <3> QED
      BY <3>1, <3>2, <3>3, <3>4, <1>13, <1>9 DEF CallOf, Quiet, Waiting
  <2>3. ASSUME NEW v \in Slots, NEW w \in Slots, frame'[p][v], frame'[p][w],
          caller'[p][v] = caller'[p][w]
        PROVE  v = w
    BY <1>1, <2>3, <1>6, <1>7, <1>14 DEF CallInOrder, Becomes
  <2> QED
    BY <2>1, <2>2, <2>3 DEF CallInOrder
<1>16. helper'[p] = helper[p]
  BY <1>8, Zenon
<1>17. ForkedAlone(p)'
  BY <1>1, <1>3, <1>7, <1>16, Zenon DEF ForkedAlone, Becomes
<1>18. states'[p] = states[p] /\ kind'[p] = kind[p]
  BY <1>8, Zenon
<1>19. Listed(p)'
  BY <1>1, <1>2, <1>3, <1>7, <1>18, Zenon DEF Listed, Becomes
<1>20. statesSem'[p] = statesSem[p] /\ kind'[p] = kind[p]
  BY <1>8, Zenon
<1>21. StatesHeld(p)'
  BY <1>1, <1>3, <1>7, <1>20, Zenon DEF StatesHeld, Becomes
<1>22. pageSem'[p] = pageSem[p] /\ target'[p] = target[p]
  BY <1>8, Zenon
<1>23. PagesHeld(p)'
  BY <1>1, <1>3, <1>7, <1>22, <1>9, PagesUndisturbed, Zenon DEF Becomes
<1> QED
  BY <1>15, <1>17, <1>19, <1>21, <1>23, <1>9, <1>10, <1>11, <1>12, OneProcess, Zenon DEF InOrder

\* A translation takes the page_map_lock of its thread.
LEMMA CompileStep ==
    ASSUME ThreadsInv, NEW p \in Procs, NEW t \in Slots, Compile(p, t), calls' \in 0 .. MaxCalls
    PROVE  ThreadsInv'
<1>1. /\ TypeOK /\ NoHandler /\ Alive(p)
      /\ CallInOrder(p) /\ ForkedAlone(p) /\ Listed(p)
      /\ StatesHeld(p) /\ PagesHeld(p)
  BY Zenon DEF ThreadsInv, InOrder, Compile, At
<1>2. Types /\ states[p] \subseteq Slots /\ \A w \in Slots : caller[p][w] \in Slots /\
      target[p][w] \in Slots
  BY <1>1, Typed, SlotsTyped
<1>3. pc[p][t] = "guest"
  BY DEF Compile, At, Free, Calling
<1>4. /\ pageSem' = [pageSem EXCEPT ![p][t] = 0]
      /\ pc' = [pc EXCEPT ![p][t] = "page"]
  BY DEF Compile, Goto, DropFrame
<1>5. /\ EachThread(pageSem', 0 .. 1) /\ Elsewhere(pageSem', pageSem, p)
      /\ Becomes(pageSem', pageSem, p, t, 0)
  <2>1. EachThread(pageSem, 0 .. 1)
    BY <1>2 DEF Types
  <2> QED
    BY <2>1, <1>4 DEF EachThread, Becomes, Elsewhere
<1>6. /\ EachThread(pc', Places) /\ Elsewhere(pc', pc, p)
      /\ Becomes(pc', pc, p, t, "page")
  <2>1. EachThread(pc, Places)
    BY <1>2 DEF Types
  <2> QED
    BY <2>1, <1>4 DEF EachThread, Becomes, Elsewhere, Places
<1>7. UNCHANGED <<kind, caller, settid, helper, cloneTid, newTid, frame, handler, regs, states,
        statesSem, todo, target, pipe, rough>>
  BY DEF Compile, threadVars, lockVars, DropFrame
<1>8. rough \subseteq rough' /\ rough' \subseteq RoughEvents
  BY <1>2, <1>7 DEF Types
<1>9. TypeOK'
  BY <1>2, <1>5, <1>6, <1>7, <1>8, TypedNext DEF Types
<1>10. NoHandler'
  BY <1>1, <1>7, <1>8, Zenon DEF NoHandler
<1>11. \A q \in Procs \ {p} : SameButPc(q) /\ pc'[q] = pc[q]
  BY <1>5, <1>6, <1>7, Zenon DEF SameButPc, Elsewhere
<1>12. helper'[p] = helper[p] /\ newTid'[p] = newTid[p] /\ frame'[p] = frame[p] /\
       states'[p] = states[p] /\ caller'[p] = caller[p] /\ settid'[p] = settid[p] /\
       cloneTid'[p] = cloneTid[p]
  BY <1>7, Zenon
<1>13. CallInOrder(p)'
  BY <1>1, <1>3, <1>6, <1>12, <1>8, CallsUndisturbed, Zenon DEF Settled, Ordinary, Becomes
<1>14. helper'[p] = helper[p]
  BY <1>7, Zenon
<1>15. ForkedAlone(p)'
  BY <1>1, <1>3, <1>6, <1>14, Zenon DEF ForkedAlone, Becomes
<1>16. states'[p] = states[p] /\ kind'[p] = kind[p]
  BY <1>7, Zenon
<1>17. Listed(p)'
  BY <1>1, <1>2, <1>3, <1>6, <1>16, Zenon DEF Listed, Becomes
<1>18. statesSem'[p] = statesSem[p] /\ kind'[p] = kind[p]
  BY <1>7, Zenon
<1>19. StatesHeld(p)'
  BY <1>1, <1>3, <1>6, <1>18, Zenon DEF StatesHeld, Becomes
<1>20. target'[p] = target[p]
  BY <1>7, Zenon
<1>21. PagesHeld(p)'
  <2> SUFFICES ASSUME "held" \notin rough', NEW w \in Slots, pageSem'[p][w] = 0
               PROVE  pc'[p][w] = "page" \/ \E v \in Slots : pc'[p][v] = "patch" /\ target'[p][v] = w
    BY DEF PagesHeld
  <2>1. CASE w = t
    BY <2>1, <1>5, <1>6, <1>20 DEF Becomes
  <2>2. CASE w # t
    <3>1. pageSem[p][w] = 0
      BY <2>2, <1>5, <1>6, <1>20 DEF Becomes
    <3>2. pc[p][w] = "page" \/ \E v \in Slots : pc[p][v] = "patch" /\ target[p][v] = w
      BY <1>1, <3>1, <1>5, <1>6, <1>20, <1>8 DEF PagesHeld
    <3> QED
      BY <1>3, <2>2, <3>2, <1>5, <1>6, <1>20 DEF Becomes
  <2> QED
    BY <2>1, <2>2
<1> QED
  BY <1>13, <1>15, <1>17, <1>19, <1>21, <1>8, <1>9, <1>10, <1>11, OneProcess, Zenon DEF InOrder

\* The translation gives it back.
LEMMA CompileEndStep ==
    ASSUME ThreadsInv, NEW p \in Procs, NEW t \in Slots, CompileEnd(p, t), calls' \in 0 .. MaxCalls
    PROVE  ThreadsInv'
<1>1. /\ TypeOK /\ NoHandler /\ Alive(p)
      /\ CallInOrder(p) /\ ForkedAlone(p) /\ Listed(p)
      /\ StatesHeld(p) /\ PagesHeld(p)
  BY Zenon DEF ThreadsInv, InOrder, CompileEnd, At
<1>2. Types /\ states[p] \subseteq Slots /\ \A w \in Slots : caller[p][w] \in Slots /\
      target[p][w] \in Slots
  BY <1>1, Typed, SlotsTyped
<1>3. pc[p][t] = "page"
  BY DEF CompileEnd, At, Free, Calling
<1>4. /\ pageSem' = [pageSem EXCEPT ![p][t] = 1]
      /\ pc' = [pc EXCEPT ![p][t] = "guest"]
  BY DEF CompileEnd, Goto, DropFrame
<1>5. /\ EachThread(pageSem', 0 .. 1) /\ Elsewhere(pageSem', pageSem, p)
      /\ Becomes(pageSem', pageSem, p, t, 1)
  <2>1. EachThread(pageSem, 0 .. 1)
    BY <1>2 DEF Types
  <2> QED
    BY <2>1, <1>4 DEF EachThread, Becomes, Elsewhere
<1>6. /\ EachThread(pc', Places) /\ Elsewhere(pc', pc, p)
      /\ Becomes(pc', pc, p, t, "guest")
  <2>1. EachThread(pc, Places)
    BY <1>2 DEF Types
  <2> QED
    BY <2>1, <1>4 DEF EachThread, Becomes, Elsewhere, Places
<1>7. UNCHANGED <<kind, caller, settid, helper, cloneTid, newTid, frame, handler, regs, states,
        statesSem, todo, target, pipe, rough>>
  BY DEF CompileEnd, threadVars, lockVars, DropFrame
<1>8. rough \subseteq rough' /\ rough' \subseteq RoughEvents
  BY <1>2, <1>7 DEF Types
<1>9. TypeOK'
  BY <1>2, <1>5, <1>6, <1>7, <1>8, TypedNext DEF Types
<1>10. NoHandler'
  BY <1>1, <1>7, <1>8, Zenon DEF NoHandler
<1>11. \A q \in Procs \ {p} : SameButPc(q) /\ pc'[q] = pc[q]
  BY <1>5, <1>6, <1>7, Zenon DEF SameButPc, Elsewhere
<1>12. helper'[p] = helper[p] /\ newTid'[p] = newTid[p] /\ frame'[p] = frame[p] /\
       states'[p] = states[p] /\ caller'[p] = caller[p] /\ settid'[p] = settid[p] /\
       cloneTid'[p] = cloneTid[p]
  BY <1>7, Zenon
<1>13. CallInOrder(p)'
  BY <1>1, <1>3, <1>6, <1>12, <1>8, CallsUndisturbed, Zenon DEF Settled, Ordinary, Becomes
<1>14. helper'[p] = helper[p]
  BY <1>7, Zenon
<1>15. ForkedAlone(p)'
  BY <1>1, <1>3, <1>6, <1>14, Zenon DEF ForkedAlone, Becomes
<1>16. states'[p] = states[p] /\ kind'[p] = kind[p]
  BY <1>7, Zenon
<1>17. Listed(p)'
  BY <1>1, <1>2, <1>3, <1>6, <1>16, Zenon DEF Listed, Becomes
<1>18. statesSem'[p] = statesSem[p] /\ kind'[p] = kind[p]
  BY <1>7, Zenon
<1>19. StatesHeld(p)'
  BY <1>1, <1>3, <1>6, <1>18, Zenon DEF StatesHeld, Becomes
<1>20. target'[p] = target[p]
  BY <1>7, Zenon
<1>21. PagesHeld(p)'
  <2> SUFFICES ASSUME "held" \notin rough', NEW w \in Slots, pageSem'[p][w] = 0
               PROVE  pc'[p][w] = "page" \/ \E v \in Slots : pc'[p][v] = "patch" /\ target'[p][v] = w
    BY DEF PagesHeld
  <2>1. w # t /\ pageSem[p][w] = 0
    BY <1>2, <1>5, <1>6, <1>20 DEF Becomes
  <2>2. pc[p][w] = "page" \/ \E v \in Slots : pc[p][v] = "patch" /\ target[p][v] = w
    BY <1>1, <2>1, <1>5, <1>6, <1>20, <1>8 DEF PagesHeld
  <2> QED
    BY <1>2, <1>3, <2>1, <2>2, <1>5, <1>6, <1>20 DEF Becomes
<1> QED
  BY <1>13, <1>15, <1>17, <1>19, <1>21, <1>8, <1>9, <1>10, <1>11, OneProcess, Zenon DEF InOrder

\* invalidateRangeGlobal takes states_lock.
LEMMA StatesLockStep ==
    ASSUME ThreadsInv, NEW p \in Procs, NEW t \in Slots, StatesLock(p, t), calls' \in 0 .. MaxCalls
    PROVE  ThreadsInv'
<1>1. /\ TypeOK /\ NoHandler /\ Alive(p)
      /\ CallInOrder(p) /\ ForkedAlone(p) /\ Listed(p)
      /\ StatesHeld(p) /\ PagesHeld(p)
  BY Zenon DEF ThreadsInv, InOrder, StatesLock, At
<1>2. Types /\ states[p] \subseteq Slots /\ \A w \in Slots : caller[p][w] \in Slots /\
      target[p][w] \in Slots
  BY <1>1, Typed, SlotsTyped
<1>3. pc[p][t] = "states"
  BY DEF StatesLock, At, Free, Calling
<1>4. /\ todo' = [todo EXCEPT ![p][t] = states[p]]
      /\ pc' = [pc EXCEPT ![p][t] = "walk"]
      /\ statesSem' = [statesSem EXCEPT ![p] = 0]
  BY DEF StatesLock, Goto, DropFrame
<1>5. /\ EachThread(todo', SUBSET Slots) /\ Elsewhere(todo', todo, p)
      /\ Becomes(todo', todo, p, t, states[p])
  <2>1. EachThread(todo, SUBSET Slots)
    BY <1>2 DEF Types
  <2>2. states[p] \in SUBSET Slots
    BY <1>2
  <2> QED
    BY <2>1, <2>2, <1>4 DEF EachThread, Becomes, Elsewhere
<1>6. /\ EachThread(pc', Places) /\ Elsewhere(pc', pc, p)
      /\ Becomes(pc', pc, p, t, "walk")
  <2>1. EachThread(pc, Places)
    BY <1>2 DEF Types
  <2> QED
    BY <2>1, <1>4 DEF EachThread, Becomes, Elsewhere, Places
<1>7. /\ EachProcess(statesSem', 0 .. 1) /\ Elsewhere(statesSem', statesSem, p)
      /\ statesSem'[p] = 0
  BY <1>2, <1>4 DEF Types, EachProcess, Elsewhere
<1>8. UNCHANGED <<kind, caller, settid, helper, cloneTid, newTid, frame, handler, regs, states,
        pageSem, target, pipe, rough>>
  BY DEF StatesLock, threadVars, lockVars, DropFrame
<1>9. rough \subseteq rough' /\ rough' \subseteq RoughEvents
  BY <1>2, <1>8 DEF Types
<1>10. TypeOK'
  BY <1>2, <1>5, <1>6, <1>7, <1>8, <1>9, TypedNext DEF Types
<1>11. NoHandler'
  BY <1>1, <1>8, <1>9, Zenon DEF NoHandler
<1>12. \A q \in Procs \ {p} : SameButPc(q) /\ pc'[q] = pc[q]
  BY <1>6, <1>7, <1>8, Zenon DEF SameButPc, Elsewhere
<1>13. helper'[p] = helper[p] /\ newTid'[p] = newTid[p] /\ frame'[p] = frame[p] /\
       states'[p] = states[p] /\ caller'[p] = caller[p] /\ settid'[p] = settid[p] /\
       cloneTid'[p] = cloneTid[p]
  BY <1>8, Zenon
<1>14. CallInOrder(p)'
  BY <1>1, <1>3, <1>6, <1>13, <1>9, CallsUndisturbed, Zenon DEF Settled, Ordinary, Becomes
<1>15. helper'[p] = helper[p]
  BY <1>8, Zenon
<1>16. ForkedAlone(p)'
  BY <1>1, <1>3, <1>6, <1>15, Zenon DEF ForkedAlone, Becomes
<1>17. states'[p] = states[p] /\ kind'[p] = kind[p]
  BY <1>8, Zenon
<1>18. Listed(p)'
  BY <1>1, <1>2, <1>3, <1>6, <1>17, Zenon DEF Listed, Becomes
<1>19. kind'[p] = kind[p]
  BY <1>8, Zenon
<1>20. StatesHeld(p)'
  BY <1>1, <1>3, <1>6, <1>7, <1>19, Zenon DEF StatesHeld, Becomes
<1>21. pageSem'[p] = pageSem[p] /\ target'[p] = target[p]
  BY <1>8, Zenon
<1>22. PagesHeld(p)'
  BY <1>1, <1>3, <1>6, <1>21, <1>9, PagesUndisturbed, Zenon DEF Becomes
<1> QED
  BY <1>14, <1>16, <1>18, <1>20, <1>22, <1>9, <1>10, <1>11, <1>12, OneProcess, Zenon DEF InOrder

\* invalidateRange takes the page_map_lock of one state.
LEMMA PageLockStep ==
    ASSUME ThreadsInv, NEW p \in Procs, NEW t \in Slots, NEW u \in Slots, PageLock(p, t, u),
           calls' \in 0 .. MaxCalls
    PROVE  ThreadsInv'
<1>1. /\ TypeOK /\ NoHandler /\ Alive(p)
      /\ CallInOrder(p) /\ ForkedAlone(p) /\ Listed(p)
      /\ StatesHeld(p) /\ PagesHeld(p)
  BY Zenon DEF ThreadsInv, InOrder, PageLock, At
<1>2. Types /\ states[p] \subseteq Slots /\ \A w \in Slots : caller[p][w] \in Slots /\
      target[p][w] \in Slots
  BY <1>1, Typed, SlotsTyped
<1>3. pc[p][t] = "walk"
  BY DEF PageLock, At, Free, Calling
<1>4. /\ pageSem' = [pageSem EXCEPT ![p][u] = 0]
      /\ todo' = [todo EXCEPT ![p][t] = (todo[p][t] \ {u})]
      /\ target' = [target EXCEPT ![p][t] = u]
      /\ pc' = [pc EXCEPT ![p][t] = "patch"]
  BY DEF PageLock, Goto, DropFrame
<1>5. /\ EachThread(pageSem', 0 .. 1) /\ Elsewhere(pageSem', pageSem, p)
      /\ Becomes(pageSem', pageSem, p, u, 0)
  <2>1. EachThread(pageSem, 0 .. 1)
    BY <1>2 DEF Types
  <2> QED
    BY <2>1, <1>4 DEF EachThread, Becomes, Elsewhere
<1>6. /\ EachThread(todo', SUBSET Slots) /\ Elsewhere(todo', todo, p)
      /\ Becomes(todo', todo, p, t, (todo[p][t] \ {u}))
  <2>1. EachThread(todo, SUBSET Slots)
    BY <1>2 DEF Types
  <2>2. (todo[p][t] \ {u}) \in SUBSET Slots
    BY <2>1 DEF EachThread
  <2> QED
    BY <2>1, <2>2, <1>4 DEF EachThread, Becomes, Elsewhere
<1>7. /\ EachThread(target', Slots) /\ Elsewhere(target', target, p)
      /\ Becomes(target', target, p, t, u)
  <2>1. EachThread(target, Slots)
    BY <1>2 DEF Types
  <2> QED
    BY <2>1, <1>4 DEF EachThread, Becomes, Elsewhere
<1>8. /\ EachThread(pc', Places) /\ Elsewhere(pc', pc, p)
      /\ Becomes(pc', pc, p, t, "patch")
  <2>1. EachThread(pc, Places)
    BY <1>2 DEF Types
  <2> QED
    BY <2>1, <1>4 DEF EachThread, Becomes, Elsewhere, Places
<1>9. UNCHANGED <<kind, caller, settid, helper, cloneTid, newTid, frame, handler, regs, states,
        statesSem, pipe, rough>>
  BY DEF PageLock, threadVars, lockVars, DropFrame
<1>10. rough \subseteq rough' /\ rough' \subseteq RoughEvents
  BY <1>2, <1>9 DEF Types
<1>11. TypeOK'
  BY <1>2, <1>5, <1>6, <1>7, <1>8, <1>9, <1>10, TypedNext DEF Types
<1>12. NoHandler'
  BY <1>1, <1>9, <1>10, Zenon DEF NoHandler
<1>13. \A q \in Procs \ {p} : SameButPc(q) /\ pc'[q] = pc[q]
  BY <1>5, <1>7, <1>8, <1>9, Zenon DEF SameButPc, Elsewhere
<1>14. helper'[p] = helper[p] /\ newTid'[p] = newTid[p] /\ frame'[p] = frame[p] /\
       states'[p] = states[p] /\ caller'[p] = caller[p] /\ settid'[p] = settid[p] /\
       cloneTid'[p] = cloneTid[p]
  BY <1>9, Zenon
<1>15. CallInOrder(p)'
  BY <1>1, <1>3, <1>8, <1>14, <1>10, CallsUndisturbed, Zenon DEF Settled, Ordinary, Becomes
<1>16. helper'[p] = helper[p]
  BY <1>9, Zenon
<1>17. ForkedAlone(p)'
  <2>1. ASSUME NEW v \in Slots, pc'[p][v] = "forked" PROVE FALSE
    <3>1. v # t /\ pc[p][v] = "forked"
      BY <2>1, <1>8, <1>16 DEF Becomes
    <3> QED
      BY <1>1, <1>3, <3>1 DEF ForkedAlone
  <2> QED
    BY <2>1 DEF ForkedAlone
<1>18. states'[p] = states[p] /\ kind'[p] = kind[p]
  BY <1>9, Zenon
<1>19. Listed(p)'
  BY <1>1, <1>2, <1>3, <1>8, <1>18, Zenon DEF Listed, Becomes
<1>20. statesSem'[p] = statesSem[p] /\ kind'[p] = kind[p]
  BY <1>9, Zenon
<1>21. StatesHeld(p)'
  BY <1>1, <1>3, <1>8, <1>20, Zenon DEF StatesHeld, Becomes
<1>22. PagesHeld(p)'
  <2> SUFFICES ASSUME "held" \notin rough', NEW w \in Slots, pageSem'[p][w] = 0
               PROVE  pc'[p][w] = "page" \/ \E v \in Slots : pc'[p][v] = "patch" /\ target'[p][v] = w
    BY DEF PagesHeld
  <2>1. CASE w = u
    BY <2>1, <1>5, <1>7, <1>8 DEF Becomes
  <2>2. CASE w # u
    <3>1. pageSem[p][w] = 0
      BY <2>2, <1>5, <1>7, <1>8 DEF Becomes
    <3>2. pc[p][w] = "page" \/ \E v \in Slots : pc[p][v] = "patch" /\ target[p][v] = w
      BY <1>1, <3>1, <1>5, <1>7, <1>8, <1>10 DEF PagesHeld
    <3> QED
      BY <1>3, <2>2, <3>2, <1>5, <1>7, <1>8 DEF Becomes
  <2> QED
    BY <2>1, <2>2
<1> QED
  BY <1>15, <1>17, <1>19, <1>21, <1>22, <1>10, <1>11, <1>12, <1>13, OneProcess, Zenon DEF InOrder

\* invalidateRange gives it back.
LEMMA PageUnlockStep ==
    ASSUME ThreadsInv, NEW p \in Procs, NEW t \in Slots, PageUnlock(p, t), calls' \in 0 .. MaxCalls
    PROVE  ThreadsInv'
<1>1. /\ TypeOK /\ NoHandler /\ Alive(p)
      /\ CallInOrder(p) /\ ForkedAlone(p) /\ Listed(p)
      /\ StatesHeld(p) /\ PagesHeld(p)
  BY Zenon DEF ThreadsInv, InOrder, PageUnlock, At
<1>2. Types /\ states[p] \subseteq Slots /\ \A w \in Slots : caller[p][w] \in Slots /\
      target[p][w] \in Slots
  BY <1>1, Typed, SlotsTyped
<1>3. pc[p][t] = "patch"
  BY DEF PageUnlock, At, Free, Calling
<1>4. /\ pageSem' = [pageSem EXCEPT ![p][target[p][t]] = 1]
      /\ target' = [target EXCEPT ![p][t] = Main]
      /\ pc' = [pc EXCEPT ![p][t] = "walk"]
  BY DEF PageUnlock, Goto, DropFrame
<1>5. /\ EachThread(pageSem', 0 .. 1) /\ Elsewhere(pageSem', pageSem, p)
      /\ Becomes(pageSem', pageSem, p, target[p][t], 1)
  <2>1. EachThread(pageSem, 0 .. 1)
    BY <1>2 DEF Types
  <2> QED
    BY <2>1, <1>4, <1>2 DEF EachThread, Becomes, Elsewhere
<1>6. /\ EachThread(target', Slots) /\ Elsewhere(target', target, p)
      /\ Becomes(target', target, p, t, Main)
  <2>1. EachThread(target, Slots)
    BY <1>2 DEF Types
  <2> QED
    BY <2>1, <1>4, MainAssumption DEF EachThread, Becomes, Elsewhere
<1>7. /\ EachThread(pc', Places) /\ Elsewhere(pc', pc, p)
      /\ Becomes(pc', pc, p, t, "walk")
  <2>1. EachThread(pc, Places)
    BY <1>2 DEF Types
  <2> QED
    BY <2>1, <1>4 DEF EachThread, Becomes, Elsewhere, Places
<1>8. UNCHANGED <<kind, caller, settid, helper, cloneTid, newTid, frame, handler, regs, states,
        statesSem, todo, pipe, rough>>
  BY DEF PageUnlock, threadVars, lockVars, DropFrame
<1>9. rough \subseteq rough' /\ rough' \subseteq RoughEvents
  BY <1>2, <1>8 DEF Types
<1>10. TypeOK'
  BY <1>2, <1>5, <1>6, <1>7, <1>8, <1>9, TypedNext DEF Types
<1>11. NoHandler'
  BY <1>1, <1>8, <1>9, Zenon DEF NoHandler
<1>12. \A q \in Procs \ {p} : SameButPc(q) /\ pc'[q] = pc[q]
  BY <1>5, <1>6, <1>7, <1>8, Zenon DEF SameButPc, Elsewhere
<1>13. helper'[p] = helper[p] /\ newTid'[p] = newTid[p] /\ frame'[p] = frame[p] /\
       states'[p] = states[p] /\ caller'[p] = caller[p] /\ settid'[p] = settid[p] /\
       cloneTid'[p] = cloneTid[p]
  BY <1>8, Zenon
<1>14. CallInOrder(p)'
  BY <1>1, <1>3, <1>7, <1>13, <1>9, CallsUndisturbed, Zenon DEF Settled, Ordinary, Becomes
<1>15. helper'[p] = helper[p]
  BY <1>8, Zenon
<1>16. ForkedAlone(p)'
  BY <1>1, <1>3, <1>7, <1>15, Zenon DEF ForkedAlone, Becomes
<1>17. states'[p] = states[p] /\ kind'[p] = kind[p]
  BY <1>8, Zenon
<1>18. Listed(p)'
  BY <1>1, <1>2, <1>3, <1>7, <1>17, Zenon DEF Listed, Becomes
<1>19. statesSem'[p] = statesSem[p] /\ kind'[p] = kind[p]
  BY <1>8, Zenon
<1>20. StatesHeld(p)'
  BY <1>1, <1>3, <1>7, <1>19, Zenon DEF StatesHeld, Becomes
<1>21. PagesHeld(p)'
  <2> SUFFICES ASSUME "held" \notin rough', NEW w \in Slots, pageSem'[p][w] = 0
               PROVE  pc'[p][w] = "page" \/ \E v \in Slots : pc'[p][v] = "patch" /\ target'[p][v] = w
    BY DEF PagesHeld
  <2>1. w # target[p][t] /\ pageSem[p][w] = 0
    BY <1>2, <1>5, <1>6, <1>7 DEF Becomes
  <2>2. pc[p][w] = "page" \/ \E v \in Slots : pc[p][v] = "patch" /\ target[p][v] = w
    BY <1>1, <2>1, <1>5, <1>6, <1>7, <1>9 DEF PagesHeld
  <2> QED
    BY <1>2, <1>3, <2>1, <2>2, <1>5, <1>6, <1>7 DEF Becomes
<1> QED
  BY <1>14, <1>16, <1>18, <1>20, <1>21, <1>9, <1>10, <1>11, <1>12, OneProcess, Zenon DEF InOrder

\* invalidateRangeGlobal gives states_lock back.
LEMMA StatesUnlockStep ==
    ASSUME ThreadsInv, NEW p \in Procs, NEW t \in Slots, StatesUnlock(p, t), calls' \in 0 .. MaxCalls
    PROVE  ThreadsInv'
<1>1. /\ TypeOK /\ NoHandler /\ Alive(p)
      /\ CallInOrder(p) /\ ForkedAlone(p) /\ Listed(p)
      /\ StatesHeld(p) /\ PagesHeld(p)
  BY Zenon DEF ThreadsInv, InOrder, StatesUnlock, At
<1>2. Types /\ states[p] \subseteq Slots /\ \A w \in Slots : caller[p][w] \in Slots /\
      target[p][w] \in Slots
  BY <1>1, Typed, SlotsTyped
<1>3. pc[p][t] = "walk"
  BY DEF StatesUnlock, At, Free, Calling
<1>4. /\ pc' = [pc EXCEPT ![p][t] = "guest"]
      /\ statesSem' = [statesSem EXCEPT ![p] = 1]
  BY DEF StatesUnlock, Goto, DropFrame
<1>5. /\ EachThread(pc', Places) /\ Elsewhere(pc', pc, p)
      /\ Becomes(pc', pc, p, t, "guest")
  <2>1. EachThread(pc, Places)
    BY <1>2 DEF Types
  <2> QED
    BY <2>1, <1>4 DEF EachThread, Becomes, Elsewhere, Places
<1>6. /\ EachProcess(statesSem', 0 .. 1) /\ Elsewhere(statesSem', statesSem, p)
      /\ statesSem'[p] = 1
  BY <1>2, <1>4 DEF Types, EachProcess, Elsewhere
<1>7. UNCHANGED <<kind, caller, settid, helper, cloneTid, newTid, frame, handler, regs, states,
        pageSem, todo, target, pipe, rough>>
  BY DEF StatesUnlock, threadVars, lockVars, DropFrame
<1>8. rough \subseteq rough' /\ rough' \subseteq RoughEvents
  BY <1>2, <1>7 DEF Types
<1>9. TypeOK'
  BY <1>2, <1>5, <1>6, <1>7, <1>8, TypedNext DEF Types
<1>10. NoHandler'
  BY <1>1, <1>7, <1>8, Zenon DEF NoHandler
<1>11. \A q \in Procs \ {p} : SameButPc(q) /\ pc'[q] = pc[q]
  BY <1>5, <1>6, <1>7, Zenon DEF SameButPc, Elsewhere
<1>12. helper'[p] = helper[p] /\ newTid'[p] = newTid[p] /\ frame'[p] = frame[p] /\
       states'[p] = states[p] /\ caller'[p] = caller[p] /\ settid'[p] = settid[p] /\
       cloneTid'[p] = cloneTid[p]
  BY <1>7, Zenon
<1>13. CallInOrder(p)'
  BY <1>1, <1>3, <1>5, <1>12, <1>8, CallsUndisturbed, Zenon DEF Settled, Ordinary, Becomes
<1>14. helper'[p] = helper[p]
  BY <1>7, Zenon
<1>15. ForkedAlone(p)'
  BY <1>1, <1>3, <1>5, <1>14, Zenon DEF ForkedAlone, Becomes
<1>16. states'[p] = states[p] /\ kind'[p] = kind[p]
  BY <1>7, Zenon
<1>17. Listed(p)'
  BY <1>1, <1>2, <1>3, <1>5, <1>16, Zenon DEF Listed, Becomes
<1>18. kind'[p] = kind[p]
  BY <1>7, Zenon
<1>19. StatesHeld(p)'
  BY <1>5, <1>6, <1>18 DEF StatesHeld
<1>20. pageSem'[p] = pageSem[p] /\ target'[p] = target[p]
  BY <1>7, Zenon
<1>21. PagesHeld(p)'
  BY <1>1, <1>3, <1>5, <1>20, <1>8, PagesUndisturbed, Zenon DEF Becomes
<1> QED
  BY <1>13, <1>15, <1>17, <1>19, <1>21, <1>8, <1>9, <1>10, <1>11, OneProcess, Zenon DEF InOrder

\* The child of a fork starts with a list and a lock of its own.
LEMMA ForkedInitStep ==
    ASSUME ThreadsInv, NEW p \in Procs, NEW t \in Slots, ForkedInit(p, t), calls' \in 0 .. MaxCalls
    PROVE  ThreadsInv'
<1>1. /\ TypeOK /\ NoHandler /\ Alive(p)
      /\ CallInOrder(p) /\ ForkedAlone(p) /\ Listed(p)
      /\ StatesHeld(p) /\ PagesHeld(p)
  BY Zenon DEF ThreadsInv, InOrder, ForkedInit, At
<1>2. Types /\ states[p] \subseteq Slots /\ \A w \in Slots : caller[p][w] \in Slots /\
      target[p][w] \in Slots
  BY <1>1, Typed, SlotsTyped
<1>3. pc[p][t] = "forked"
  BY DEF ForkedInit, At, Free, Calling
<1>4. \A w \in Slots : helper[p][w] = "none" /\ (w # t => pc[p][w] = "none")
  BY <1>1, <1>2, <1>3 DEF ForkedAlone
<1>5. /\ pc' = [pc EXCEPT ![p][t] = "guest"]
      /\ statesSem' = [statesSem EXCEPT ![p] = 1]
      /\ states' = [states EXCEPT ![p] = {t}]
  BY DEF ForkedInit, Goto, DropFrame
<1>6. /\ EachThread(pc', Places) /\ Elsewhere(pc', pc, p)
      /\ Becomes(pc', pc, p, t, "guest")
  <2>1. EachThread(pc, Places)
    BY <1>2 DEF Types
  <2> QED
    BY <2>1, <1>5 DEF EachThread, Becomes, Elsewhere, Places
<1>7. /\ EachProcess(statesSem', 0 .. 1) /\ Elsewhere(statesSem', statesSem, p)
      /\ statesSem'[p] = 1
  BY <1>2, <1>5 DEF Types, EachProcess, Elsewhere
<1>8. /\ EachProcess(states', SUBSET Slots) /\ Elsewhere(states', states, p)
      /\ states'[p] = {t}
  BY <1>2, <1>5 DEF Types, EachProcess, Elsewhere
<1>9. UNCHANGED <<kind, caller, settid, helper, cloneTid, newTid, frame, handler, regs, pageSem, todo,
        target, pipe, rough>>
  BY DEF ForkedInit, threadVars, lockVars, DropFrame
<1>10. rough \subseteq rough' /\ rough' \subseteq RoughEvents
  BY <1>2, <1>9 DEF Types
<1>11. TypeOK'
  BY <1>2, <1>6, <1>7, <1>8, <1>9, <1>10, TypedNext DEF Types
<1>12. NoHandler'
  BY <1>1, <1>9, <1>10, Zenon DEF NoHandler
<1>13. \A q \in Procs \ {p} : SameButPc(q) /\ pc'[q] = pc[q]
  BY <1>6, <1>7, <1>8, <1>9, Zenon DEF SameButPc, Elsewhere
<1>14. helper'[p] = helper[p] /\ newTid'[p] = newTid[p] /\ frame'[p] = frame[p] /\
       caller'[p] = caller[p] /\ settid'[p] = settid[p] /\ cloneTid'[p] = cloneTid[p]
  BY <1>9, Zenon
<1>15. CallInOrder(p)'
  <2>1. \A w \in Slots : ~frame[p][w]
    BY <1>1, <1>2, <1>3, <1>4 DEF CallInOrder, CallOf, Waiting
  <2>2. \A w \in Slots : pc'[p][w] \in {"none", "guest"}
    BY <1>4, <1>6 DEF Becomes
  <2>3. ASSUME NEW w \in Slots PROVE CallOf(p, w)'
    <3>1. CallOf(p, w)
      BY <1>1 DEF CallInOrder
    <3> QED
      BY <1>4, <2>1, <2>2, <3>1, <1>14, <1>10 DEF CallOf
  <2> QED
    BY <2>1, <2>3, <1>14 DEF CallInOrder
<1>16. helper'[p] = helper[p]
  BY <1>9, Zenon
<1>17. ForkedAlone(p)'
  BY <1>1, <1>3, <1>4, <1>6, <1>16, Zenon DEF ForkedAlone, Becomes
<1>18. kind'[p] = kind[p]
  BY <1>9, Zenon
<1>19. Listed(p)'
  BY <1>1, <1>2, <1>3, <1>4, <1>6, <1>8, <1>18, Zenon DEF Listed, Becomes
<1>20. kind'[p] = kind[p]
  BY <1>9, Zenon
<1>21. StatesHeld(p)'
  BY <1>6, <1>7, <1>20 DEF StatesHeld
<1>22. pageSem'[p] = pageSem[p] /\ target'[p] = target[p]
  BY <1>9, Zenon
<1>23. PagesHeld(p)'
  BY <1>1, <1>3, <1>4, <1>6, <1>22, <1>10, PagesUndisturbed, Zenon DEF Becomes
<1> QED
  BY <1>15, <1>17, <1>19, <1>21, <1>23, <1>10, <1>11, <1>12, <1>13, OneProcess, Zenon DEF InOrder

\* FUTEX_WAIT sleeps unless the helper has exited.
LEMMA FutexWaitStep ==
    ASSUME ThreadsInv, NEW p \in Procs, NEW t \in Slots, NEW u \in Slots, FutexWait(p, t, u),
           calls' \in 0 .. MaxCalls
    PROVE  ThreadsInv'
<1>1. /\ TypeOK /\ NoHandler /\ Alive(p)
      /\ CallInOrder(p) /\ ForkedAlone(p) /\ Listed(p)
      /\ StatesHeld(p) /\ PagesHeld(p)
  BY Zenon DEF ThreadsInv, InOrder, FutexWait, At
<1>2. Types /\ states[p] \subseteq Slots /\ \A w \in Slots : caller[p][w] \in Slots /\
      target[p][w] \in Slots
  BY <1>1, Typed, SlotsTyped
<1>3. pc[p][t] = "futex" /\ frame[p][u] /\ caller[p][u] = t
  BY DEF FutexWait, At, Free, Calling
<1>4. \A w \in Slots : frame[p][w] /\ caller[p][w] = t => w = u
  BY <1>1, <1>2, <1>3 DEF CallInOrder
<1>5. /\ pc' = [pc EXCEPT ![p][t] = (IF cloneTid[p][u] = -1 THEN "asleep" ELSE "spin")]
  BY DEF FutexWait, Goto, DropFrame
<1>6. /\ EachThread(pc', Places) /\ Elsewhere(pc', pc, p)
      /\ Becomes(pc', pc, p, t, (IF cloneTid[p][u] = -1 THEN "asleep" ELSE "spin"))
  <2>1. EachThread(pc, Places)
    BY <1>2 DEF Types
  <2> QED
    BY <2>1, <1>5 DEF EachThread, Becomes, Elsewhere, Places
<1>7. UNCHANGED <<kind, caller, settid, helper, cloneTid, newTid, frame, handler, regs, states,
        statesSem, pageSem, todo, target, pipe, rough>>
  BY DEF FutexWait, threadVars, lockVars, DropFrame
<1>8. rough \subseteq rough' /\ rough' \subseteq RoughEvents
  BY <1>2, <1>7 DEF Types
<1>9. TypeOK'
  BY <1>2, <1>6, <1>7, <1>8, TypedNext DEF Types
<1>10. NoHandler'
  BY <1>1, <1>7, <1>8, Zenon DEF NoHandler
<1>11. \A q \in Procs \ {p} : SameButPc(q) /\ pc'[q] = pc[q]
  BY <1>6, <1>7, Zenon DEF SameButPc, Elsewhere
<1>12. states'[p] = states[p]
  BY <1>7, Zenon
<1>13. helper'[p] = helper[p] /\ newTid'[p] = newTid[p] /\ frame'[p] = frame[p] /\
       caller'[p] = caller[p] /\ settid'[p] = settid[p] /\ cloneTid'[p] = cloneTid[p]
  BY <1>7, Zenon
<1>14. CallInOrder(p)'
  <2>1. CallOf(p, u)'
    <3>0. CallOf(p, u) /\ caller[p][u] \in Slots
      BY <1>1, <1>2 DEF CallInOrder
    <3>1. /\ helper'[p][u] = helper[p][u] /\ newTid'[p][u] = newTid[p][u] /\ frame'[p][u] = frame[p][u]
          /\ caller'[p][u] = caller[p][u] /\ settid'[p][u] = settid[p][u] /\
             cloneTid'[p][u] = cloneTid[p][u]
      BY <1>6, <1>13 DEF Becomes
    <3>2. pc'[p][u] = pc[p][u] \/ (pc[p][u] = "futex" /\ pc'[p][u] \in {"asleep", "spin"})
      BY <1>2, <1>3, <1>6 DEF Becomes
    <3>3. pc'[p][caller[p][u]] = (IF cloneTid[p][u] = -1 THEN "asleep" ELSE "spin")
      BY <1>2, <1>3, <1>4, <3>0, <3>2, <1>6, <3>1 DEF CallOf, Waiting, Becomes
    <3> QED
      BY <1>3, <1>4, <3>0, <3>1, <3>2, <3>3, <1>12, <1>8 DEF CallOf, Quiet, Waiting
  <2>2. ASSUME NEW w \in Slots, w # u PROVE CallOf(p, w)'
    <3>1. CallOf(p, w) /\ caller[p][w] \in Slots
      BY <1>1, <1>2 DEF CallInOrder
    <3>2. /\ helper'[p][w] = helper[p][w] /\ newTid'[p][w] = newTid[p][w] /\ frame'[p][w] = frame[p][w]
          /\ caller'[p][w] = caller[p][w] /\ settid'[p][w] = settid[p][w] /\
             cloneTid'[p][w] = cloneTid[p][w]
      BY <2>2, <1>6, <1>13 DEF Becomes
    <3>3. pc'[p][w] = pc[p][w] \/ (pc[p][w] = "futex" /\ pc'[p][w] \in {"asleep", "spin"})
      BY <1>2, <1>3, <2>2, <1>6 DEF Becomes
    <3>4. frame[p][w] => pc'[p][caller[p][w]] = pc[p][caller[p][w]]
      BY <1>2, <1>3, <1>4, <2>2, <3>1, <1>6 DEF CallOf, Waiting, Becomes
    <3> QED
      BY <1>4, <3>1, <3>2, <3>3, <3>4, <1>12, <1>8 DEF CallOf, Quiet, Waiting
  <2>3. ASSUME NEW v \in Slots, NEW w \in Slots, frame'[p][v], frame'[p][w],
          caller'[p][v] = caller'[p][w]
        PROVE  v = w
    BY <1>1, <2>3, <1>6, <1>13 DEF CallInOrder, Becomes
  <2> QED
    BY <2>1, <2>2, <2>3 DEF CallInOrder
<1>15. \A w \in Slots : pc'[p][w] = pc[p][w] \/ (pc[p][w] \in Waiting /\ pc'[p][w] \in Waiting)
  BY <1>3, <1>6 DEF Waiting, Becomes
<1>16. helper'[p] = helper[p]
  BY <1>7, Zenon
<1>17. \A w \in Slots : helper[p][w] = "none" => helper'[p][w] = "none"
  BY <1>3, <1>16 DEF Becomes
<1>18. kind'[p] = kind[p] /\ states'[p] = states[p] /\ statesSem'[p] = statesSem[p] /\
       pageSem'[p] = pageSem[p] /\ target'[p] = target[p]
  BY <1>7, Zenon
<1>19. ForkedAlone(p)' /\ Listed(p)' /\ StatesHeld(p)' /\ PagesHeld(p)'
  BY <1>1, <1>15, <1>17, <1>18, <1>8, OthersUndisturbed
<1> QED
  BY <1>14, <1>19, <1>8, <1>9, <1>10, <1>11, OneProcess, Zenon DEF InOrder

\* CloneMe returns when the new thread has set new_tid.
LEMMA CloneReturnStep ==
    ASSUME ThreadsInv, NEW p \in Procs, NEW t \in Slots, NEW u \in Slots, CloneReturn(p, t, u),
           calls' \in 0 .. MaxCalls
    PROVE  ThreadsInv'
<1>1. /\ TypeOK /\ NoHandler /\ Alive(p)
      /\ CallInOrder(p) /\ ForkedAlone(p) /\ Listed(p)
      /\ StatesHeld(p) /\ PagesHeld(p)
  BY Zenon DEF ThreadsInv, InOrder, CloneReturn, At
<1>2. Types /\ states[p] \subseteq Slots /\ \A w \in Slots : caller[p][w] \in Slots /\
      target[p][w] \in Slots
  BY <1>1, Typed, SlotsTyped
<1>3. pc[p][t] = "spin" /\ frame[p][u] /\ caller[p][u] = t /\ newTid[p][u]
  BY DEF CloneReturn, At, Free, Calling
<1>4. /\ \A w \in Slots : frame[p][w] /\ caller[p][w] = t => w = u
      /\ helper[p][u] \notin {"start", "create"} /\ pc[p][u] \notin {"create", "list", "init"}
      /\ Quiet => helper[p][u] = "none"
  BY <1>1, <1>2, <1>3 DEF CallInOrder, CallOf
<1>5. /\ pc' = [pc EXCEPT ![p][t] = "guest"]
      /\ frame' = [frame EXCEPT ![p][u] = FALSE]
      /\ caller' = [caller EXCEPT ![p][u] = Main]
      /\ settid' = [settid EXCEPT ![p][u] = FALSE]
      /\ cloneTid' = [cloneTid EXCEPT ![p][u] = -1]
      /\ newTid' = [newTid EXCEPT ![p][u] = FALSE]
  BY DEF CloneReturn, Goto, DropFrame
<1>6. /\ EachThread(pc', Places) /\ Elsewhere(pc', pc, p)
      /\ Becomes(pc', pc, p, t, "guest")
  <2>1. EachThread(pc, Places)
    BY <1>2 DEF Types
  <2> QED
    BY <2>1, <1>5 DEF EachThread, Becomes, Elsewhere, Places
<1>7. /\ EachThread(frame', BOOLEAN) /\ Elsewhere(frame', frame, p)
      /\ Becomes(frame', frame, p, u, FALSE)
  <2>1. EachThread(frame, BOOLEAN)
    BY <1>2 DEF Types
  <2> QED
    BY <2>1, <1>5 DEF EachThread, Becomes, Elsewhere
<1>8. /\ EachThread(caller', Slots) /\ Elsewhere(caller', caller, p)
      /\ Becomes(caller', caller, p, u, Main)
  <2>1. EachThread(caller, Slots)
    BY <1>2 DEF Types
  <2>2. Main \in Slots
    BY MainAssumption
  <2> QED
    BY <2>1, <2>2, <1>5 DEF EachThread, Becomes, Elsewhere
<1>9. /\ EachThread(settid', BOOLEAN) /\ Elsewhere(settid', settid, p)
      /\ Becomes(settid', settid, p, u, FALSE)
  <2>1. EachThread(settid, BOOLEAN)
    BY <1>2 DEF Types
  <2> QED
    BY <2>1, <1>5 DEF EachThread, Becomes, Elsewhere
<1>10. /\ EachThread(cloneTid', {-1, 0, 1}) /\ Elsewhere(cloneTid', cloneTid, p)
      /\ Becomes(cloneTid', cloneTid, p, u, -1)
  <2>1. EachThread(cloneTid, {-1, 0, 1})
    BY <1>2 DEF Types
  <2> QED
    BY <2>1, <1>5 DEF EachThread, Becomes, Elsewhere
<1>11. /\ EachThread(newTid', BOOLEAN) /\ Elsewhere(newTid', newTid, p)
      /\ Becomes(newTid', newTid, p, u, FALSE)
  <2>1. EachThread(newTid, BOOLEAN)
    BY <1>2 DEF Types
  <2> QED
    BY <2>1, <1>5 DEF EachThread, Becomes, Elsewhere
<1>12. UNCHANGED <<kind, helper, handler, regs, states, statesSem, pageSem, todo, target, pipe, rough>>
  BY DEF CloneReturn, threadVars, lockVars, DropFrame
<1>13. rough \subseteq rough' /\ rough' \subseteq RoughEvents
  BY <1>2, <1>12 DEF Types
<1>14. TypeOK'
  BY <1>2, <1>6, <1>7, <1>8, <1>9, <1>10, <1>11, <1>12, <1>13, TypedNext DEF Types
<1>15. NoHandler'
  BY <1>1, <1>12, <1>13, Zenon DEF NoHandler
<1>16. \A q \in Procs \ {p} : SameButPc(q) /\ pc'[q] = pc[q]
  BY <1>6, <1>7, <1>8, <1>9, <1>10, <1>11, <1>12, Zenon DEF SameButPc, Elsewhere
<1>17. states'[p] = states[p]
  BY <1>12, Zenon
<1>18. helper'[p] = helper[p]
  BY <1>12, Zenon
<1>19. CallInOrder(p)'
  <2>1. CallOf(p, u)'
    <3>0. CallOf(p, u) /\ caller[p][u] \in Slots
      BY <1>1, <1>2 DEF CallInOrder
    <3>1. /\ helper'[p][u] = helper[p][u] /\ newTid'[p][u] = FALSE /\ frame'[p][u] = FALSE
          /\ caller'[p][u] = Main /\ settid'[p][u] = FALSE /\ cloneTid'[p][u] = -1
      BY <1>6, <1>7, <1>8, <1>9, <1>10, <1>11, <1>18 DEF Becomes
    <3>2. pc'[p][u] = pc[p][u] \/ (pc[p][u] = "spin" /\ pc'[p][u] = "guest")
      BY <1>2, <1>3, <1>6 DEF Becomes
    <3>3. pc'[p][u] \notin {"create", "list", "init"}
      BY <1>2, <1>3, <1>4, <3>0, <3>2, <1>6, <3>1 DEF CallOf, Waiting, Becomes
    <3> QED
      BY <1>3, <1>4, <3>0, <3>1, <3>2, <3>3, <1>17, <1>13 DEF CallOf, Quiet, Waiting
  <2>2. ASSUME NEW w \in Slots, w # u PROVE CallOf(p, w)'
    <3>1. CallOf(p, w) /\ caller[p][w] \in Slots
      BY <1>1, <1>2 DEF CallInOrder
    <3>2. /\ helper'[p][w] = helper[p][w] /\ newTid'[p][w] = newTid[p][w] /\ frame'[p][w] = frame[p][w]
          /\ caller'[p][w] = caller[p][w] /\ settid'[p][w] = settid[p][w] /\
             cloneTid'[p][w] = cloneTid[p][w]
      BY <2>2, <1>6, <1>7, <1>8, <1>9, <1>10, <1>11, <1>18 DEF Becomes
    <3>3. pc'[p][w] = pc[p][w] \/ (pc[p][w] = "spin" /\ pc'[p][w] = "guest")
      BY <1>2, <1>3, <2>2, <1>6 DEF Becomes
    <3>4. frame[p][w] => pc'[p][caller[p][w]] = pc[p][caller[p][w]]
      BY <1>2, <1>3, <1>4, <2>2, <3>1, <1>6 DEF CallOf, Waiting, Becomes
    <3> QED
      BY <1>4, <3>1, <3>2, <3>3, <3>4, <1>17, <1>13 DEF CallOf, Quiet, Waiting
  <2>3. ASSUME NEW v \in Slots, NEW w \in Slots, frame'[p][v], frame'[p][w],
          caller'[p][v] = caller'[p][w]
        PROVE  v = w
    <3>1. \A x \in Slots : frame'[p][x] => x # u /\ frame[p][x] /\ caller'[p][x] = caller[p][x]
      BY <1>6, <1>7, <1>8, <1>9, <1>10, <1>11, <1>18 DEF Becomes
    <3> QED
      BY <1>1, <2>3, <3>1 DEF CallInOrder
  <2> QED
    BY <2>1, <2>2, <2>3 DEF CallInOrder
<1>20. helper'[p] = helper[p]
  BY <1>12, Zenon
<1>21. ForkedAlone(p)'
  BY <1>1, <1>3, <1>4, <1>6, <1>20, Zenon DEF ForkedAlone, Becomes
<1>22. states'[p] = states[p] /\ kind'[p] = kind[p]
  BY <1>12, Zenon
<1>23. Listed(p)'
  BY <1>1, <1>2, <1>3, <1>4, <1>6, <1>22, Zenon DEF Listed, Becomes
<1>24. statesSem'[p] = statesSem[p] /\ kind'[p] = kind[p]
  BY <1>12, Zenon
<1>25. StatesHeld(p)'
  BY <1>1, <1>3, <1>4, <1>6, <1>24, Zenon DEF StatesHeld, Becomes
<1>26. pageSem'[p] = pageSem[p] /\ target'[p] = target[p]
  BY <1>12, Zenon
<1>27. PagesHeld(p)'
  BY <1>1, <1>3, <1>4, <1>6, <1>26, <1>13, PagesUndisturbed, Zenon DEF Becomes
<1> QED
  BY <1>19, <1>21, <1>23, <1>25, <1>27, <1>13, <1>14, <1>15, <1>16, OneProcess, Zenon DEF InOrder

\* rt_sigreturn: CloneMe goes on, and no longer sleeps.
LEMMA SigreturnStep ==
    ASSUME ThreadsInv, NEW p \in Procs, NEW t \in Slots, Sigreturn(p, t), calls' \in 0 .. MaxCalls
    PROVE  ThreadsInv'
<1>1. /\ TypeOK /\ NoHandler /\ Alive(p)
      /\ CallInOrder(p) /\ ForkedAlone(p) /\ Listed(p)
      /\ StatesHeld(p) /\ PagesHeld(p)
  BY Zenon DEF ThreadsInv, InOrder, Sigreturn, At
<1>2. Types /\ states[p] \subseteq Slots /\ \A w \in Slots : caller[p][w] \in Slots /\
      target[p][w] \in Slots
  BY <1>1, Typed, SlotsTyped
<1>3. handler[p][t]
  BY DEF Sigreturn, At, Free, Calling
<1>4. "eintr" \in rough
  BY <1>1, <1>2, <1>3, Zenon DEF NoHandler
<1>5. /\ handler' = [handler EXCEPT ![p][t] = FALSE]
      /\ regs' = [regs EXCEPT ![p][t] = "app"]
      /\ pc' = [pc EXCEPT ![p][t] = (IF pc[p][t] = "asleep" THEN "spin" ELSE pc[p][t])]
  BY DEF Sigreturn, Goto, DropFrame
<1>6. /\ EachThread(handler', BOOLEAN) /\ Elsewhere(handler', handler, p)
      /\ Becomes(handler', handler, p, t, FALSE)
  <2>1. EachThread(handler, BOOLEAN)
    BY <1>2 DEF Types
  <2> QED
    BY <2>1, <1>5 DEF EachThread, Becomes, Elsewhere
<1>7. /\ EachThread(regs', {"app", "handler"}) /\ Elsewhere(regs', regs, p)
      /\ Becomes(regs', regs, p, t, "app")
  <2>1. EachThread(regs, {"app", "handler"})
    BY <1>2 DEF Types
  <2> QED
    BY <2>1, <1>5 DEF EachThread, Becomes, Elsewhere
<1>8. /\ EachThread(pc', Places) /\ Elsewhere(pc', pc, p)
      /\ Becomes(pc', pc, p, t, (IF pc[p][t] = "asleep" THEN "spin" ELSE pc[p][t]))
  <2>1. EachThread(pc, Places)
    BY <1>2 DEF Types
  <2>2. (IF pc[p][t] = "asleep" THEN "spin" ELSE pc[p][t]) \in Places
    BY <2>1 DEF EachThread, Places
  <2> QED
    BY <2>1, <2>2, <1>5 DEF EachThread, Becomes, Elsewhere
<1>9. UNCHANGED <<kind, caller, settid, helper, cloneTid, newTid, frame, states, statesSem, pageSem,
        todo, target, pipe, rough>>
  BY DEF Sigreturn, threadVars, lockVars, DropFrame
<1>10. rough \subseteq rough' /\ rough' \subseteq RoughEvents
  BY <1>2, <1>9 DEF Types
<1>11. TypeOK'
  BY <1>2, <1>6, <1>7, <1>8, <1>9, <1>10, TypedNext DEF Types
<1>12. NoHandler'
  BY <1>1, <1>2, <1>3, <1>6, <1>7, <1>9, <1>10, Zenon DEF NoHandler, Becomes, Elsewhere
<1>13. \A q \in Procs \ {p} : SameButPc(q) /\ pc'[q] = pc[q]
  BY <1>8, <1>9, Zenon DEF SameButPc, Elsewhere
<1>14. helper'[p] = helper[p] /\ newTid'[p] = newTid[p] /\ frame'[p] = frame[p] /\
       states'[p] = states[p] /\ caller'[p] = caller[p] /\ settid'[p] = settid[p] /\
       cloneTid'[p] = cloneTid[p]
  BY <1>9, Zenon
<1>15. CallInOrder(p)'
  <2>1. ~Quiet'
    BY <1>4, <1>10 DEF Quiet
  <2>2. \A w \in Slots : pc'[p][w] = pc[p][w] \/ (pc[p][w] = "asleep" /\ pc'[p][w] = "spin")
    BY <1>8, <1>14, Zenon DEF Becomes
  <2>3. ASSUME NEW w \in Slots PROVE CallOf(p, w)'
    <3>1. CallOf(p, w) /\ caller[p][w] \in Slots
      BY <1>1, <1>2 DEF CallInOrder
    <3> QED
      BY <2>1, <2>2, <3>1, <1>14, <1>10, Zenon DEF CallOf, Waiting
  <2> QED
    BY <1>1, <2>3, <1>14, Zenon DEF CallInOrder
<1>16. \A w \in Slots : pc'[p][w] = pc[p][w] \/ (pc[p][w] \in Waiting /\ pc'[p][w] \in Waiting)
  BY <1>3, <1>8 DEF Waiting, Becomes
<1>17. helper'[p] = helper[p]
  BY <1>9, Zenon
<1>18. \A w \in Slots : helper[p][w] = "none" => helper'[p][w] = "none"
  BY <1>3, <1>17 DEF Becomes
<1>19. kind'[p] = kind[p] /\ states'[p] = states[p] /\ statesSem'[p] = statesSem[p] /\
       pageSem'[p] = pageSem[p] /\ target'[p] = target[p]
  BY <1>9, Zenon
<1>20. ForkedAlone(p)' /\ Listed(p)' /\ StatesHeld(p)' /\ PagesHeld(p)'
  BY <1>1, <1>16, <1>18, <1>19, <1>10, OthersUndisturbed
<1> QED
  BY <1>15, <1>20, <1>10, <1>11, <1>12, <1>13, OneProcess, Zenon DEF InOrder

\* The helper starts, with its tid in clone_tid if the flags say so.
LEMMA HelperStartStep ==
    ASSUME ThreadsInv, NEW p \in Procs, NEW u \in Slots, HelperStart(p, u), calls' \in 0 .. MaxCalls
    PROVE  ThreadsInv'
<1>1. /\ TypeOK /\ NoHandler /\ Alive(p)
      /\ CallInOrder(p) /\ ForkedAlone(p) /\ Listed(p)
      /\ StatesHeld(p) /\ PagesHeld(p)
  BY Zenon DEF ThreadsInv, InOrder, HelperStart, At
<1>2. Types /\ states[p] \subseteq Slots /\ \A w \in Slots : caller[p][w] \in Slots /\
      target[p][w] \in Slots
  BY <1>1, Typed, SlotsTyped
<1>3. helper[p][u] = "start"
  BY DEF HelperStart, At, Free, Calling
<1>4. (settid[p][u] => ~Quiet) /\ ForkedAlone(p)
  BY <1>1, <1>2, <1>3, Zenon DEF CallInOrder, CallOf, Quiet
<1>5. /\ helper' = [helper EXCEPT ![p][u] = "create"]
  BY DEF HelperStart, Goto, DropFrame
<1>6. /\ EachThread(cloneTid', {-1, 0, 1}) /\ Elsewhere(cloneTid', cloneTid, p)
      /\ Becomes(cloneTid', cloneTid, p, u, (IF settid[p][u] THEN 1 ELSE cloneTid[p][u]))
  <2>1. EachThread(cloneTid, {-1, 0, 1})
    BY <1>2 DEF Types
  <2>2. (IF settid[p][u] THEN 1 ELSE cloneTid[p][u]) \in {-1, 0, 1}
    BY <2>1 DEF EachThread
  <2>3. ASSUME settid[p][u] PROVE cloneTid' = [cloneTid EXCEPT ![p][u] = 1]
    BY <2>3 DEF HelperStart
  <2>4. ASSUME ~(settid[p][u]) PROVE cloneTid' = cloneTid
    BY <2>4 DEF HelperStart
  <2> QED
    BY <2>1, <2>2, <2>3, <2>4 DEF EachThread, Becomes, Elsewhere
<1>7. /\ EachThread(helper', {"none", "start", "create", "detach"}) /\ Elsewhere(helper', helper, p)
      /\ Becomes(helper', helper, p, u, "create")
  <2>1. EachThread(helper, {"none", "start", "create", "detach"})
    BY <1>2 DEF Types
  <2> QED
    BY <2>1, <1>5 DEF EachThread, Becomes, Elsewhere
<1>8. UNCHANGED <<kind, caller, settid, newTid, frame, handler, regs, states, statesSem, pageSem, todo,
        target, pipe, rough, pc>>
  BY DEF HelperStart, threadVars, lockVars, DropFrame
<1>9. rough \subseteq rough' /\ rough' \subseteq RoughEvents
  BY <1>2, <1>8 DEF Types
<1>10. TypeOK'
  BY <1>2, <1>6, <1>7, <1>8, <1>9, TypedNext DEF Types
<1>11. NoHandler'
  BY <1>1, <1>8, <1>9, Zenon DEF NoHandler
<1>12. \A q \in Procs \ {p} : SameButPc(q) /\ pc'[q] = pc[q]
  BY <1>6, <1>7, <1>8, Zenon DEF SameButPc, Elsewhere
<1>13. states'[p] = states[p]
  BY <1>8, Zenon
<1>14. pc'[p] = pc[p] /\ newTid'[p] = newTid[p] /\ frame'[p] = frame[p] /\ caller'[p] = caller[p] /\
       settid'[p] = settid[p]
  BY <1>8, Zenon
<1>15. CallInOrder(p)'
  <2>1. CallOf(p, u)'
    <3>0. CallOf(p, u) /\ caller[p][u] \in Slots
      BY <1>1, <1>2 DEF CallInOrder
    <3>1. /\ helper'[p][u] = "create" /\ newTid'[p][u] = newTid[p][u] /\ frame'[p][u] = frame[p][u]
          /\ caller'[p][u] = caller[p][u] /\ settid'[p][u] = settid[p][u] /\
             cloneTid'[p][u] = (IF settid[p][u] THEN 1 ELSE cloneTid[p][u])
      BY <1>6, <1>7, <1>14, Zenon DEF Becomes
    <3>2. pc'[p][u] = pc[p][u]
      BY <1>2, <1>3, <1>6, <1>7, <1>14 DEF Becomes
    <3>3. frame[p][u] => pc'[p][caller[p][u]] = pc[p][caller[p][u]]
      BY <1>2, <1>3, <1>4, <3>0, <3>2, <1>6, <1>7, <1>14, <3>1 DEF CallOf, Waiting, Becomes
    <3> QED
      BY <1>3, <1>4, <3>0, <3>1, <3>2, <3>3, <1>13, <1>9 DEF CallOf, Quiet, Waiting
  <2>2. ASSUME NEW w \in Slots, w # u PROVE CallOf(p, w)'
    <3>1. CallOf(p, w) /\ caller[p][w] \in Slots
      BY <1>1, <1>2 DEF CallInOrder
    <3>2. /\ helper'[p][w] = helper[p][w] /\ newTid'[p][w] = newTid[p][w] /\ frame'[p][w] = frame[p][w]
          /\ caller'[p][w] = caller[p][w] /\ settid'[p][w] = settid[p][w] /\
             cloneTid'[p][w] = cloneTid[p][w]
      BY <2>2, <1>6, <1>7, <1>14 DEF Becomes
    <3>3. pc'[p][w] = pc[p][w]
      BY <1>2, <1>3, <2>2, <1>6, <1>7, <1>14 DEF Becomes
    <3>4. frame[p][w] => pc'[p][caller[p][w]] = pc[p][caller[p][w]]
      BY <1>2, <1>3, <1>4, <2>2, <3>1, <1>6, <1>7, <1>14 DEF CallOf, Waiting, Becomes
    <3> QED
      BY <1>4, <3>1, <3>2, <3>3, <3>4, <1>13, <1>9, Zenon DEF CallOf, Quiet, Waiting
  <2>3. ASSUME NEW v \in Slots, NEW w \in Slots, frame'[p][v], frame'[p][w],
          caller'[p][v] = caller'[p][w]
        PROVE  v = w
    BY <1>1, <2>3, <1>6, <1>7, <1>14, Zenon DEF CallInOrder, Becomes
  <2> QED
    BY <2>1, <2>2, <2>3 DEF CallInOrder
<1>16. pc'[p] = pc[p]
  BY <1>8, Zenon
<1>17. \A w \in Slots : pc'[p][w] = pc[p][w] \/ (pc[p][w] \in Waiting /\ pc'[p][w] \in Waiting)
  BY <1>3, <1>16 DEF Waiting, Becomes
<1>18. \A w \in Slots : helper[p][w] = "none" => helper'[p][w] = "none"
  BY <1>3, <1>7 DEF Becomes
<1>19. kind'[p] = kind[p] /\ states'[p] = states[p] /\ statesSem'[p] = statesSem[p] /\
       pageSem'[p] = pageSem[p] /\ target'[p] = target[p]
  BY <1>8, Zenon
<1>20. ForkedAlone(p)' /\ Listed(p)' /\ StatesHeld(p)' /\ PagesHeld(p)'
  BY <1>1, <1>17, <1>18, <1>19, <1>9, OthersUndisturbed
<1> QED
  BY <1>15, <1>20, <1>9, <1>10, <1>11, <1>12, OneProcess, Zenon DEF InOrder

\* The helper exits, and the kernel wakes who sleeps on clone_tid.
LEMMA HelperExitStep ==
    ASSUME ThreadsInv, NEW p \in Procs, NEW u \in Slots, HelperExit(p, u), calls' \in 0 .. MaxCalls
    PROVE  ThreadsInv'
<1>1. /\ TypeOK /\ NoHandler /\ Alive(p)
      /\ CallInOrder(p) /\ ForkedAlone(p) /\ Listed(p)
      /\ StatesHeld(p) /\ PagesHeld(p)
  BY Zenon DEF ThreadsInv, InOrder, HelperExit, At
<1>2. Types /\ states[p] \subseteq Slots /\ \A w \in Slots : caller[p][w] \in Slots /\
      target[p][w] \in Slots
  BY <1>1, Typed, SlotsTyped
<1>3. helper[p][u] = "detach"
  BY DEF HelperExit, At, Free, Calling
<1>4. /\ Quiet => frame[p][u]
      /\ \A w \in Slots : frame[p][w] /\ frame[p][u] /\ caller[p][w] = caller[p][u] => w = u
  BY <1>1, <1>2, <1>3, Zenon DEF CallInOrder, CallOf
<1>5. /\ helper' = [helper EXCEPT ![p][u] = "none"]
  BY DEF HelperExit, Goto, DropFrame
<1>6. /\ EachThread(helper', {"none", "start", "create", "detach"}) /\ Elsewhere(helper', helper, p)
      /\ Becomes(helper', helper, p, u, "none")
  <2>1. EachThread(helper, {"none", "start", "create", "detach"})
    BY <1>2 DEF Types
  <2> QED
    BY <2>1, <1>5 DEF EachThread, Becomes, Elsewhere
<1>7. /\ EachThread(cloneTid', {-1, 0, 1}) /\ Elsewhere(cloneTid', cloneTid, p)
      /\ Becomes(cloneTid', cloneTid, p, u, (IF frame[p][u] THEN 0 ELSE cloneTid[p][u]))
  <2>1. EachThread(cloneTid, {-1, 0, 1})
    BY <1>2 DEF Types
  <2>2. (IF frame[p][u] THEN 0 ELSE cloneTid[p][u]) \in {-1, 0, 1}
    BY <2>1 DEF EachThread
  <2>3. ASSUME frame[p][u] PROVE cloneTid' = [cloneTid EXCEPT ![p][u] = 0]
    BY <2>3 DEF HelperExit
  <2>4. ASSUME ~(frame[p][u]) PROVE cloneTid' = cloneTid
    BY <2>4 DEF HelperExit
  <2> QED
    BY <2>1, <2>2, <2>3, <2>4 DEF EachThread, Becomes, Elsewhere
<1>8. /\ EachThread(pc', Places) /\ Elsewhere(pc', pc, p)
      /\ Becomes(pc', pc, p, caller[p][u],
                 (IF frame[p][u] /\ pc[p][caller[p][u]] = "asleep" /\ ~handler[p][caller[p][u]]
                  THEN "spin" ELSE pc[p][caller[p][u]]))
  <2>1. EachThread(pc, Places)
    BY <1>2 DEF Types
  <2>2. (IF frame[p][u] /\ pc[p][caller[p][u]] = "asleep" /\ ~handler[p][caller[p][u]]
         THEN "spin" ELSE pc[p][caller[p][u]]) \in Places
    BY <1>2, <2>1 DEF EachThread, Places
  <2>3. ASSUME frame[p][u] /\ pc[p][caller[p][u]] = "asleep" /\
          ~handler[p][caller[p][u]] PROVE pc' = [pc EXCEPT ![p][caller[p][u]] = "spin"]
    BY <2>3 DEF HelperExit
  <2>4. ASSUME ~(frame[p][u] /\ pc[p][caller[p][u]] = "asleep" /\ ~handler[p][caller[p][u]]) PROVE pc' = pc
    BY <2>4 DEF HelperExit
  <2> QED
    BY <2>1, <2>2, <2>3, <2>4, <1>2 DEF EachThread, Becomes, Elsewhere, Places
<1>9. UNCHANGED <<kind, caller, settid, newTid, frame, handler, regs, states, statesSem, pageSem, todo,
        target, pipe, rough>>
  BY DEF HelperExit, threadVars, lockVars, DropFrame
<1>10. rough \subseteq rough' /\ rough' \subseteq RoughEvents
  BY <1>2, <1>9 DEF Types
<1>11. TypeOK'
  BY <1>2, <1>6, <1>7, <1>8, <1>9, <1>10, TypedNext DEF Types
<1>12. NoHandler'
  BY <1>1, <1>9, <1>10, Zenon DEF NoHandler
<1>13. \A q \in Procs \ {p} : SameButPc(q) /\ pc'[q] = pc[q]
  BY <1>6, <1>7, <1>8, <1>9, Zenon DEF SameButPc, Elsewhere
<1>14. states'[p] = states[p]
  BY <1>9, Zenon
<1>15. newTid'[p] = newTid[p] /\ frame'[p] = frame[p] /\ caller'[p] = caller[p] /\
       settid'[p] = settid[p]
  BY <1>9, Zenon
<1>16. CallInOrder(p)'
  <2>1. CallOf(p, u)'
    <3>0. CallOf(p, u) /\ caller[p][u] \in Slots
      BY <1>1, <1>2 DEF CallInOrder
    <3>1. /\ helper'[p][u] = "none" /\ newTid'[p][u] = newTid[p][u] /\ frame'[p][u] = frame[p][u]
          /\ caller'[p][u] = caller[p][u] /\ settid'[p][u] = settid[p][u] /\
             cloneTid'[p][u] = (IF frame[p][u] THEN 0 ELSE cloneTid[p][u])
      BY <1>6, <1>7, <1>8, <1>15 DEF Becomes
    <3>2. pc'[p][u] = pc[p][u] \/ (pc[p][u] = "asleep" /\ pc'[p][u] = "spin")
      BY <1>2, <1>3, <1>8 DEF Becomes
    <3>3. frame[p][u] => pc'[p][caller[p][u]] \in Waiting
      BY <1>2, <1>3, <1>4, <3>0, <3>2, <1>8, <3>1, Zenon DEF CallOf, Waiting, Becomes
    <3> QED
      BY <1>3, <1>4, <3>0, <3>1, <3>2, <3>3, <1>14, <1>10 DEF CallOf, Quiet, Waiting
  <2>2. ASSUME NEW w \in Slots, w # u PROVE CallOf(p, w)'
    <3>1. CallOf(p, w) /\ caller[p][w] \in Slots
      BY <1>1, <1>2 DEF CallInOrder
    <3>2. /\ helper'[p][w] = helper[p][w] /\ newTid'[p][w] = newTid[p][w] /\ frame'[p][w] = frame[p][w]
          /\ caller'[p][w] = caller[p][w] /\ settid'[p][w] = settid[p][w] /\
             cloneTid'[p][w] = cloneTid[p][w]
      BY <2>2, <1>6, <1>7, <1>8, <1>15 DEF Becomes
    <3>3. pc'[p][w] = pc[p][w] \/ (pc[p][w] = "asleep" /\ pc'[p][w] = "spin")
      BY <1>2, <1>3, <2>2, <1>8, Zenon DEF Becomes
    <3>4. frame[p][w] => pc'[p][caller[p][w]] \in Waiting /\
          (frame[p][u] => pc'[p][caller[p][w]] = pc[p][caller[p][w]])
      BY <1>2, <1>3, <1>4, <2>2, <3>1, <1>8 DEF CallOf, Waiting, Becomes
    <3> QED
      BY <1>4, <3>1, <3>2, <3>3, <3>4, <1>14, <1>10 DEF CallOf, Quiet, Waiting
  <2>3. ASSUME NEW v \in Slots, NEW w \in Slots, frame'[p][v], frame'[p][w],
          caller'[p][v] = caller'[p][w]
        PROVE  v = w
    BY <1>1, <2>3, <1>6, <1>7, <1>8, <1>15, Zenon DEF CallInOrder, Becomes
  <2> QED
    BY <2>1, <2>2, <2>3 DEF CallInOrder
<1>17. \A w \in Slots : pc'[p][w] = pc[p][w] \/ (pc[p][w] \in Waiting /\ pc'[p][w] \in Waiting)
  BY <1>3, <1>8 DEF Waiting, Becomes
<1>18. \A w \in Slots : helper[p][w] = "none" => helper'[p][w] = "none"
  BY <1>3, <1>6 DEF Becomes
<1>19. kind'[p] = kind[p] /\ states'[p] = states[p] /\ statesSem'[p] = statesSem[p] /\
       pageSem'[p] = pageSem[p] /\ target'[p] = target[p]
  BY <1>9, Zenon
<1>20. ForkedAlone(p)' /\ Listed(p)' /\ StatesHeld(p)' /\ PagesHeld(p)'
  BY <1>1, <1>17, <1>18, <1>19, <1>10, OthersUndisturbed
<1> QED
  BY <1>16, <1>20, <1>10, <1>11, <1>12, <1>13, OneProcess, Zenon DEF InOrder

\* ThreadState::Destroy takes the state off the list; the end of the first thread
\* is the end of the process.
LEMMA DestroyStep ==
    ASSUME ThreadsInv, NEW p \in Procs, NEW t \in Slots, Destroy(p, t), calls' \in 0 .. MaxCalls
    PROVE  ThreadsInv'
<1>1. /\ TypeOK /\ NoHandler /\ Alive(p)
      /\ CallInOrder(p) /\ ForkedAlone(p) /\ Listed(p)
      /\ StatesHeld(p) /\ PagesHeld(p)
  BY Zenon DEF ThreadsInv, InOrder, Destroy, At
<1>2. Types /\ states[p] \subseteq Slots /\ \A w \in Slots : caller[p][w] \in Slots /\
      target[p][w] \in Slots
  BY <1>1, Typed, SlotsTyped
<1>3. pc[p][t] = "exit"
  BY DEF Destroy, At, Free, Calling
<1>4. /\ pc' = [pc EXCEPT ![p][t] = "none"]
      /\ states' = [states EXCEPT ![p] = (states[p] \ {t})]
  BY DEF Destroy, Goto, DropFrame
<1>5. /\ EachThread(pc', Places) /\ Elsewhere(pc', pc, p)
      /\ Becomes(pc', pc, p, t, "none")
  <2>1. EachThread(pc, Places)
    BY <1>2 DEF Types
  <2> QED
    BY <2>1, <1>4 DEF EachThread, Becomes, Elsewhere, Places
<1>6. /\ EachProcess(states', SUBSET Slots) /\ Elsewhere(states', states, p)
      /\ states'[p] = (states[p] \ {t})
  BY <1>2, <1>4 DEF Types, EachProcess, Elsewhere
<1>7. /\ EachProcess(kind', {"none", "start", "fork", "vfork", "gone"}) /\ Elsewhere(kind', kind, p)
      /\ kind'[p] = (IF t = Main THEN "gone" ELSE kind[p])
  BY <1>2 DEF Types, Destroy, Ended, EachProcess, Elsewhere
<1>8. pipe' \subseteq Procs
  BY <1>2 DEF Types, Destroy, Ended
<1>9. UNCHANGED <<caller, settid, helper, cloneTid, newTid, frame, handler, regs, statesSem, pageSem,
        todo, target, rough>>
  BY DEF Destroy, threadVars, lockVars, DropFrame
<1>10. rough \subseteq rough' /\ rough' \subseteq RoughEvents
  BY <1>2, <1>9 DEF Types
<1>11. TypeOK'
  BY <1>2, <1>5, <1>6, <1>7, <1>8, <1>9, <1>10, TypedNext DEF Types
<1>12. NoHandler'
  BY <1>1, <1>9, <1>10, Zenon DEF NoHandler
<1>13. \A q \in Procs \ {p} : SameButPc(q) /\ pc'[q] = pc[q]
  BY <1>5, <1>6, <1>7, <1>9, Zenon DEF SameButPc, Elsewhere
<1>14. helper'[p] = helper[p] /\ newTid'[p] = newTid[p] /\ frame'[p] = frame[p] /\
       caller'[p] = caller[p] /\ settid'[p] = settid[p] /\ cloneTid'[p] = cloneTid[p]
  BY <1>9, Zenon
<1>15. CallInOrder(p)'
  <2>1. CallOf(p, t)'
    <3>0. CallOf(p, t) /\ caller[p][t] \in Slots
      BY <1>1, <1>2 DEF CallInOrder
    <3>1. /\ helper'[p][t] = helper[p][t] /\ newTid'[p][t] = newTid[p][t] /\ frame'[p][t] = frame[p][t]
          /\ caller'[p][t] = caller[p][t] /\ settid'[p][t] = settid[p][t] /\
             cloneTid'[p][t] = cloneTid[p][t]
      BY <1>5, <1>14 DEF Becomes
    <3>2. pc'[p][t] = "none" /\ pc[p][t] = "exit"
      BY <1>2, <1>3, <1>5 DEF Becomes
    <3>3. frame[p][t] => pc'[p][caller[p][t]] = pc[p][caller[p][t]]
      BY <1>2, <1>3, <3>0, <3>2, <1>5, <3>1 DEF CallOf, Waiting, Becomes
    <3> QED
      BY <1>3, <3>0, <3>1, <3>2, <3>3, <1>6, <1>10 DEF CallOf, Quiet, Waiting
  <2>2. ASSUME NEW w \in Slots, w # t PROVE CallOf(p, w)'
    <3>1. CallOf(p, w) /\ caller[p][w] \in Slots
      BY <1>1, <1>2 DEF CallInOrder
    <3>2. /\ helper'[p][w] = helper[p][w] /\ newTid'[p][w] = newTid[p][w] /\ frame'[p][w] = frame[p][w]
          /\ caller'[p][w] = caller[p][w] /\ settid'[p][w] = settid[p][w] /\
             cloneTid'[p][w] = cloneTid[p][w]
      BY <2>2, <1>5, <1>14 DEF Becomes
    <3>3. pc'[p][w] = pc[p][w]
      BY <1>2, <1>3, <2>2, <1>5 DEF Becomes
    <3>4. frame[p][w] => pc'[p][caller[p][w]] = pc[p][caller[p][w]]
      BY <1>2, <1>3, <2>2, <3>1, <1>5 DEF CallOf, Waiting, Becomes
    <3> QED
      BY <2>2, <3>1, <3>2, <3>3, <3>4, <1>6, <1>10 DEF CallOf, Quiet, Waiting
  <2>3. ASSUME NEW v \in Slots, NEW w \in Slots, frame'[p][v], frame'[p][w],
          caller'[p][v] = caller'[p][w]
        PROVE  v = w
    BY <1>1, <2>3, <1>5, <1>14 DEF CallInOrder, Becomes
  <2> QED
    BY <2>1, <2>2, <2>3 DEF CallInOrder
<1>16. helper'[p] = helper[p]
  BY <1>9, Zenon
<1>17. ForkedAlone(p)'
  BY <1>1, <1>3, <1>5, <1>16, Zenon DEF ForkedAlone, Becomes
<1>18. Listed(p)'
  BY <1>1, <1>2, <1>3, <1>5, <1>6, <1>7, Zenon DEF Listed, Becomes
<1>19. statesSem'[p] = statesSem[p]
  BY <1>9, Zenon
<1>20. StatesHeld(p)'
  BY <1>1, <1>3, <1>5, <1>7, <1>19, Zenon DEF StatesHeld, Becomes
<1>21. pageSem'[p] = pageSem[p] /\ target'[p] = target[p]
  BY <1>9, Zenon
<1>22. PagesHeld(p)'
  BY <1>1, <1>3, <1>5, <1>21, <1>10, PagesUndisturbed, Zenon DEF Becomes
<1> QED
  BY <1>15, <1>17, <1>18, <1>20, <1>22, <1>10, <1>11, <1>12, <1>13, OneProcess, Zenon DEF InOrder

\* A handler runs on top of CloneMe; from then on less is promised.
LEMMA SignalStep ==
    ASSUME ThreadsInv, NEW p \in Procs, NEW t \in Slots, Signal(p, t), calls' \in 0 .. MaxCalls
    PROVE  ThreadsInv'
<1>1. TypeOK /\ \A q \in Procs : InOrder(q)
  BY DEF ThreadsInv
<1>2. UNCHANGED <<kind, pc, caller, settid, helper, cloneTid, newTid, frame, states, statesSem,
        pageSem, todo, target, pipe>>
  BY DEF Signal, lockVars
<1>3. rough \subseteq rough' /\ rough' \subseteq RoughEvents /\ "eintr" \in rough'
  BY <1>1 DEF Signal, TypeOK, RoughEvents
<1>4. handler' \in [Procs -> [Slots -> BOOLEAN]]
  BY <1>1 DEF Signal, TypeOK
<1>5. regs' \in [Procs -> [Slots -> {"app", "handler"}]]
  BY <1>1 DEF Signal, TypeOK
<1>6. TypeOK'
  BY <1>1, <1>2, <1>3, <1>4, <1>5 DEF TypeOK
<1>7. NoHandler'
  BY <1>3 DEF NoHandler
<1>8. \A q \in Procs : SameButPc(q) /\ pc'[q] = pc[q]
  BY <1>2 DEF SameButPc
<1>9. \A q \in Procs : InOrder(q)'
  BY <1>1, <1>3, <1>8, Undisturbed
<1> QED
  BY <1>6, <1>7, <1>9 DEF ThreadsInv

\* execve ends what felix86 knows of the process.
LEMMA ExecStep ==
    ASSUME ThreadsInv, NEW p \in Procs, NEW t \in Slots, Exec(p, t), calls' \in 0 .. MaxCalls
    PROVE  ThreadsInv'
<1>1. TypeOK /\ NoHandler
  BY DEF ThreadsInv
<1>2. UNCHANGED <<caller, settid, helper, cloneTid, newTid, frame, handler, regs, states, statesSem,
        pageSem, todo, target, rough>>
  BY DEF Exec, threadVars, lockVars
<1>3. /\ kind' \in [Procs -> {"none", "start", "fork", "vfork", "gone"}] /\ kind'[p] = "gone"
      /\ \A q \in Procs \ {p} : kind'[q] = kind[q]
  BY <1>1 DEF Exec, Ended, TypeOK
<1>4. pc' \in [Procs -> [Slots -> Places]] /\ \A q \in Procs \ {p} : pc'[q] = pc[q]
  BY <1>1 DEF Exec, TypeOK, Places
<1>5. pipe' \subseteq Procs
  BY <1>1 DEF Exec, Ended, TypeOK
<1>6. TypeOK'
  BY <1>1, <1>2, <1>3, <1>4, <1>5 DEF TypeOK
<1>7. NoHandler'
  BY <1>1, <1>2 DEF NoHandler
<1>8. InOrder(p)'
  BY <1>3 DEF InOrder, Alive
<1>9. \A q \in Procs \ {p} : SameButPc(q) /\ pc'[q] = pc[q]
  BY <1>2, <1>3, <1>4 DEF SameButPc
<1> QED
  BY <1>2, <1>6, <1>7, <1>8, <1>9, OneProcess

\* exit, the start of an invalidation, and the steps of VForkMe around the fork.
LEMMA OrdinaryStep ==
    ASSUME ThreadsInv, NEW p \in Procs, NEW t \in Slots, calls' \in 0 .. MaxCalls,
           \/ Exit(p, t) \/ Invalidate(p, t) \/ VForkPipe(p, t)
           \/ VForkFail(p, t) \/ ClosePipe(p, t) \/ PollReturn(p, t)
    PROVE  ThreadsInv'
<1>1. pipe \subseteq Procs
  BY DEF ThreadsInv, TypeOK
<1>2. CASE Exit(p, t)
  <2>1. /\ Alive(p) /\ pc[p][t] \in Ordinary /\ Goto(p, t, "exit") /\ UNCHANGED <<kind, threadVars,
           lockVars, rough>>
        /\ "exit" \in Ordinary /\ pipe' \subseteq Procs
    BY <1>1, <1>2 DEF Exit, At, Ordinary
  <2> QED
    BY <2>1, MovesStep
<1>3. CASE Invalidate(p, t)
  <2>1. /\ Alive(p) /\ pc[p][t] \in Ordinary /\ Goto(p, t, "states") /\ UNCHANGED <<kind, threadVars,
           lockVars, rough>>
        /\ "states" \in Ordinary /\ pipe' \subseteq Procs
    BY <1>1, <1>3 DEF Invalidate, At, Ordinary
  <2> QED
    BY <2>1, MovesStep
<1>4. CASE VForkPipe(p, t)
  <2>1. /\ Alive(p) /\ pc[p][t] \in Ordinary /\ Goto(p, t, "vfork") /\ UNCHANGED <<kind, threadVars,
           lockVars, rough>>
        /\ "vfork" \in Ordinary /\ pipe' \subseteq Procs
    BY <1>1, <1>4 DEF VForkPipe, At, Ordinary
  <2> QED
    BY <2>1, MovesStep
<1>5. CASE VForkFail(p, t)
  <2>1. /\ Alive(p) /\ pc[p][t] \in Ordinary /\ Goto(p, t, "close") /\ UNCHANGED <<kind, threadVars,
           lockVars, rough>>
        /\ "close" \in Ordinary /\ pipe' \subseteq Procs
    BY <1>1, <1>5 DEF VForkFail, At, Ordinary
  <2> QED
    BY <2>1, MovesStep
<1>6. CASE ClosePipe(p, t)
  <2>1. /\ Alive(p) /\ pc[p][t] \in Ordinary /\ Goto(p, t, "poll") /\ UNCHANGED <<kind, threadVars,
           lockVars, rough>>
        /\ "poll" \in Ordinary /\ pipe' \subseteq Procs
    BY <1>1, <1>6 DEF ClosePipe, At, Ordinary
  <2> QED
    BY <2>1, MovesStep, Zenon
<1>7. CASE PollReturn(p, t)
  <2>1. /\ Alive(p) /\ pc[p][t] \in Ordinary /\ Goto(p, t, "guest") /\ UNCHANGED <<kind, threadVars,
           lockVars, rough>>
        /\ "guest" \in Ordinary /\ pipe' \subseteq Procs
    BY <1>1, <1>7 DEF PollReturn, At, Ordinary
  <2> QED
    BY <2>1, MovesStep
<1> QED
  BY <1>2, <1>3, <1>4, <1>5, <1>6, <1>7

-----------------------------------------------------------------------------
(* ForkMe and VForkMe.                                                     *)

\* The clone system call without CLONE_VM, or fork: the new process is in order
\* because its thread reinitialises the list and the lock, or because nobody else
\* runs in the child of a vfork.
LEMMA CopyMemoryStep ==
    ASSUME ThreadsInv, NEW p \in Procs, NEW q \in Procs, NEW t \in Slots, NEW k, NEW childPlace,
           NEW parentPlace \in Ordinary,
           (k = "fork" /\ childPlace = "forked") \/ (k = "vfork" /\ childPlace = "guest"),
           Alive(p), pc[p][t] \in Ordinary, CopyMemory(p, q, t, k, childPlace, parentPlace),
           pipe' \subseteq Procs, calls' \in 0 .. MaxCalls
    PROVE  ThreadsInv'
<1>1. /\ TypeOK /\ NoHandler /\ \A r \in Procs : InOrder(r)
      /\ CallInOrder(p) /\ ForkedAlone(p) /\ Listed(p) /\ StatesHeld(p) /\ PagesHeld(p)
  BY DEF ThreadsInv, InOrder
<1>2. p # q
  BY DEF CopyMemory, Alive
<1>3. /\ kind' \in [Procs -> {"none", "start", "fork", "vfork", "gone"}] /\ kind'[q] = k
      /\ \A r \in Procs \ {q} : kind'[r] = kind[r]
  BY <1>1, Zenon DEF CopyMemory, TypeOK
<1>4. /\ pc' \in [Procs -> [Slots -> Places]]
      /\ pc'[q][t] = childPlace /\ \A u \in Slots \ {t} : pc'[q][u] = "none"
      /\ pc'[p][t] = parentPlace /\ \A u \in Slots \ {t} : pc'[p][u] = pc[p][u]
      /\ \A r \in Procs \ {p, q} : pc'[r] = pc[r]
  <2>1. pc \in [Procs -> [Slots -> Places]] /\ parentPlace \in Places /\ childPlace \in Places /\
        "none" \in Places
    BY <1>1 DEF TypeOK, Places, Ordinary
  <2>2. pc' = [pc EXCEPT ![q] = [u \in Slots |-> IF u = t THEN childPlace ELSE "none"], ![p][t] = parentPlace]
    BY DEF CopyMemory
  <2> QED
    BY <1>2, <2>1, <2>2
<1>5. /\ helper' \in [Procs -> [Slots -> {"none", "start", "create", "detach"}]]
      /\ \A u \in Slots : helper'[q][u] = "none"
      /\ \A r \in Procs \ {q} : helper'[r] = helper[r]
  <2>1. helper \in [Procs -> [Slots -> {"none", "start", "create", "detach"}]]
    BY <1>1 DEF TypeOK
  <2>2. helper' = Fresh(helper, q, "none")
    BY DEF CopyMemory
  <2> QED
    BY <2>1, <2>2 DEF Fresh
<1>6. /\ frame' \in [Procs -> [Slots -> BOOLEAN]]
      /\ \A u \in Slots : frame'[q][u] = FALSE
      /\ \A r \in Procs \ {q} : frame'[r] = frame[r]
  <2>1. frame \in [Procs -> [Slots -> BOOLEAN]]
    BY <1>1 DEF TypeOK
  <2>2. frame' = Fresh(frame, q, FALSE)
    BY DEF CopyMemory
  <2> QED
    BY <2>1, <2>2 DEF Fresh
<1>7. caller' \in [Procs -> [Slots -> Slots]] /\ \A r \in Procs \ {q} : caller'[r] = caller[r]
  <2>1. caller \in [Procs -> [Slots -> Slots]]
    BY <1>1 DEF TypeOK
  <2>2. caller' = Fresh(caller, q, Main)
    BY DEF CopyMemory
  <2> QED
    BY <2>1, <2>2, MainAssumption DEF Fresh
<1>8. /\ settid' \in [Procs -> [Slots -> BOOLEAN]]
      /\ \A u \in Slots : settid'[q][u] = FALSE
      /\ \A r \in Procs \ {q} : settid'[r] = settid[r]
  <2>1. settid \in [Procs -> [Slots -> BOOLEAN]]
    BY <1>1 DEF TypeOK
  <2>2. settid' = Fresh(settid, q, FALSE)
    BY DEF CopyMemory
  <2> QED
    BY <2>1, <2>2 DEF Fresh
<1>9. cloneTid' \in [Procs -> [Slots -> {-1, 0, 1}]] /\
      \A r \in Procs \ {q} : cloneTid'[r] = cloneTid[r]
  <2>1. cloneTid \in [Procs -> [Slots -> {-1, 0, 1}]]
    BY <1>1 DEF TypeOK
  <2>2. cloneTid' = Fresh(cloneTid, q, -1)
    BY DEF CopyMemory
  <2> QED
    BY <2>1, <2>2 DEF Fresh
<1>10. newTid' \in [Procs -> [Slots -> BOOLEAN]] /\ \A r \in Procs \ {q} : newTid'[r] = newTid[r]
  <2>1. newTid \in [Procs -> [Slots -> BOOLEAN]]
    BY <1>1 DEF TypeOK
  <2>2. newTid' = Fresh(newTid, q, FALSE)
    BY DEF CopyMemory
  <2> QED
    BY <2>1, <2>2 DEF Fresh
<1>11. /\ handler' \in [Procs -> [Slots -> BOOLEAN]]
       /\ \A u \in Slots : handler'[q][u] = FALSE
       /\ \A r \in Procs \ {q} : handler'[r] = handler[r]
  <2>1. handler \in [Procs -> [Slots -> BOOLEAN]]
    BY <1>1 DEF TypeOK
  <2>2. handler' = Fresh(handler, q, FALSE)
    BY DEF CopyMemory
  <2> QED
    BY <2>1, <2>2 DEF Fresh
<1>12. /\ regs' \in [Procs -> [Slots -> {"app", "handler"}]]
       /\ \A u \in Slots : regs'[q][u] = "app"
       /\ \A r \in Procs \ {q} : regs'[r] = regs[r]
  <2>1. regs \in [Procs -> [Slots -> {"app", "handler"}]]
    BY <1>1 DEF TypeOK
  <2>2. regs' = Fresh(regs, q, "app")
    BY DEF CopyMemory
  <2> QED
    BY <2>1, <2>2 DEF Fresh
<1>13. /\ states' \in [Procs -> SUBSET Slots] /\ states'[q] = states[p]
       /\ \A r \in Procs \ {q} : states'[r] = states[r]
  <2>1. states \in [Procs -> SUBSET Slots]
    BY <1>1 DEF TypeOK
  <2>2. states' = Copied(states, p, q)
    BY DEF CopyMemory
  <2> QED
    BY <2>1, <2>2 DEF Copied
<1>14. /\ statesSem' \in [Procs -> 0 .. 1]
       /\ \A r \in Procs \ {q} : statesSem'[r] = statesSem[r]
  <2>1. statesSem \in [Procs -> 0 .. 1]
    BY <1>1 DEF TypeOK
  <2>2. statesSem' = Copied(statesSem, p, q)
    BY DEF CopyMemory
  <2> QED
    BY <2>1, <2>2 DEF Copied
<1>15. /\ pageSem' \in [Procs -> [Slots -> 0 .. 1]] /\ pageSem'[q] = pageSem[p]
       /\ \A r \in Procs \ {q} : pageSem'[r] = pageSem[r]
  <2>1. pageSem \in [Procs -> [Slots -> 0 .. 1]]
    BY <1>1 DEF TypeOK
  <2>2. pageSem' = Copied(pageSem, p, q)
    BY DEF CopyMemory
  <2> QED
    BY <2>1, <2>2 DEF Copied
<1>16. todo' \in [Procs -> [Slots -> SUBSET Slots]]
  <2>1. todo \in [Procs -> [Slots -> SUBSET Slots]]
    BY <1>1 DEF TypeOK
  <2>2. todo' = Fresh(todo, q, {})
    BY DEF CopyMemory
  <2> QED
    BY <2>1, <2>2 DEF Fresh
<1>17. target' \in [Procs -> [Slots -> Slots]] /\ \A r \in Procs \ {q} : target'[r] = target[r]
  <2>1. target \in [Procs -> [Slots -> Slots]]
    BY <1>1 DEF TypeOK
  <2>2. target' = Fresh(target, q, Main)
    BY DEF CopyMemory
  <2> QED
    BY <2>1, <2>2, MainAssumption DEF Fresh
<1>18. /\ rough \subseteq rough' /\ rough' \subseteq RoughEvents
       /\ "held" \notin rough' => \A u \in Slots : pageSem[p][u] = 1
  BY <1>1, Zenon DEF CopyMemory, ForkEvents, TypeOK, RoughEvents
<1>19. TypeOK'
  BY <1>3, <1>4, <1>5, <1>6, <1>7, <1>8, <1>9, <1>10, <1>11, <1>12, <1>13, <1>14, <1>15, <1>16, <1>17,
     <1>18, Zenon DEF TypeOK
<1>20. NoHandler'
  <2> SUFFICES ASSUME "eintr" \notin rough', NEW r \in Procs, NEW u \in Slots
               PROVE  regs'[r][u] = "app" /\ ~handler'[r][u]
    BY DEF NoHandler
  <2>1. CASE r = q
    BY <1>11, <1>12, <2>1
  <2>2. CASE r # q
    <3>1. regs[r][u] = "app" /\ ~handler[r][u]
      BY <1>1, <1>18 DEF NoHandler
    <3> QED
      BY <1>11, <1>12, <2>2, <3>1
  <2> QED
    BY <2>1, <2>2, Zenon
<1>21. \A r \in Procs \ {q} : SameButPc(r)
  BY <1>3, <1>5, <1>6, <1>7, <1>8, <1>9, <1>10, <1>13, <1>14, <1>15, <1>17, Zenon DEF SameButPc
<1>22. InOrder(p)'
  <2>1. SameButPc(p) /\ Moved(p, t, parentPlace)
    BY <1>2, <1>4, <1>21 DEF Moved, Becomes
  <2> QED
    BY <1>1, <1>18, <2>1, MovesInOrder, Zenon
<1>23. CallInOrder(q)'
  <2>1. \A u \in Slots : /\ pc'[q][u] \notin {"create", "list", "init"} /\ helper'[q][u] = "none"
                         /\ ~frame'[q][u] /\ ~settid'[q][u]
    BY <1>4, <1>5, <1>6, <1>8
  <2> QED
    BY <2>1, Zenon DEF CallInOrder, CallOf
<1>24. ForkedAlone(q)'
  BY <1>4, <1>5 DEF ForkedAlone
<1>25. Listed(q)'
  <2>1. t \in states'[q]
    BY <1>1, <1>13 DEF Listed, Ordinary
  <2>2. \A u \in Slots : pc'[q][u] \notin {"none", "create", "list", "forked"} => u \in states'[q]
    BY <1>4, <2>1
  <2>3. kind'[q] \in {"start", "fork"} => pc'[q][t] = "forked"
    BY <1>3, <1>4
  <2> QED
    BY <2>2, <2>3 DEF Listed
<1>26. StatesHeld(q)'
  BY <1>3, <1>4 DEF StatesHeld
<1>27. PagesHeld(q)'
  BY <1>15, <1>18 DEF PagesHeld
<1>28. ASSUME NEW r \in Procs PROVE InOrder(r)'
  <2>1. CASE r = p
    BY <1>22, <2>1
  <2>2. CASE r = q
    BY <1>23, <1>24, <1>25, <1>26, <1>27, <2>2 DEF InOrder
  <2>3. CASE r # p /\ r # q
    BY <1>1, <1>4, <1>18, <1>21, <2>3, Undisturbed, Zenon
  <2> QED
    BY <2>1, <2>2, <2>3
<1> QED
  BY <1>19, <1>20, <1>28 DEF ThreadsInv

\* ForkMe and VForkMe copy the process.
LEMMA ForkStep ==
    ASSUME ThreadsInv, NEW p \in Procs, NEW q \in Procs, NEW t \in Slots, calls' \in 0 .. MaxCalls,
           Fork(p, q, t) \/ VFork(p, q, t)
    PROVE  ThreadsInv'
<1>1. pipe \subseteq Procs
  BY DEF ThreadsInv, TypeOK
<1>2. CASE Fork(p, q, t)
  <2>1. /\ Alive(p) /\ pc[p][t] \in Ordinary /\ "guest" \in Ordinary /\ pipe' \subseteq Procs
        /\ CopyMemory(p, q, t, "fork", "forked", "guest")
    BY <1>1, <1>2 DEF Fork, At, Ordinary
  <2> QED
    BY <2>1, CopyMemoryStep
<1>3. CASE VFork(p, q, t)
  <2>1. /\ Alive(p) /\ pc[p][t] \in Ordinary /\ "close" \in Ordinary /\ pipe' \subseteq Procs
        /\ CopyMemory(p, q, t, "vfork", "guest", "close")
    BY <1>1, <1>3 DEF VFork, At, Ordinary
  <2> QED
    BY <2>1, CopyMemoryStep
<1> QED
  BY <1>2, <1>3

-----------------------------------------------------------------------------
(* The theorems.                                                           *)

\* The first process has one thread, which runs the guest and is in the list.
LEMMA Initially == Init => ThreadsInv
<1> SUFFICES ASSUME Init PROVE ThreadsInv
  OBVIOUS
<1>1. TypeOK
  BY ProcsAssumption, MainAssumption, MaxCallsAssumption DEF Init, PerThread, TypeOK, Places
<1>2. NoHandler
  BY DEF Init, PerThread, NoHandler
<1>3. ASSUME NEW p \in Procs, Alive(p)
      PROVE  CallInOrder(p) /\ ForkedAlone(p) /\ Listed(p) /\ StatesHeld(p) /\ PagesHeld(p)
  <2>1. p = 1
    BY <1>3 DEF Init, Alive
  <2>2. \A u \in Slots : /\ pc[p][u] = IF u = Main THEN "guest" ELSE "none"
                         /\ helper[p][u] = "none" /\ ~frame[p][u] /\ ~settid[p][u] /\ pageSem[p][u] = 1
    BY <2>1 DEF Init, PerThread
  <2>3. states[p] = {Main} /\ statesSem[p] = 1
    BY <2>1 DEF Init
  <2>4. CallInOrder(p)
    BY <2>2 DEF CallInOrder, CallOf
  <2>5. ForkedAlone(p)
    BY <2>2 DEF ForkedAlone
  <2>6. Listed(p)
    BY <2>2, <2>3, MainAssumption DEF Listed
  <2>7. StatesHeld(p) /\ PagesHeld(p)
    BY <2>2, <2>3 DEF StatesHeld, PagesHeld
  <2> QED
    BY <2>4, <2>5, <2>6, <2>7
<1> QED
  BY <1>1, <1>2, <1>3 DEF ThreadsInv, InOrder

\* Every step of a thread, of a helper and of the guest keeps the inductive invariant.
THEOREM ThreadsInvariant == Spec => []ThreadsInv
<1>1. ThreadsInv /\ [Next]_vars => ThreadsInv'
  <2> SUFFICES ASSUME ThreadsInv, [Next]_vars PROVE ThreadsInv'
    OBVIOUS
  <2>1. CASE UNCHANGED vars
    <3>1. TypeOK'
      BY <2>1 DEF ThreadsInv, TypeOK, vars, threadVars, lockVars
    <3>2. NoHandler'
      BY <2>1 DEF ThreadsInv, NoHandler, vars, threadVars
    <3>3. rough' = rough /\ \A q \in Procs : SameButPc(q) /\ pc'[q] = pc[q]
      BY <2>1 DEF vars, threadVars, lockVars, SameButPc
    <3>4. \A q \in Procs : InOrder(q)'
      BY <3>3, Undisturbed DEF ThreadsInv
    <3> QED
      BY <3>1, <3>2, <3>4 DEF ThreadsInv
  <2>2. ASSUME NEW p \in Procs, NEW t \in Slots, GuestCall(p, t) PROVE ThreadsInv'
    <3>1. calls' \in 0 .. MaxCalls
      BY <2>2, MaxCallsAssumption DEF GuestCall, ThreadsInv, TypeOK
    <3>2. CASE \E u \in Slots, f \in BOOLEAN : Clone(p, t, u, f)
      BY <3>1, <3>2, CloneStep
    <3>3. CASE \E q \in Procs : Fork(p, q, t)
      BY <3>1, <3>3, ForkStep
    <3>4. CASE VForkPipe(p, t) \/ Exit(p, t) \/ Invalidate(p, t)
      BY <3>1, <3>4, OrdinaryStep
    <3>5. CASE Compile(p, t)
      BY <3>1, <3>5, CompileStep
    <3> QED
      BY <2>2, <3>2, <3>3, <3>4, <3>5 DEF GuestCall
  <2>3. ASSUME NEW p \in Procs, NEW t \in Slots, calls' = calls,
               ThreadStep(p, t) \/ HelperStep(p, t) \/ Exec(p, t) \/ Signal(p, t)
        PROVE  ThreadsInv'
    <3>1. calls' \in 0 .. MaxCalls
      BY <2>3 DEF ThreadsInv, TypeOK
    <3>2. CASE \E u \in Slots : FutexWait(p, t, u) \/ CloneReturn(p, t, u)
      BY <3>1, <3>2, FutexWaitStep, CloneReturnStep
    <3>3. CASE Sigreturn(p, t)
      BY <3>1, <3>3, SigreturnStep
    <3>4. CASE Create(p, t)
      BY <3>1, <3>4, CreateStep
    <3>5. CASE List(p, t)
      BY <3>1, <3>5, ListStep
    <3>6. CASE InitThread(p, t)
      BY <3>1, <3>6, InitThreadStep
    <3>7. CASE Destroy(p, t)
      BY <3>1, <3>7, DestroyStep
    <3>8. CASE CompileEnd(p, t)
      BY <3>1, <3>8, CompileEndStep
    <3>9. CASE StatesLock(p, t)
      BY <3>1, <3>9, StatesLockStep
    <3>10. CASE \E u \in Slots : PageLock(p, t, u)
      BY <3>1, <3>10, PageLockStep
    <3>11. CASE PageUnlock(p, t)
      BY <3>1, <3>11, PageUnlockStep
    <3>12. CASE StatesUnlock(p, t)
      BY <3>1, <3>12, StatesUnlockStep
    <3>13. CASE ForkedInit(p, t)
      BY <3>1, <3>13, ForkedInitStep
    <3>14. CASE \E q \in Procs : VFork(p, q, t)
      BY <3>1, <3>14, ForkStep
    <3>15. CASE VForkFail(p, t) \/ ClosePipe(p, t) \/ PollReturn(p, t)
      BY <3>1, <3>15, OrdinaryStep
    <3>16. CASE HelperStart(p, t)
      BY <3>1, <3>16, HelperStartStep
    <3>17. CASE HelperCreate(p, t)
      BY <3>1, <3>17, HelperCreateStep
    <3>18. CASE HelperExit(p, t)
      BY <3>1, <3>18, HelperExitStep
    <3>19. CASE Exec(p, t)
      BY <3>1, <3>19, ExecStep
    <3>20. CASE Signal(p, t)
      BY <3>1, <3>20, SignalStep
    <3> QED
      BY <2>3, <3>2, <3>3, <3>4, <3>5, <3>6, <3>7, <3>8, <3>9, <3>10, <3>11, <3>12, <3>13, <3>14,
         <3>15, <3>16,
         <3>17, <3>18, <3>19, <3>20 DEF ThreadStep, HelperStep
  <2> QED
    BY <2>1, <2>2, <2>3 DEF Next
<1> QED
  BY <1>1, Initially, PTL DEF Spec

\* host_stack, clone_tid and CloneArgs are there for as long as clone_handler runs and
\* pthread_handler reads them, if no signal comes while CloneMe waits and the guest
\* does not pass CLONE_CHILD_SETTID.
THEOREM FrameIsThere == Spec => []FrameOutlivesHelper
<1>1. ThreadsInv => FrameOutlivesHelper
  <2> SUFFICES ASSUME ThreadsInv, Quiet, NEW p \in Procs, NEW u \in Slots, Alive(p),
                      helper[p][u] # "none" \/ pc[p][u] \in {"create", "list", "init"}
               PROVE  frame[p][u]
    BY DEF FrameOutlivesHelper, Quiet
  <2>1. CallOf(p, u)
    BY DEF ThreadsInv, InOrder, CallInOrder
  <2> QED
    BY <2>1 DEF CallOf
<1> QED
  BY <1>1, ThreadsInvariant, PTL

\* ThreadState::Create copies the registers the caller had when it called clone, if no
\* handler has run in the caller since.
THEOREM RegistersAreTheCallers == Spec => []ChildHasCallersRegs
<1>1. ThreadsInv => ChildHasCallersRegs
  BY DEF ThreadsInv, NoHandler, ChildHasCallersRegs
<1> QED
  BY <1>1, ThreadsInvariant, PTL

\* The list of states that invalidateRangeGlobal walks has every thread of the process
\* that may run translated code, and no state that has been deleted or, except in the
\* child of a vfork, whose thread stayed behind in the parent.
THEOREM ListHasTheThreads == Spec => []ListIsThreads
<1>1. ThreadsInv => ListIsThreads
  <2> SUFFICES ASSUME ThreadsInv PROVE ListIsThreads
    OBVIOUS
  <2>1. ASSUME NEW p \in Procs, Alive(p) PROVE CallInOrder(p) /\ Listed(p) /\ states[p] \subseteq Slots
    BY <2>1 DEF ThreadsInv, InOrder, TypeOK
  <2>2. ASSUME NEW p \in Procs, NEW t \in Slots, Alive(p), pc[p][t] \notin {"none", "create", "list",
          "forked"}
        PROVE  t \in states[p]
    BY <2>1, <2>2, Zenon DEF Listed
  <2>3. ASSUME NEW p \in Procs, kind[p] \in {"start", "fork"}, NEW t \in states[p]
        PROVE  pc[p][t] \notin {"none", "create", "list"} \/ \E u \in Slots : pc[p][u] = "forked"
    <3>1. Alive(p)
      BY <2>3, Zenon DEF Alive
    <3>2. pc[p][t] # "none" \/ \E u \in Slots : pc[p][u] = "forked"
      BY <2>1, <2>3, <3>1 DEF Listed
    <3>3. pc[p][t] \notin {"create", "list"}
      BY <2>1, <3>1 DEF CallInOrder, CallOf
    <3> QED
      BY <3>2, <3>3, Zenon
  <2> QED
    BY <2>2, <2>3 DEF ListIsThreads
<1> QED
  BY <1>1, ThreadsInvariant, PTL

\* states_lock and every page_map_lock that is taken has a holder in the same process,
\* so that it will be given back: states_lock except in the child of a vfork, a
\* page_map_lock as long as no process was forked while a semaphore of it was taken.
THEOREM LocksAreHeld == Spec => []LocksHaveHolders
<1>1. ThreadsInv => LocksHaveHolders
  <2> SUFFICES ASSUME ThreadsInv PROVE LocksHaveHolders
    OBVIOUS
  <2>1. ASSUME NEW p \in Procs, Alive(p) PROVE StatesHeld(p) /\ PagesHeld(p)
    BY <2>1 DEF ThreadsInv, InOrder
  <2>2. ASSUME NEW p \in Procs, kind[p] \in {"start", "fork"}, statesSem[p] = 0
        PROVE  \E t \in Slots : pc[p][t] \in {"walk", "patch", "forked"}
    BY <2>1, <2>2 DEF StatesHeld, Alive
  <2>3. ASSUME "held" \notin rough, NEW p \in Procs, NEW u \in Slots, Alive(p), pageSem[p][u] = 0
        PROVE  pc[p][u] = "page" \/ \E t \in Slots : pc[p][t] = "patch" /\ target[p][t] = u
    BY <2>1, <2>3 DEF PagesHeld
  <2> QED
    BY <2>2, <2>3 DEF LocksHaveHolders
<1> QED
  BY <1>1, ThreadsInvariant, PTL

=============================================================================
