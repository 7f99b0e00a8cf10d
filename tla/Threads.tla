------------------------------- MODULE Threads -------------------------------
(***************************************************************************)
(* Guest threads and processes: clone, fork, vfork and exit.  The guest's  *)
(* clone cannot be passed on to the host, since the new thread needs a     *)
(* host TLS.  CloneMe clones a helper that runs clone_handler on a stack   *)
(* of its own; the helper creates a pthread, which becomes the guest's     *)
(* thread, and exits.  Both read CloneArgs in the stack frame of the       *)
(* caller, which waits for the helper with one FUTEX_WAIT and for the      *)
(* pthread by spinning on new_tid.  A fork copies the memory of the        *)
(* process as it is, semaphores included, and only the thread that called  *)
(* it; the child of a fork reinitialises the globals of its process, the   *)
(* child of a vfork does not.                                              *)
(*                                                                         *)
(* Everything that is in memory is a function of the process, then of the  *)
(* thread it belongs to.                                                   *)
(***************************************************************************)
EXTENDS Integers, FiniteSets

CONSTANTS Procs,  \* processes that may come to exist, 1 the first
          Slots,  \* thread states of one process
          Main,   \* the thread of Emulator::Start
          MaxCalls \* bound on the calls of the guest

ASSUME ProcsAssumption == 1 \in Procs
ASSUME MainAssumption == Main \in Slots
ASSUME MaxCallsAssumption == MaxCalls \in Nat

VARIABLES
    kind,      \* how a process came to exist: "none", "start", "fork", "vfork"; "gone"
    pc,        \* where each thread is
    caller,    \* the thread whose call of CloneMe made this one
    settid,    \* the guest passed CLONE_CHILD_SETTID to that call
    helper,    \* clone_handler for this thread: "none", "start", "create", "detach"
    cloneTid,  \* clone_tid of the call: -1, 1 (a tid) or 0
    newTid,    \* CloneArgs::new_tid of the call is set
    frame,     \* CloneArgs, clone_tid and host_stack of the call are still there
    handler,   \* a guest signal handler runs on top of what the thread was doing
    regs,      \* whose registers ThreadState::gprs holds
    states,    \* ProcessGlobals::states
    statesSem, \* ProcessGlobals::states_lock
    pageSem,   \* Recompiler::page_map_lock of each thread
    todo,      \* the states invalidateRangeGlobal still has to visit
    target,    \* the one it is visiting
    calls,     \* the number of calls of the guest so far
    pipe,      \* the processes that hold the write end of the pipe of a vfork
    rough      \* history: the events so far that clone and fork do not provide for

threadVars == <<caller, settid, helper, cloneTid, newTid, frame, handler, regs>>
lockVars == <<states, statesSem, pageSem, todo, target>>
vars == <<kind, pc, threadVars, lockVars, pipe, rough, calls>>

\* "eintr": a signal handler ran in a thread that was waiting in CloneMe;
\* "settid": the guest passed CLONE_CHILD_SETTID; "held": a process was forked
\* while another thread had a semaphore of it; "dup": while another thread had
\* the write end of a pipe.
RoughEvents == {"eintr", "settid", "held", "dup"}

Alive(p) == kind[p] \in {"start", "fork", "vfork"}

At(p, t, place) == Alive(p) /\ pc[p][t] = place /\ ~handler[p][t]
Goto(p, t, place) == pc' = [pc EXCEPT ![p][t] = place]

PerThread(v) == [p \in Procs |-> [t \in Slots |-> v]]

Init ==
    /\ kind = [p \in Procs |-> IF p = 1 THEN "start" ELSE "none"]
    /\ pc = [p \in Procs |-> [t \in Slots |-> IF p = 1 /\ t = Main THEN "guest" ELSE "none"]]
    /\ caller = PerThread(Main)
    /\ settid = PerThread(FALSE)
    /\ helper = PerThread("none")
    /\ cloneTid = PerThread(-1)
    /\ newTid = PerThread(FALSE)
    /\ frame = PerThread(FALSE)
    /\ handler = PerThread(FALSE)
    /\ regs = PerThread("app")
    /\ states = [p \in Procs |-> IF p = 1 THEN {Main} ELSE {}]
    /\ statesSem = [p \in Procs |-> 1]
    /\ pageSem = PerThread(1)
    /\ todo = PerThread({})
    /\ target = PerThread(Main)
    /\ pipe = {}
    /\ rough = {}
    /\ calls = 0

-----------------------------------------------------------------------------
(* CloneMe, in the thread t that calls it for the new thread u. *)

\* A free slot and nothing left of the call that used it before.
Free(p, u) == pc[p][u] = "none" /\ helper[p][u] = "none" /\ ~frame[p][u] /\ u \notin states[p]

\* malloc of the stack, clone_tid = -1, new_tid = 0, clone.
Clone(p, t, u, f) ==
    /\ At(p, t, "guest")
    /\ Free(p, u)
    /\ Goto(p, t, "futex")
    /\ caller' = [caller EXCEPT ![p][u] = t]
    /\ settid' = [settid EXCEPT ![p][u] = f]
    /\ helper' = [helper EXCEPT ![p][u] = "start"]
    /\ cloneTid' = [cloneTid EXCEPT ![p][u] = -1]
    /\ newTid' = [newTid EXCEPT ![p][u] = FALSE]
    /\ frame' = [frame EXCEPT ![p][u] = TRUE]
    /\ rough' = IF f THEN rough \cup {"settid"} ELSE rough
    /\ UNCHANGED <<kind, handler, regs, lockVars, pipe>>

\* The call of CloneMe that t is in.
Calling(p, t, u) == frame[p][u] /\ caller[p][u] = t

\* FUTEX_WAIT on -1: sleeps unless clone_tid has changed already.
FutexWait(p, t, u) ==
    /\ At(p, t, "futex")
    /\ Calling(p, t, u)
    /\ Goto(p, t, IF cloneTid[p][u] = -1 THEN "asleep" ELSE "spin")
    /\ UNCHANGED <<kind, threadVars, lockVars, pipe, rough>>

\* free(host_stack), and the frame of CloneMe is gone with what it held.
DropFrame(p, u) ==
    /\ frame' = [frame EXCEPT ![p][u] = FALSE]
    /\ caller' = [caller EXCEPT ![p][u] = Main]
    /\ settid' = [settid EXCEPT ![p][u] = FALSE]
    /\ cloneTid' = [cloneTid EXCEPT ![p][u] = -1]
    /\ newTid' = [newTid EXCEPT ![p][u] = FALSE]

\* A slip: the caller does not wait for new_tid.
ReturnAtOnce(p, t, u) ==
    /\ At(p, t, "spin")
    /\ Calling(p, t, u)
    /\ DropFrame(p, u)
    /\ Goto(p, t, "guest")
    /\ UNCHANGED <<kind, helper, handler, regs, lockVars, pipe, rough>>

\* The loop on new_tid ends.
CloneReturn(p, t, u) ==
    /\ At(p, t, "spin")
    /\ Calling(p, t, u)
    /\ newTid[p][u]
    /\ DropFrame(p, u)
    /\ Goto(p, t, "guest")
    /\ UNCHANGED <<kind, helper, handler, regs, lockVars, pipe, rough>>

\* A guest signal: the handler runs at once in a nested dispatcher, on the
\* ThreadState that the new thread copies.
Signal(p, t) ==
    /\ Alive(p)
    /\ pc[p][t] \in {"futex", "asleep", "spin"}
    /\ "eintr" \notin rough  \* bound: one such signal
    /\ handler' = [handler EXCEPT ![p][t] = TRUE]
    /\ regs' = [regs EXCEPT ![p][t] = "handler"]
    /\ rough' = rough \cup {"eintr"}
    /\ UNCHANGED <<kind, pc, caller, settid, helper, cloneTid, newTid, frame,
                   lockVars, pipe>>

\* rt_sigreturn.  FUTEX_WAIT returns EINTR, and CloneMe ignores its result.
Sigreturn(p, t) ==
    /\ Alive(p)
    /\ handler[p][t]
    /\ handler' = [handler EXCEPT ![p][t] = FALSE]
    /\ regs' = [regs EXCEPT ![p][t] = "app"]
    /\ Goto(p, t, IF pc[p][t] = "asleep" THEN "spin" ELSE pc[p][t])
    /\ UNCHANGED <<kind, caller, settid, helper, cloneTid, newTid, frame,
                   lockVars, pipe, rough>>

-----------------------------------------------------------------------------
(* clone_handler, in the helper cloned for u. *)

\* The kernel stores the helper's tid in clone_tid if the guest's flags say so.
HelperStart(p, u) ==
    /\ Alive(p)
    /\ helper[p][u] = "start"
    /\ cloneTid' = IF settid[p][u] THEN [cloneTid EXCEPT ![p][u] = 1] ELSE cloneTid
    /\ helper' = [helper EXCEPT ![p][u] = "create"]
    /\ UNCHANGED <<kind, pc, caller, settid, newTid, frame, handler, regs, lockVars, pipe, rough>>

\* pthread_create.
HelperCreate(p, u) ==
    /\ Alive(p)
    /\ helper[p][u] = "create"
    /\ helper' = [helper EXCEPT ![p][u] = "detach"]
    /\ Goto(p, u, "create")
    /\ UNCHANGED <<kind, caller, settid, cloneTid, newTid, frame, handler, regs, lockVars, pipe, rough>>

\* A slip: nobody is woken.
HelperExitUnseen(p, u) ==
    /\ Alive(p)
    /\ helper[p][u] = "detach"
    /\ helper' = [helper EXCEPT ![p][u] = "none"]
    /\ UNCHANGED <<kind, pc, caller, settid, cloneTid, newTid, frame, handler, regs, lockVars, pipe, rough>>

\* pthread_detach reads CloneArgs; the helper exits, the kernel zeroes clone_tid
\* and wakes who sleeps on it.
HelperExit(p, u) ==
    /\ Alive(p)
    /\ helper[p][u] = "detach"
    /\ helper' = [helper EXCEPT ![p][u] = "none"]
    /\ cloneTid' = IF frame[p][u] THEN [cloneTid EXCEPT ![p][u] = 0] ELSE cloneTid
    /\ pc' = IF frame[p][u] /\ pc[p][caller[p][u]] = "asleep" /\ ~handler[p][caller[p][u]]
             THEN [pc EXCEPT ![p][caller[p][u]] = "spin"] ELSE pc
    /\ UNCHANGED <<kind, caller, settid, newTid, frame, handler, regs, lockVars, pipe, rough>>

-----------------------------------------------------------------------------
(* pthread_handler, in the new thread u. *)

\* A slip: the registers are those of the thread that had the slot before.
CreateBlank(p, u) ==
    /\ At(p, u, "create")
    /\ pageSem' = [pageSem EXCEPT ![p][u] = 1]
    /\ regs' = [regs EXCEPT ![p][u] = "handler"]
    /\ Goto(p, u, "list")
    /\ UNCHANGED <<kind, caller, settid, helper, cloneTid, newTid, frame, handler,
                   states, statesSem, todo, target, pipe, rough>>

\* ThreadState::Create: a new Recompiler, the caller's registers.
Create(p, u) ==
    /\ At(p, u, "create")
    /\ pageSem' = [pageSem EXCEPT ![p][u] = 1]
    /\ regs' = [regs EXCEPT ![p][u] = regs[p][caller[p][u]]]
    /\ Goto(p, u, "list")
    /\ UNCHANGED <<kind, caller, settid, helper, cloneTid, newTid, frame, handler,
                   states, statesSem, todo, target, pipe, rough>>

\* A slip: the new thread does not enter the list.
Unlisted(p, u) ==
    /\ At(p, u, "list")
    /\ statesSem[p] = 1
    /\ Goto(p, u, "init")
    /\ UNCHANGED <<kind, threadVars, lockVars, pipe, rough>>

\* It ends with the new state entering the list, under states_lock.
List(p, u) ==
    /\ At(p, u, "list")
    /\ statesSem[p] = 1
    /\ states' = [states EXCEPT ![p] = @ \cup {u}]
    /\ Goto(p, u, "init")
    /\ UNCHANGED <<kind, threadVars, statesSem, pageSem, todo, target, pipe, rough>>

\* The rest of the new state is set up; new_tid is set last.  The guest's code
\* then has the registers.
InitThread(p, u) ==
    /\ At(p, u, "init")
    /\ regs' = [regs EXCEPT ![p][u] = "app"]
    /\ newTid' = [newTid EXCEPT ![p][u] = TRUE]
    /\ Goto(p, u, "guest")
    /\ UNCHANGED <<kind, caller, settid, helper, cloneTid, frame, handler, lockVars, pipe, rough>>

\* exit and exit_group leave the dispatcher of the thread that calls them.
Exit(p, t) ==
    /\ At(p, t, "guest")
    /\ Goto(p, t, "exit")
    /\ UNCHANGED <<kind, threadVars, lockVars, pipe, rough>>

\* The state of a process that has ended.
Ended(p) ==
    /\ kind' = [kind EXCEPT ![p] = "gone"]
    /\ pipe' = pipe \ {p}

\* ThreadState::Destroy, under states_lock.  The first thread returns from main,
\* which ends the process.
Destroy(p, t) ==
    /\ At(p, t, "exit")
    /\ statesSem[p] = 1
    /\ states' = [states EXCEPT ![p] = @ \ {t}]
    /\ Goto(p, t, "none")
    /\ IF t = Main THEN Ended(p) ELSE UNCHANGED <<kind, pipe>>
    /\ UNCHANGED <<threadVars, statesSem, pageSem, todo, target, rough>>

-----------------------------------------------------------------------------
(* What the threads do with the locks: a translation takes the thread's own  *)
(* page_map_lock, a system call or a store to a page with code takes         *)
(* states_lock and then the page_map_lock of every state in the list.        *)

Compile(p, t) ==
    /\ At(p, t, "guest")
    /\ pageSem[p][t] = 1
    /\ pageSem' = [pageSem EXCEPT ![p][t] = 0]
    /\ Goto(p, t, "page")
    /\ UNCHANGED <<kind, threadVars, states, statesSem, todo, target, pipe, rough>>

CompileEnd(p, t) ==
    /\ At(p, t, "page")
    /\ pageSem' = [pageSem EXCEPT ![p][t] = 1]
    /\ Goto(p, t, "guest")
    /\ UNCHANGED <<kind, threadVars, states, statesSem, todo, target, pipe, rough>>

Invalidate(p, t) ==
    /\ At(p, t, "guest")
    /\ Goto(p, t, "states")
    /\ UNCHANGED <<kind, threadVars, lockVars, pipe, rough>>

StatesLock(p, t) ==
    /\ At(p, t, "states")
    /\ statesSem[p] = 1
    /\ statesSem' = [statesSem EXCEPT ![p] = 0]
    /\ todo' = [todo EXCEPT ![p][t] = states[p]]
    /\ Goto(p, t, "walk")
    /\ UNCHANGED <<kind, threadVars, states, pageSem, target, pipe, rough>>

\* invalidateRange of one state.
PageLock(p, t, u) ==
    /\ At(p, t, "walk")
    /\ u \in todo[p][t]
    /\ pageSem[p][u] = 1
    /\ pageSem' = [pageSem EXCEPT ![p][u] = 0]
    /\ todo' = [todo EXCEPT ![p][t] = @ \ {u}]
    /\ target' = [target EXCEPT ![p][t] = u]
    /\ Goto(p, t, "patch")
    /\ UNCHANGED <<kind, threadVars, states, statesSem, pipe, rough>>

PageUnlock(p, t) ==
    /\ At(p, t, "patch")
    /\ pageSem' = [pageSem EXCEPT ![p][target[p][t]] = 1]
    /\ target' = [target EXCEPT ![p][t] = Main]
    /\ Goto(p, t, "walk")
    /\ UNCHANGED <<kind, threadVars, states, statesSem, todo, pipe, rough>>

StatesUnlock(p, t) ==
    /\ At(p, t, "walk")
    /\ todo[p][t] = {}
    /\ statesSem' = [statesSem EXCEPT ![p] = 1]
    /\ Goto(p, t, "guest")
    /\ UNCHANGED <<kind, threadVars, states, pageSem, todo, target, pipe, rough>>

-----------------------------------------------------------------------------
(* ForkMe and VForkMe *)

\* The memory of process q is a copy of that of p, in which only t runs.
Copied(f, p, q) == [f EXCEPT ![q] = f[p]]

\* What only threads that stayed behind would read.
Fresh(f, q, v) == [f EXCEPT ![q] = [u \in Slots |-> v]]

\* What a fork copies that should not be: a semaphore another thread has, the
\* write end of a pipe.
ForkEvents(p) ==
    rough \cup (IF statesSem[p] = 1 /\ \A u \in Slots : pageSem[p][u] = 1 THEN {} ELSE {"held"})
          \cup (IF p \in pipe THEN {"dup"} ELSE {})

\* The clone system call without CLONE_VM, or fork.
CopyMemory(p, q, t, k, childPlace, parentPlace) ==
    /\ kind[q] = "none"
    /\ kind' = [kind EXCEPT ![q] = k]
    /\ pc' = [pc EXCEPT ![q] = [u \in Slots |-> IF u = t THEN childPlace ELSE "none"],
                        ![p][t] = parentPlace]
    /\ helper' = Fresh(helper, q, "none")
    /\ frame' = Fresh(frame, q, FALSE)
    /\ caller' = Fresh(caller, q, Main)
    /\ settid' = Fresh(settid, q, FALSE)
    /\ cloneTid' = Fresh(cloneTid, q, -1)
    /\ newTid' = Fresh(newTid, q, FALSE)
    /\ handler' = Fresh(handler, q, FALSE)
    /\ regs' = Fresh(regs, q, "app")
    /\ states' = Copied(states, p, q)
    /\ statesSem' = Copied(statesSem, p, q)
    /\ pageSem' = Copied(pageSem, p, q)
    /\ todo' = Fresh(todo, q, {})
    /\ target' = Fresh(target, q, Main)
    /\ rough' = ForkEvents(p)

Fork(p, q, t) ==
    /\ At(p, t, "guest")
    /\ CopyMemory(p, q, t, "fork", "forked", "guest")
    /\ pipe' = IF p \in pipe THEN pipe \cup {q} ELSE pipe

\* A slip: the child keeps the list and the lock it has copied.
KeepGlobals(p, t) ==
    /\ At(p, t, "forked")
    /\ Goto(p, t, "guest")
    /\ UNCHANGED <<kind, threadVars, lockVars, pipe, rough>>

\* g_process_globals.initialize, then the thread enters the list again.
ForkedInit(p, t) ==
    /\ At(p, t, "forked")
    /\ statesSem' = [statesSem EXCEPT ![p] = 1]
    /\ states' = [states EXCEPT ![p] = {t}]
    /\ Goto(p, t, "guest")
    /\ UNCHANGED <<kind, threadVars, pageSem, todo, target, pipe, rough>>

\* pipe2; one vfork at a time.
VForkPipe(p, t) ==
    /\ At(p, t, "guest")
    /\ pipe = {}
    /\ pipe' = {p}
    /\ Goto(p, t, "vfork")
    /\ UNCHANGED <<kind, threadVars, lockVars, rough>>

VFork(p, q, t) ==
    /\ At(p, t, "vfork")
    /\ CopyMemory(p, q, t, "vfork", "guest", "close")
    /\ pipe' = pipe \cup {q}

\* fork fails: the caller still closes its end and polls.
VForkFail(p, t) ==
    /\ At(p, t, "vfork")
    /\ Goto(p, t, "close")
    /\ UNCHANGED <<kind, threadVars, lockVars, pipe, rough>>

\* The parent closes its write end and polls the other with all signals masked.
ClosePipe(p, t) ==
    /\ At(p, t, "close")
    /\ pipe' = pipe \ {p}
    /\ Goto(p, t, "poll")
    /\ UNCHANGED <<kind, threadVars, lockVars, rough>>

PollReturn(p, t) ==
    /\ At(p, t, "poll")
    /\ pipe = {}
    /\ Goto(p, t, "guest")
    /\ UNCHANGED <<kind, threadVars, lockVars, pipe, rough>>

\* A child process calls execve: O_CLOEXEC closes its end of the pipe.
Exec(p, t) ==
    /\ p # 1
    /\ At(p, t, "guest")
    /\ Ended(p)
    /\ pc' = [pc EXCEPT ![p] = [u \in Slots |-> "none"]]
    /\ UNCHANGED <<threadVars, lockVars, rough>>

-----------------------------------------------------------------------------

\* Steps of the emulator in thread t, once the guest has asked for something.
ThreadStep(p, t) ==
    \/ \E u \in Slots : FutexWait(p, t, u) \/ CloneReturn(p, t, u)
    \/ Sigreturn(p, t)
    \/ Create(p, t)
    \/ List(p, t)
    \/ InitThread(p, t)
    \/ Destroy(p, t)
    \/ CompileEnd(p, t)
    \/ StatesLock(p, t)
    \/ \E u \in Slots : PageLock(p, t, u)
    \/ PageUnlock(p, t)
    \/ StatesUnlock(p, t)
    \/ ForkedInit(p, t)
    \/ \E q \in Procs : VFork(p, q, t)
    \/ VForkFail(p, t)
    \/ ClosePipe(p, t)
    \/ PollReturn(p, t)

HelperStep(p, u) == HelperStart(p, u) \/ HelperCreate(p, u) \/ HelperExit(p, u)

\* What the guest asks for.
GuestCall(p, t) ==
    /\ calls < MaxCalls
    /\ calls' = calls + 1
    /\ \/ \E u \in Slots, f \in BOOLEAN : Clone(p, t, u, f)
       \/ \E q \in Procs : Fork(p, q, t)
       \/ VForkPipe(p, t)
       \/ Exit(p, t)
       \/ Compile(p, t)
       \/ Invalidate(p, t)

Next ==
    \E p \in Procs, t \in Slots :
        \/ GuestCall(p, t)
        \/ (ThreadStep(p, t) \/ HelperStep(p, t) \/ Exec(p, t) \/ Signal(p, t)) /\ UNCHANGED calls

Spec == Init /\ [][Next]_vars

\* The host runs every thread, and a child process gets to its execve.
Fairness ==
    \A p \in Procs, t \in Slots :
        /\ WF_vars(ThreadStep(p, t) /\ UNCHANGED calls)
        /\ WF_vars(HelperStep(p, t) /\ UNCHANGED calls)
        /\ WF_vars(Exec(p, t) /\ UNCHANGED calls)

FairSpec == Spec /\ Fairness

-----------------------------------------------------------------------------
(* Properties. *)

Places == {"none", "guest", "futex", "asleep", "spin", "create", "list", "init", "exit", "page",
           "states", "walk", "patch", "forked", "vfork", "close", "poll"}

\* The thread states, clone calls, semaphores and processes.
TypeOK ==
    /\ kind \in [Procs -> {"none", "start", "fork", "vfork", "gone"}]
    /\ pc \in [Procs -> [Slots -> Places]]
    /\ caller \in [Procs -> [Slots -> Slots]]
    /\ settid \in [Procs -> [Slots -> BOOLEAN]]
    /\ helper \in [Procs -> [Slots -> {"none", "start", "create", "detach"}]]
    /\ cloneTid \in [Procs -> [Slots -> {-1, 0, 1}]]
    /\ newTid \in [Procs -> [Slots -> BOOLEAN]]
    /\ frame \in [Procs -> [Slots -> BOOLEAN]]
    /\ handler \in [Procs -> [Slots -> BOOLEAN]]
    /\ regs \in [Procs -> [Slots -> {"app", "handler"}]]
    /\ states \in [Procs -> SUBSET Slots]
    /\ statesSem \in [Procs -> 0 .. 1]
    /\ pageSem \in [Procs -> [Slots -> 0 .. 1]]
    /\ todo \in [Procs -> [Slots -> SUBSET Slots]]
    /\ target \in [Procs -> [Slots -> Slots]]
    /\ pipe \subseteq Procs
    /\ rough \subseteq RoughEvents
    /\ calls \in 0 .. MaxCalls

\* host_stack, clone_tid and CloneArgs outlive clone_handler and the part of
\* pthread_handler that reads them.  A signal during FUTEX_WAIT, or a guest that
\* passes CLONE_CHILD_SETTID, lets CloneMe return before the helper has.
FrameOutlivesHelper ==
    rough \cap {"eintr", "settid"} = {} =>
        \A p \in Procs, u \in Slots :
            Alive(p) /\ (helper[p][u] # "none" \/ pc[p][u] \in {"create", "list", "init"}) => frame[p][u]

\* A new thread starts with the registers its parent had when it called clone,
\* unless a handler ran in the parent meanwhile.
ChildHasCallersRegs ==
    "eintr" \notin rough =>
        \A p \in Procs, u \in Slots : Alive(p) /\ pc[p][u] \in {"list", "init"} => regs[p][u] = "app"

\* The list that invalidateRangeGlobal walks is the list of threads: a thread that
\* runs guest code is in that of its own process, otherwise its translations would
\* survive a change of the code; and the list holds no state that has been deleted,
\* nor, unless the process comes from vfork, one whose thread stayed behind in the
\* parent.
ListIsThreads ==
    /\ \A p \in Procs, t \in Slots :
         Alive(p) /\ pc[p][t] \notin {"none", "create", "list", "forked"} => t \in states[p]
    /\ \A p \in Procs : kind[p] \in {"start", "fork"} =>
         \A t \in states[p] : pc[p][t] \notin {"none", "create", "list"} \/ \E u \in Slots : pc[p][u] = "forked"

\* A semaphore at 0 has a holder in the same process, which will give it back.
\* A fork copies the semaphores.  Its child starts with a new states_lock, but the
\* child of a vfork does not, and both keep the page_map_lock of the calling thread,
\* which another thread may have taken in invalidateRange.
LocksHaveHolders ==
    /\ \A p \in Procs : kind[p] \in {"start", "fork"} /\ statesSem[p] = 0 =>
           \E t \in Slots : pc[p][t] \in {"walk", "patch", "forked"}
    /\ "held" \notin rough =>
           \A p \in Procs, u \in Slots : Alive(p) /\ pageSem[p][u] = 0 =>
               pc[p][u] = "page" \/ \E t \in Slots : pc[p][t] = "patch" /\ target[p][t] = u

\* clone, fork, vfork, exit and the invalidation of code end, in every process:
\* the handshake of CloneMe cannot lose a wake-up, nor vfork the end of its child.
CallsEnd ==
    \A p \in Procs, t \in Slots :
        pc[p][t] \notin {"guest", "none"}
            ~> (pc[p][t] \in {"guest", "none"} \/ ~Alive(p) \/ rough \cap {"held", "dup"} # {})

=============================================================================
