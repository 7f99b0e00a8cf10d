----------------------------- MODULE SmcSignals -----------------------------
(***************************************************************************)
(* Self-modifying code and guest signals together.  signal_handler runs a  *)
(* guest handler at once, in a dispatcher nested on the host stack, even   *)
(* when the signal interrupted the emulator's own code.  A SignalGuard     *)
(* keeps signals out of CompileNext and of mmap, but not out of handle_smc *)
(* nor of the mprotect system call: both can be interrupted while they     *)
(* hold semaphores, or while they wait for one.  The host handlers are     *)
(* installed without SA_RESTART and SemaphoreGuard ignores the result of   *)
(* sem_wait, so an interrupted wait goes on without the semaphore.         *)
(***************************************************************************)
EXTENDS Smc, Sequences

CONSTANT MaxDepth  \* bound on the guest handlers nested in one thread

ASSUME MaxDepthAssumption == MaxDepth \in Nat

VARIABLE frames  \* per thread: what its nested dispatchers interrupted

sigVars == <<vars, frames>>

SigInit == Init /\ frames = [t \in Threads |-> <<>>]

\* A wait for a semaphore whose value is 0.
Waits(t) ==
    \/ pc[t] = "states" /\ statesSem = 0
    \/ pc[t] = "page" /\ who[t] \in Threads /\ pageSem[who[t]] = 0

\* Mutant of SignalsAreOpen: CompileNext has no SignalGuard.
SignalsAreOpenInCompile(t) ==
    \/ pc[t] \in {"run", "dispatch", "unprotect", "retry"} \cup Compiling
    \/ pc[t] \in Invalidating /\ cause[t] # "mmap"

\* No SignalGuard is in force.
SignalsAreOpen(t) ==
    \/ pc[t] \in {"run", "dispatch", "unprotect", "retry"}
    \/ pc[t] \in Invalidating /\ cause[t] # "mmap"

\* signal_handler, dispatch_guest, enterDispatcher: the guest's handler starts.
\* A signal that finds the thread inside sem_wait makes it return EINTR.
Interrupt(t) ==
    /\ SignalsAreOpen(t)
    /\ Len(frames[t]) < MaxDepth
    /\ \E interrupted \in {FALSE, Waits(t)} :
          frames' = [frames EXCEPT ![t] = Append(@,
              [pc |-> pc[t], blk |-> blk[t], cause |-> cause[t], range |-> range[t],
               who |-> who[t], victims |-> victims[t], eintr |-> interrupted])]
    /\ Goto(t, "run")
    /\ blk' = [blk EXCEPT ![t] = NoBlock]
    /\ cause' = [cause EXCEPT ![t] = "smc"]
    /\ range' = [range EXCEPT ![t] = {}]
    /\ who' = [who EXCEPT ![t] = 1]
    /\ victims' = [victims EXCEPT ![t] = {}]
    /\ UNCHANGED <<guestVars, cacheVars, semVars, killed>>

\* rt_sigreturn, exitDispatcher: the interrupted code goes on.  If it was
\* inside sem_wait it goes on as if it had the semaphore.
Sigreturn(t) ==
    LET n == Len(frames[t])
        f == frames[t][n]
        next == IF f.pc = "states" THEN "page" ELSE "patch"
    IN  /\ pc[t] = "run"
        /\ n > 0
        /\ frames' = [frames EXCEPT ![t] = SubSeq(@, 1, n - 1)]
        /\ Goto(t, IF f.eintr THEN next ELSE f.pc)
        /\ blk' = [blk EXCEPT ![t] = f.blk]
        /\ cause' = [cause EXCEPT ![t] = f.cause]
        /\ range' = [range EXCEPT ![t] = f.range]
        /\ who' = [who EXCEPT ![t] = f.who]
        /\ victims' = [victims EXCEPT ![t] =
               IF f.eintr /\ f.pc = "page"
               THEN UNION {pageMap[f.who][p] : p \in f.range}
               ELSE f.victims]
        /\ UNCHANGED <<guestVars, cacheVars, semVars, killed>>

\* The handler translated the block that the interrupted code was about to:
\* getCompiledBlock finds it.
FindCompiledBlock(t) ==
    /\ pc[t] = "dispatch"
    /\ code[t][blk[t]] # "none"
    /\ Goto(t, "run")
    /\ blk' = [blk EXCEPT ![t] = NoBlock]
    /\ UNCHANGED <<guestVars, cacheVars, semVars, cause, range, who, victims, killed, frames>>

SigNext ==
    \/ ~killed /\ \E t \in Threads : Interrupt(t) \/ Sigreturn(t) \/ FindCompiledBlock(t)
    \/ Next /\ UNCHANGED frames

SigSpec == SigInit /\ [][SigNext]_sigVars

-----------------------------------------------------------------------------
(* Properties *)

\* The states are shared by threads, "which means access needs to be
\* synchronized": no two threads walk them inside states_lock at once.
StatesLockExcludes ==
    \A t, u \in Threads :
        pc[t] \in {"page", "patch"} /\ pc[u] \in {"page", "patch"} => t = u

\* mprotect and handle_smc invalidate "everything in that region": neither
\* waits for a semaphore that the code it interrupted is holding.
NoSelfDeadlock ==
    \A t \in Threads :
        pc[t] = "states" /\ statesSem = 0 =>
            ~ \E i \in DOMAIN frames[t] : frames[t][i].pc \in {"page", "patch"}
=============================================================================
