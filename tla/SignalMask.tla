----------------------------- MODULE SignalMask -----------------------------
(***************************************************************************)
(* Signal masks of one guest thread.  A guest handler runs inside the host *)
(* handler that caught its signal (dispatch_guest enters the dispatcher    *)
(* again), so that three things hold the guest's mask: the thread's        *)
(* signal_mask, the host's mask of the thread, and the masks the host      *)
(* kernel saved in the frames of the host handlers that are active.        *)
(*                                                                         *)
(* blocked is the mask Linux would give the guest: a handler adds its      *)
(* sa_mask, returning from it restores what was blocked before.            *)
(***************************************************************************)
EXTENDS Integers

CONSTANTS Sigs,       \* signals
          Necessary,  \* SIGILL and SIGSEGV: not in hostSignalMask()
          Terminating,\* signals of the switch of dispatch_guest
          Masks,      \* arguments of rt_sigprocmask, rt_sigsuspend, sa_mask
          Handlers,   \* arguments of rt_sigaction
          MaxDepth,   \* bound on nested handlers
          MaskInHandlers  \* whether handlers call rt_sigprocmask, rt_sigsuspend

ASSUME NecessaryAssumption == Necessary \subseteq Sigs
ASSUME MasksAssumption == {} \in Masks /\ Masks \subseteq SUBSET Sigs
ASSUME HandlersAssumption ==
    Handlers \subseteq [func : {"dfl", "ign", "fn"}, mask : Masks, nodefer : BOOLEAN, resethand : BOOLEAN]
ASSUME MaxDepthAssumption == MaxDepth \in Nat
ASSUME MaskInHandlersAssumption == MaskInHandlers \in BOOLEAN

VARIABLES
    act,        \* SignalHandlerTable: func, mask and flags of each signal
    captured,   \* signals whose host handler is signal_handler
    pending,    \* signals the host kernel has to deliver
    guestMask,  \* ThreadState::signal_mask
    hostMask,   \* the thread's mask in the host kernel
    depth,      \* number of active host handlers
    frames,     \* what each of them returns to
    at,         \* "guest", "guard" (under a SignalGuard), "suspend" (in
                \* ::sigsuspend), "woken" (after it), "returning" (sigreturn done)
    saved,      \* masks kept by the SignalGuard or by sigsuspend
    blocked,    \* history: the mask the guest should have
    dead        \* ERROR was reached: "no", or how the signal was handled

vars == <<act, captured, pending, guestMask, hostMask, depth, frames, at, saved, blocked, dead>>

\* Signals::hostSignalMask
HostSignalMask == Sigs \ Necessary

Actions == [func : {"dfl", "ign", "fn"}, mask : Masks, nodefer : BOOLEAN, resethand : BOOLEAN]
Default == [func |-> "dfl", mask |-> {}, nodefer |-> FALSE, resethand |-> FALSE]

NoMasks == [guest |-> {}, host |-> {}, blocked |-> {}]
NoFrame == [at |-> "guest", host |-> {}, blocked |-> {}, saved |-> NoMasks]

Init ==
    /\ act = [s \in Sigs |-> Default]
    /\ captured = {}
    /\ pending = {}
    /\ guestMask = {}
    /\ hostMask = {}
    /\ depth = 0
    /\ frames = [d \in 1 .. MaxDepth |-> NoFrame]
    /\ at = "guest"
    /\ saved = NoMasks
    /\ blocked = {}
    /\ dead = "no"

-----------------------------------------------------------------------------
(* System calls of the guest. *)

\* registerSignalHandler: capturing starts with the first handler and never stops.
Captured(s, a) == IF a.func = "dfl" THEN captured ELSE captured \cup {s}

\* rt_sigaction.
Sigaction(s, a) ==
    /\ at = "guest" /\ dead = "no"
    /\ act' = [act EXCEPT ![s] = a]
    /\ captured' = Captured(s, a)
    /\ UNCHANGED <<pending, guestMask, hostMask, depth, frames, at, saved, blocked, dead>>

\* A slip: the host's mask is left as it is.
SigprocmaskGuestOnly(m) ==
    /\ at = "guest" /\ dead = "no"
    /\ depth > 0 => MaskInHandlers
    /\ guestMask' = m
    /\ blocked' = m
    /\ UNCHANGED <<act, captured, pending, hostMask, depth, frames, at, saved, dead>>

\* A slip: the host's mask takes the guest's as it is.
SigprocmaskUnfiltered(m) ==
    /\ at = "guest" /\ dead = "no"
    /\ depth > 0 => MaskInHandlers
    /\ guestMask' = m
    /\ hostMask' = m
    /\ blocked' = m
    /\ UNCHANGED <<act, captured, pending, depth, frames, at, saved, dead>>

\* rt_sigprocmask, with the new mask it computes from signal_mask.
SetMask(m) ==
    /\ at = "guest" /\ dead = "no"
    /\ depth > 0 => MaskInHandlers
    /\ guestMask' = m
    /\ hostMask' = m \cap HostSignalMask
    /\ UNCHANGED <<act, captured, pending, depth, frames, at, saved, dead>>

\* SIG_BLOCK, SIG_UNBLOCK, SIG_SETMASK: Linux applies the same to its own mask.
Sigprocmask(m) ==
    \/ SetMask(guestMask \cup m) /\ blocked' = blocked \cup m
    \/ SetMask(guestMask \ m) /\ blocked' = blocked \ m
    \/ SetMask(m) /\ blocked' = m

\* rt_sigsuspend: the host waits with the guest's own mask.
Sigsuspend(m) ==
    /\ at = "guest" /\ dead = "no"
    /\ depth > 0 => MaskInHandlers
    /\ saved' = [guest |-> guestMask, host |-> hostMask, blocked |-> blocked]
    /\ guestMask' = m
    /\ hostMask' = m
    /\ blocked' = m
    /\ at' = "suspend"
    /\ UNCHANGED <<act, captured, pending, depth, frames, dead>>

\* A handler has run and returned: sigsuspend puts signal_mask back.
SuspendReturns ==
    /\ at = "woken" /\ dead = "no"
    /\ guestMask' = saved.guest
    /\ saved' = NoMasks
    /\ at' = "guest"
    /\ UNCHANGED <<act, captured, pending, hostMask, depth, frames, blocked, dead>>

-----------------------------------------------------------------------------
(* SignalGuard: around compilation and many system calls. *)

GuardEnter ==
    /\ at = "guest" /\ dead = "no"
    /\ saved' = [saved EXCEPT !.host = hostMask]
    /\ hostMask' = HostSignalMask
    /\ at' = "guard"
    /\ UNCHANGED <<act, captured, pending, guestMask, depth, frames, blocked, dead>>

\* A slip: the guard opens every signal when it ends.
GuardOpens ==
    /\ at = "guard" /\ dead = "no"
    /\ hostMask' = {}
    /\ saved' = NoMasks
    /\ at' = "guest"
    /\ UNCHANGED <<act, captured, pending, guestMask, depth, frames, blocked, dead>>

\* A slip: the guard leaves its mask behind.
GuardStays ==
    /\ at = "guard" /\ dead = "no"
    /\ saved' = NoMasks
    /\ at' = "guest"
    /\ UNCHANGED <<act, captured, pending, guestMask, hostMask, depth, frames, blocked, dead>>

GuardLeave ==
    /\ at = "guard" /\ dead = "no"
    /\ hostMask' = saved.host
    /\ saved' = NoMasks
    /\ at' = "guest"
    /\ UNCHANGED <<act, captured, pending, guestMask, depth, frames, blocked, dead>>

-----------------------------------------------------------------------------
(* Signals. *)

\* Someone sends a signal; one that was never captured is the kernel's affair.
Arrive(s) ==
    /\ s \in captured \ pending
    /\ dead = "no"
    /\ pending' = pending \cup {s}
    /\ UNCHANGED <<act, captured, guestMask, hostMask, depth, frames, at, saved, blocked, dead>>

Deliverable(s) == dead = "no" /\ s \in pending \ hostMask /\ at # "guard"

\* ERROR in dispatch_guest: an ignored signal, or one whose default terminates.
Fatal(s) == act[s].func = "ign" \/ (act[s].func = "dfl" /\ s \in Terminating)

\* dispatch_guest on such a signal ends the emulator.
DeliverFatal(s) ==
    /\ Deliverable(s)
    /\ Fatal(s)
    /\ pending' = pending \ {s}
    /\ dead' = act[s].func
    /\ UNCHANGED <<act, captured, guestMask, hostMask, depth, frames, at, saved, blocked>>

\* Another signal without a handler: dispatch_guest returns at once.  It still
\* interrupts ::sigsuspend, which puts back the mask from before.
DeliverDropped(s) ==
    /\ Deliverable(s)
    /\ act[s].func = "dfl" /\ ~Fatal(s)
    /\ pending' = pending \ {s}
    /\ at' = IF at = "suspend" THEN "woken" ELSE at
    /\ hostMask' = IF at = "suspend" THEN saved.host ELSE hostMask
    /\ blocked' = IF at = "suspend" THEN saved.blocked ELSE blocked
    /\ UNCHANGED <<act, captured, guestMask, depth, frames, saved, dead>>

\* sa_mask, the thread's mask and, without SA_NODEFER, the signal itself.
HandlerMask(s, m) ==
    IF act[s].nodefer THEN (act[s].mask \cup m) \ {s} ELSE act[s].mask \cup m \cup {s}

\* What Linux blocks in the handler.
LinuxHandlerMask(s, m) == act[s].mask \cup m \cup (IF act[s].nodefer THEN {} ELSE {s})

\* The kernel runs signal_handler and saves the mask to return to, which for a
\* thread in ::sigsuspend is the one from before; dispatch_guest sets the mask
\* for the handler and enters the dispatcher.
Deliver(s) ==
    /\ Deliverable(s)
    /\ act[s].func = "fn"
    /\ depth < MaxDepth
    /\ pending' = pending \ {s}
    /\ depth' = depth + 1
    /\ frames' = [frames EXCEPT ![depth + 1] =
           [at |-> at,
            host |-> IF at = "suspend" THEN saved.host ELSE hostMask,
            blocked |-> IF at = "suspend" THEN saved.blocked ELSE blocked,
            saved |-> saved]]
    /\ hostMask' = HandlerMask(s, guestMask) \cap HostSignalMask
    /\ blocked' = LinuxHandlerMask(s, blocked)
    /\ act' = IF act[s].resethand THEN [act EXCEPT ![s].func = "dfl"] ELSE act
    /\ at' = "guest"
    /\ saved' = NoMasks
    /\ UNCHANGED <<captured, guestMask, dead>>

\* rt_sigreturn: the mask is set from signal_mask, then exitDispatcher.
Sigreturn ==
    /\ at = "guest" /\ dead = "no" /\ depth > 0
    /\ hostMask' = guestMask \cap HostSignalMask
    /\ blocked' = frames[depth].blocked
    /\ at' = "returning"
    /\ UNCHANGED <<act, captured, pending, guestMask, depth, frames, saved, dead>>

\* signal_handler returns, and the host kernel restores the mask it saved.
HostReturn ==
    /\ at = "returning" /\ dead = "no"
    /\ hostMask' = frames[depth].host
    /\ at' = IF frames[depth].at = "suspend" THEN "woken" ELSE frames[depth].at
    /\ saved' = frames[depth].saved
    /\ depth' = depth - 1
    /\ frames' = [frames EXCEPT ![depth] = NoFrame]
    /\ UNCHANGED <<act, captured, pending, guestMask, blocked, dead>>

-----------------------------------------------------------------------------

\* SIGSEGV and SIGILL go to the host handlers first and are not modelled here as
\* signals of the guest.
Guest ==
    \/ \E s \in Sigs \ Necessary, a \in Handlers : Sigaction(s, a)
    \/ \E m \in Masks : Sigprocmask(m) \/ Sigsuspend(m)
    \/ GuardEnter

Emulator ==
    \/ SuspendReturns
    \/ GuardLeave
    \/ Sigreturn
    \/ HostReturn
    \/ \E s \in Sigs : DeliverFatal(s) \/ DeliverDropped(s) \/ Deliver(s)

Next == Guest \/ Emulator \/ \E s \in Sigs : Arrive(s)

Spec == Init /\ [][Next]_vars

\* The host delivers what is deliverable, a guard ends, handlers return, and
\* signals do not strike at every chance the thread has to get on.
Fairness ==
    /\ WF_vars(GuardLeave)
    /\ SF_vars(SuspendReturns)
    /\ \A d \in 1 .. MaxDepth : SF_vars(Sigreturn /\ depth = d) /\ SF_vars(HostReturn /\ depth = d)
    /\ \A s \in Sigs : SF_vars(Deliver(s) \/ DeliverFatal(s) \/ DeliverDropped(s))

FairSpec == Spec /\ Fairness

-----------------------------------------------------------------------------
(* Properties. *)

Places == {"guest", "guard", "suspend", "woken", "returning"}
MaskSets == [guest : SUBSET Sigs, host : SUBSET Sigs, blocked : SUBSET Sigs]
Frames == [at : Places, host : SUBSET Sigs, blocked : SUBSET Sigs, saved : MaskSets]

\* The signal state of a thread.
TypeOK ==
    /\ act \in [Sigs -> Actions]
    /\ captured \subseteq Sigs
    /\ pending \subseteq Sigs
    /\ guestMask \subseteq Sigs
    /\ hostMask \subseteq Sigs
    /\ depth \in 0 .. MaxDepth
    /\ frames \in [1 .. MaxDepth -> Frames]
    /\ at \in Places
    /\ saved \in MaskSets
    /\ blocked \subseteq Sigs
    /\ dead \in {"no", "dfl", "ign"}

\* Except while a thread waits in ::sigsuspend the host never has SIGSEGV or
\* SIGILL blocked: handle_smc and the breakpoints need them, and a fault whose
\* signal is blocked kills the process.
NecessaryOpen == at # "suspend" => hostMask \cap Necessary = {}

\* Outside of handlers and system calls the host's mask of the thread is the
\* guest's, without the signals felix86 needs, and both are what Linux would
\* have left to the guest.
MasksAgree ==
    at = "guest" /\ depth = 0 => /\ hostMask = guestMask \cap HostSignalMask
                                 /\ guestMask = blocked

\* Only a handler can be returning.
PlaceInv ==
    /\ at = "returning" => depth > 0
    /\ \A d \in 1 .. MaxDepth : frames[d].at = "returning" => d > 1

\* No mask that can become the host's again holds a necessary signal.
OpenInv ==
    /\ NecessaryOpen
    /\ saved.host \cap Necessary = {}
    /\ \A d \in 1 .. MaxDepth : /\ frames[d].host \cap Necessary = {}
                               /\ frames[d].saved.host \cap Necessary = {}

\* Masks to be put back that agree.
Agreeing(m) == m.guest = m.blocked /\ m.host = m.guest \cap HostSignalMask

\* What a thread has at each place at depth 0.
BaseInv ==
    depth = 0 =>
        /\ at = "guest" => hostMask = guestMask \cap HostSignalMask
        /\ at = "guard" => saved.host = guestMask \cap HostSignalMask
        /\ at \in {"guest", "guard"} => guestMask = blocked
        /\ at = "suspend" => Agreeing(saved) /\ hostMask = blocked
        /\ at = "woken" => Agreeing(saved) /\ hostMask = saved.host /\ blocked = saved.blocked

\* The outermost frame holds the masks to agree on: the guest's mask, which does
\* not change in handlers, or for a thread that was suspended the saved one.
OuterInv ==
    depth > 0 =>
        /\ frames[1].at # "guard"
        /\ frames[1].at = "guest" => /\ frames[1].host = guestMask \cap HostSignalMask
                                     /\ frames[1].blocked = guestMask
        /\ frames[1].at \in {"suspend", "woken"} => /\ Agreeing(frames[1].saved)
                                                    /\ frames[1].host = frames[1].saved.host
                                                    /\ frames[1].blocked = frames[1].saved.blocked
        /\ at \notin {"suspend", "woken"}
        /\ \A d \in 2 .. depth : frames[d].at \notin {"suspend", "woken"}

\* Between rt_sigreturn and the host's return the guest already has the mask of
\* the frame below, and so has a handler that interrupts it there.
ReturnInv ==
    /\ at = "returning" => depth > 0 /\ blocked = frames[depth].blocked
    /\ \A d \in 2 .. depth : frames[d].at = "returning" => frames[d].blocked = frames[d - 1].blocked

AgreeInv == BaseInv /\ OuterInv /\ ReturnInv

\* Signals felix86 needs are never captured for the guest.
CaptureInv == pending \subseteq captured /\ captured \cap Necessary = {}

MaskInv == PlaceInv /\ OpenInv /\ AgreeInv /\ CaptureInv

\* A handler that does not interrupt another never starts while its signal is
\* blocked, also from rt_sigsuspend and right after it.
OutermostHonoursMask == [][\A s \in Sigs : Deliver(s) /\ depth = 0 => s \notin blocked]_vars

\* A handler never starts while its signal is blocked, by rt_sigprocmask or by
\* the sa_mask of a handler that has not returned.
NeverDeliversBlocked == [][\A s \in Sigs : Deliver(s) => s \notin blocked]_vars

\* A pending signal the guest has not blocked is delivered, or gets blocked.
SignalsArrive ==
    \A s \in Sigs : (s \in pending /\ s \notin blocked) ~> (s \notin pending \/ s \in blocked \/ dead # "no")

=============================================================================
