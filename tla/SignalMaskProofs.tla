-------------------------- MODULE SignalMaskProofs --------------------------
(***************************************************************************)
(* Proofs about SignalMask for every set of signals, every set of masks    *)
(* and handlers, and every nesting depth.  MasksAgree needs a guest whose  *)
(* handlers do not change the mask: with a rt_sigprocmask inside a handler *)
(* it fails.                                                               *)
(***************************************************************************)
EXTENDS SignalMask, TLAPS

\* The initial state is of the right type.
LEMMA InitTypeOK == Init => TypeOK /\ PlaceInv
<1> SUFFICES ASSUME Init PROVE TypeOK /\ PlaceInv
    OBVIOUS
<1>1. NoMasks \in MaskSets
    BY DEF NoMasks, MaskSets
<1>2. NoFrame \in Frames
    BY <1>1 DEF NoFrame, Frames, Places
<1>3. frames \in [1 .. MaxDepth -> Frames]
    BY <1>2 DEF Init
<1>4. Default \in Actions
    BY MasksAssumption DEF Default, Actions
<1>5. act \in [Sigs -> Actions]
    BY <1>4 DEF Init
<1>6. depth \in 0 .. MaxDepth
    BY MaxDepthAssumption DEF Init
<1>7. TypeOK
    BY <1>1, <1>3, <1>5, <1>6 DEF Init, TypeOK, Places
<1>8. PlaceInv
    BY DEF Init, PlaceInv, NoFrame
<1> QED
    BY <1>7, <1>8

\* Every step keeps the types.
LEMMA NextTypeOK == TypeOK /\ PlaceInv /\ [Next]_vars => TypeOK'
<1> SUFFICES ASSUME TypeOK, PlaceInv, [Next]_vars PROVE TypeOK'
    OBVIOUS
<1> USE MasksAssumption, MaxDepthAssumption
<1>1. ASSUME NEW s \in Sigs \ Necessary, NEW a \in Handlers, Sigaction(s, a)
     PROVE  TypeOK'
    BY <1>1, HandlersAssumption, TypeOK DEF Sigaction, Captured, TypeOK, Actions
<1>2. ASSUME NEW m \in Masks, Sigprocmask(m)
     PROVE  TypeOK'
    BY <1>2, TypeOK
       DEF Sigprocmask, SetMask, TypeOK, Places, MaskSets, Frames, Actions
<1>3. ASSUME NEW m \in Masks, Sigsuspend(m)
     PROVE  TypeOK'
    BY <1>3, TypeOK DEF Sigsuspend, TypeOK, Places, MaskSets, Frames, Actions
<1>4. ASSUME SuspendReturns
     PROVE  TypeOK'
    BY <1>4, TypeOK
       DEF SuspendReturns, NoMasks, TypeOK, Places, MaskSets, Frames, Actions
<1>5. ASSUME GuardEnter
     PROVE  TypeOK'
    BY <1>5, TypeOK
       DEF GuardEnter, HostSignalMask, TypeOK, Places, MaskSets, Frames, Actions
<1>6. ASSUME GuardLeave
     PROVE  TypeOK'
    BY <1>6, TypeOK
       DEF GuardLeave, NoMasks, TypeOK, Places, MaskSets, Frames, Actions
<1>7. ASSUME NEW s \in Sigs, Arrive(s)
     PROVE  TypeOK'
    BY <1>7, TypeOK DEF Arrive, TypeOK, Places, MaskSets, Frames, Actions
<1>8. ASSUME NEW s \in Sigs, DeliverFatal(s)
     PROVE  TypeOK'
    BY <1>8, TypeOK
       DEF DeliverFatal, Deliverable, Fatal, TypeOK, Places, MaskSets, Frames,
           Actions
<1>9. ASSUME NEW s \in Sigs, DeliverDropped(s)
     PROVE  TypeOK'
    BY <1>9, TypeOK
       DEF DeliverDropped, Deliverable, Fatal, TypeOK, Places, MaskSets, Frames,
           Actions
<1>10. ASSUME NEW s \in Sigs, Deliver(s)
     PROVE  TypeOK'
    BY <1>10, TypeOK
       DEF Deliver, Deliverable, HandlerMask, LinuxHandlerMask, NoMasks, TypeOK,
           Places, MaskSets, Frames, Actions
<1>11. ASSUME Sigreturn
     PROVE  TypeOK'
    BY <1>11, TypeOK DEF Sigreturn, TypeOK, Places, MaskSets, Frames, Actions
<1>12. ASSUME HostReturn
     PROVE  TypeOK'
    BY <1>12, TypeOK
       DEF HostReturn, NoFrame, NoMasks, PlaceInv, TypeOK, Places, MaskSets,
           Frames, Actions
<1>13. CASE UNCHANGED vars
    BY <1>13, TypeOK DEF vars, TypeOK, Places, MaskSets, Frames, Actions
<1> QED
    BY <1>1, <1>2, <1>3, <1>4, <1>5, <1>6, <1>7, <1>8, <1>9, <1>10, <1>11, <1>12, <1>13
       DEF Next, Guest, Emulator

\* Every step keeps the order of places: only a handler can be returning.
LEMMA NextPlaceInv == TypeOK /\ PlaceInv /\ [Next]_vars => PlaceInv'
<1> SUFFICES ASSUME TypeOK, PlaceInv, [Next]_vars PROVE PlaceInv'
    OBVIOUS
<1> USE MaxDepthAssumption
<1>1. ASSUME NEW s \in Sigs \ Necessary, NEW a \in Handlers, Sigaction(s, a)
     PROVE  PlaceInv'
    BY <1>1, TypeOK, PlaceInv DEF Sigaction, Captured, TypeOK, PlaceInv, Frames
<1>2. ASSUME NEW m \in Masks, Sigprocmask(m)
     PROVE  PlaceInv'
    BY <1>2, TypeOK, PlaceInv DEF Sigprocmask, SetMask, TypeOK, PlaceInv, Frames
<1>3. ASSUME NEW m \in Masks, Sigsuspend(m)
     PROVE  PlaceInv'
    BY <1>3, TypeOK, PlaceInv DEF Sigsuspend, TypeOK, PlaceInv, Frames
<1>4. ASSUME SuspendReturns
     PROVE  PlaceInv'
    BY <1>4, TypeOK, PlaceInv DEF SuspendReturns, NoMasks, TypeOK, PlaceInv, Frames
<1>5. ASSUME GuardEnter
     PROVE  PlaceInv'
    BY <1>5, TypeOK, PlaceInv
       DEF GuardEnter, HostSignalMask, TypeOK, PlaceInv, Frames
<1>6. ASSUME GuardLeave
     PROVE  PlaceInv'
    BY <1>6, TypeOK, PlaceInv DEF GuardLeave, NoMasks, TypeOK, PlaceInv, Frames
<1>7. ASSUME NEW s \in Sigs, Arrive(s)
     PROVE  PlaceInv'
    BY <1>7, TypeOK, PlaceInv DEF Arrive, TypeOK, PlaceInv, Frames
<1>8. ASSUME NEW s \in Sigs, DeliverFatal(s)
     PROVE  PlaceInv'
    BY <1>8, TypeOK, PlaceInv
       DEF DeliverFatal, Deliverable, Fatal, TypeOK, PlaceInv, Frames
<1>9. ASSUME NEW s \in Sigs, DeliverDropped(s)
     PROVE  PlaceInv'
    BY <1>9, TypeOK, PlaceInv
       DEF DeliverDropped, Deliverable, Fatal, TypeOK, PlaceInv, Frames
<1>10. ASSUME NEW s \in Sigs, Deliver(s)
     PROVE  PlaceInv'
    BY <1>10, TypeOK, PlaceInv DEF Deliver, Deliverable, TypeOK, PlaceInv, Frames
<1>11. ASSUME Sigreturn
     PROVE  PlaceInv'
    BY <1>11, TypeOK, PlaceInv DEF Sigreturn, TypeOK, PlaceInv, Frames
<1>12. ASSUME HostReturn
     PROVE  PlaceInv'
    BY <1>12, TypeOK, PlaceInv
       DEF HostReturn, NoFrame, NoMasks, TypeOK, PlaceInv, Frames
<1>13. CASE UNCHANGED vars
    BY <1>13, TypeOK, PlaceInv DEF vars, TypeOK, PlaceInv, Frames
<1> QED
    BY <1>1, <1>2, <1>3, <1>4, <1>5, <1>6, <1>7, <1>8, <1>9, <1>10, <1>11, <1>12, <1>13
       DEF Next, Guest, Emulator

\* Every mask a step puts in place outside of ::sigsuspend, or keeps for later,
\* went through hostSignalMask.
LEMMA NextOpenInv ==
    ASSUME TypeOK, PlaceInv, OpenInv, [Next]_vars
    PROVE  OpenInv'
<1> USE MaxDepthAssumption
<1>1. ASSUME NEW s \in Sigs \ Necessary, NEW a \in Handlers, Sigaction(s, a)
     PROVE  OpenInv'
    BY <1>1, TypeOK, PlaceInv, OpenInv
       DEF Sigaction, Captured, TypeOK, PlaceInv, OpenInv, NecessaryOpen, Frames,
           MaskSets
<1>2. ASSUME NEW m \in Masks, Sigprocmask(m)
     PROVE  OpenInv'
    BY <1>2, TypeOK, PlaceInv, OpenInv
       DEF Sigprocmask, SetMask, HostSignalMask, TypeOK, PlaceInv, OpenInv,
           NecessaryOpen, Frames, MaskSets
<1>3. ASSUME NEW m \in Masks, Sigsuspend(m)
     PROVE  OpenInv'
    BY <1>3, TypeOK, PlaceInv, OpenInv
       DEF Sigsuspend, TypeOK, PlaceInv, OpenInv, NecessaryOpen, Frames,
           MaskSets
<1>4. ASSUME SuspendReturns
     PROVE  OpenInv'
    BY <1>4, TypeOK, PlaceInv, OpenInv
       DEF SuspendReturns, NoMasks, TypeOK, PlaceInv, OpenInv, NecessaryOpen,
           Frames, MaskSets
<1>5. ASSUME GuardEnter
     PROVE  OpenInv'
    BY <1>5, TypeOK, PlaceInv, OpenInv
       DEF GuardEnter, HostSignalMask, TypeOK, PlaceInv, OpenInv, NecessaryOpen,
           Frames, MaskSets
<1>6. ASSUME GuardLeave
     PROVE  OpenInv'
    BY <1>6, TypeOK, PlaceInv, OpenInv
       DEF GuardLeave, NoMasks, TypeOK, PlaceInv, OpenInv, NecessaryOpen, Frames,
           MaskSets
<1>7. ASSUME NEW s \in Sigs, Arrive(s)
     PROVE  OpenInv'
    BY <1>7, TypeOK, PlaceInv, OpenInv
       DEF Arrive, TypeOK, PlaceInv, OpenInv, NecessaryOpen, Frames, MaskSets
<1>8. ASSUME NEW s \in Sigs, DeliverFatal(s)
     PROVE  OpenInv'
    BY <1>8, TypeOK, PlaceInv, OpenInv
       DEF DeliverFatal, Deliverable, Fatal, TypeOK, PlaceInv, OpenInv,
           NecessaryOpen, Frames, MaskSets
<1>9. ASSUME NEW s \in Sigs, DeliverDropped(s)
     PROVE  OpenInv'
    BY <1>9, TypeOK, PlaceInv, OpenInv
       DEF DeliverDropped, Deliverable, Fatal, TypeOK, PlaceInv, OpenInv,
           NecessaryOpen, Frames, MaskSets
<1>10. ASSUME NEW s \in Sigs, Deliver(s)
     PROVE  OpenInv'
    BY <1>10, TypeOK, PlaceInv, OpenInv
       DEF Deliver, Deliverable, HostSignalMask, NoMasks, TypeOK, PlaceInv,
           OpenInv, NecessaryOpen, Frames, MaskSets
<1>11. ASSUME Sigreturn
     PROVE  OpenInv'
    BY <1>11, TypeOK, PlaceInv, OpenInv
       DEF Sigreturn, HostSignalMask, TypeOK, PlaceInv, OpenInv, NecessaryOpen,
           Frames, MaskSets
<1>12. ASSUME HostReturn
     PROVE  OpenInv'
    BY <1>12, TypeOK, PlaceInv, OpenInv
       DEF HostReturn, NoFrame, NoMasks, TypeOK, PlaceInv, OpenInv,
           NecessaryOpen, Frames, MaskSets
<1>13. CASE UNCHANGED vars
    BY <1>13, TypeOK, PlaceInv, OpenInv
       DEF vars, TypeOK, PlaceInv, OpenInv, NecessaryOpen, Frames, MaskSets
<1> QED
    BY <1>1, <1>2, <1>3, <1>4, <1>5, <1>6, <1>7, <1>8, <1>9, <1>10, <1>11, <1>12, <1>13
       DEF Next, Guest, Emulator

\* Only signals the guest installed a handler for are ever captured or pending.
LEMMA NextCaptureInv ==
    ASSUME CaptureInv, [Next]_vars
    PROVE  CaptureInv'
<1>1. ASSUME NEW s \in Sigs \ Necessary, NEW a \in Handlers, Sigaction(s, a)
     PROVE  CaptureInv'
    BY <1>1, CaptureInv DEF Sigaction, Captured, CaptureInv
<1>2. ASSUME NEW m \in Masks, Sigprocmask(m)
     PROVE  CaptureInv'
    BY <1>2, CaptureInv DEF Sigprocmask, SetMask, CaptureInv
<1>3. ASSUME NEW m \in Masks, Sigsuspend(m)
     PROVE  CaptureInv'
    BY <1>3, CaptureInv DEF Sigsuspend, CaptureInv
<1>4. ASSUME SuspendReturns
     PROVE  CaptureInv'
    BY <1>4, CaptureInv DEF SuspendReturns, NoMasks, CaptureInv
<1>5. ASSUME GuardEnter
     PROVE  CaptureInv'
    BY <1>5, CaptureInv DEF GuardEnter, HostSignalMask, CaptureInv
<1>6. ASSUME GuardLeave
     PROVE  CaptureInv'
    BY <1>6, CaptureInv DEF GuardLeave, NoMasks, CaptureInv
<1>7. ASSUME NEW s \in Sigs, Arrive(s)
     PROVE  CaptureInv'
    BY <1>7, CaptureInv DEF Arrive, CaptureInv
<1>8. ASSUME NEW s \in Sigs, DeliverFatal(s)
     PROVE  CaptureInv'
    BY <1>8, CaptureInv DEF DeliverFatal, Deliverable, Fatal, CaptureInv
<1>9. ASSUME NEW s \in Sigs, DeliverDropped(s)
     PROVE  CaptureInv'
    BY <1>9, CaptureInv DEF DeliverDropped, Deliverable, Fatal, CaptureInv
<1>10. ASSUME NEW s \in Sigs, Deliver(s)
     PROVE  CaptureInv'
    BY <1>10, CaptureInv DEF Deliver, Deliverable, CaptureInv
<1>11. ASSUME Sigreturn
     PROVE  CaptureInv'
    BY <1>11, CaptureInv DEF Sigreturn, CaptureInv
<1>12. ASSUME HostReturn
     PROVE  CaptureInv'
    BY <1>12, CaptureInv DEF HostReturn, NoFrame, NoMasks, CaptureInv
<1>13. CASE UNCHANGED vars
    BY <1>13, CaptureInv DEF vars, CaptureInv
<1> QED
    BY <1>1, <1>2, <1>3, <1>4, <1>5, <1>6, <1>7, <1>8, <1>9, <1>10, <1>11, <1>12, <1>13
       DEF Next, Guest, Emulator

\* A step that leaves the thread outside of handlers leaves masks that agree.
LEMMA NextBaseInv ==
    ASSUME ~MaskInHandlers, TypeOK, PlaceInv, AgreeInv, [Next]_vars
    PROVE  BaseInv'
<1> USE MaxDepthAssumption
<1>1. ASSUME NEW s \in Sigs \ Necessary, NEW a \in Handlers, Sigaction(s, a)
     PROVE  BaseInv'
    BY <1>1, TypeOK, PlaceInv, AgreeInv
       DEF Sigaction, Captured, TypeOK, PlaceInv, AgreeInv, Agreeing, BaseInv,
           OuterInv, ReturnInv, Frames, MaskSets
<1>2. ASSUME NEW m \in Masks, Sigprocmask(m)
     PROVE  BaseInv'
    <2>1. depth = 0 /\ at = "guest" /\ depth' = depth /\ at' = at /\ guestMask = blocked
        BY <1>2, TypeOK, AgreeInv
           DEF Sigprocmask, SetMask, TypeOK, AgreeInv, BaseInv
    <2>2. hostMask' = guestMask' \cap HostSignalMask
        BY <1>2 DEF Sigprocmask, SetMask
    <2>3. guestMask' = blocked'
        BY <1>2, <2>1 DEF Sigprocmask, SetMask
    <2> QED
        BY <2>1, <2>2, <2>3 DEF BaseInv
<1>3. ASSUME NEW m \in Masks, Sigsuspend(m)
     PROVE  BaseInv'
    BY <1>3, TypeOK, PlaceInv, AgreeInv
       DEF Sigsuspend, TypeOK, PlaceInv, AgreeInv, Agreeing, BaseInv, OuterInv,
           ReturnInv, Frames, MaskSets
<1>4. ASSUME SuspendReturns
     PROVE  BaseInv'
    BY <1>4, TypeOK, PlaceInv, AgreeInv
       DEF SuspendReturns, NoMasks, TypeOK, PlaceInv, AgreeInv, Agreeing,
           BaseInv, OuterInv, ReturnInv, Frames, MaskSets
<1>5. ASSUME GuardEnter
     PROVE  BaseInv'
    BY <1>5, TypeOK, PlaceInv, AgreeInv
       DEF GuardEnter, HostSignalMask, TypeOK, PlaceInv, AgreeInv, Agreeing,
           BaseInv, OuterInv, ReturnInv, Frames, MaskSets
<1>6. ASSUME GuardLeave
     PROVE  BaseInv'
    BY <1>6, TypeOK, PlaceInv, AgreeInv
       DEF GuardLeave, NoMasks, TypeOK, PlaceInv, AgreeInv, Agreeing, BaseInv,
           OuterInv, ReturnInv, Frames, MaskSets
<1>7. ASSUME NEW s \in Sigs, Arrive(s)
     PROVE  BaseInv'
    BY <1>7, TypeOK, PlaceInv, AgreeInv
       DEF Arrive, TypeOK, PlaceInv, AgreeInv, Agreeing, BaseInv, OuterInv,
           ReturnInv, Frames, MaskSets
<1>8. ASSUME NEW s \in Sigs, DeliverFatal(s)
     PROVE  BaseInv'
    BY <1>8, TypeOK, PlaceInv, AgreeInv
       DEF DeliverFatal, Deliverable, Fatal, TypeOK, PlaceInv, AgreeInv,
           Agreeing, BaseInv, OuterInv, ReturnInv, Frames, MaskSets
<1>9. ASSUME NEW s \in Sigs, DeliverDropped(s)
     PROVE  BaseInv'
    BY <1>9, TypeOK, PlaceInv, AgreeInv
       DEF DeliverDropped, Deliverable, Fatal, TypeOK, PlaceInv, AgreeInv,
           Agreeing, BaseInv, OuterInv, ReturnInv, Frames, MaskSets
<1>10. ASSUME NEW s \in Sigs, Deliver(s)
     PROVE  BaseInv'
    BY <1>10, TypeOK, PlaceInv, AgreeInv
       DEF Deliver, Deliverable, TypeOK, PlaceInv, AgreeInv, Agreeing, BaseInv,
           OuterInv, ReturnInv, Frames, MaskSets
<1>11. ASSUME Sigreturn
     PROVE  BaseInv'
    BY <1>11, TypeOK, PlaceInv, AgreeInv
       DEF Sigreturn, TypeOK, PlaceInv, AgreeInv, Agreeing, BaseInv, OuterInv,
           ReturnInv, Frames, MaskSets
<1>12. ASSUME HostReturn
     PROVE  BaseInv'
    <2>1. depth \in 1 .. MaxDepth /\ depth \in Int /\ frames[depth] \in Frames
        BY <1>12, TypeOK, PlaceInv DEF HostReturn, TypeOK, PlaceInv
    <2>2. /\ depth' = depth - 1
          /\ hostMask' = frames[depth].host
          /\ at' = IF frames[depth].at = "suspend" THEN "woken" ELSE frames[depth].at
          /\ saved' = frames[depth].saved
          /\ UNCHANGED <<guestMask, blocked>>
        BY <1>12 DEF HostReturn
    <2>3. \A d \in 1 .. MaxDepth : d # depth => frames'[d] = frames[d]
        BY <1>12, <2>1, TypeOK DEF HostReturn, TypeOK
    <2>4. at = "returning" /\ blocked = frames[depth].blocked
        BY <1>12, AgreeInv DEF HostReturn, AgreeInv, ReturnInv
    <2> QED
        BY <2>1, <2>2, <2>4, AgreeInv, PlaceInv
           DEF AgreeInv, BaseInv, OuterInv, PlaceInv, Agreeing, Frames, Places
<1>13. CASE UNCHANGED vars
    BY <1>13, TypeOK, PlaceInv, AgreeInv
       DEF vars, TypeOK, PlaceInv, AgreeInv, Agreeing, BaseInv, OuterInv,
           ReturnInv, Frames, MaskSets
<1> QED
    BY <1>1, <1>2, <1>3, <1>4, <1>5, <1>6, <1>7, <1>8, <1>9, <1>10, <1>11, <1>12, <1>13
       DEF Next, Guest, Emulator

\* The outermost frame keeps the masks to go back to.
LEMMA NextOuterInv ==
    ASSUME ~MaskInHandlers, TypeOK, PlaceInv, AgreeInv, [Next]_vars
    PROVE  OuterInv'
<1> USE MaxDepthAssumption
<1>1. ASSUME NEW s \in Sigs \ Necessary, NEW a \in Handlers, Sigaction(s, a)
     PROVE  OuterInv'
    BY <1>1, TypeOK, PlaceInv, AgreeInv
       DEF Sigaction, Captured, TypeOK, PlaceInv, AgreeInv, Agreeing, BaseInv,
           OuterInv, ReturnInv, Frames, MaskSets
<1>2. ASSUME NEW m \in Masks, Sigprocmask(m)
     PROVE  OuterInv'
    BY <1>2, TypeOK, PlaceInv, AgreeInv
       DEF Sigprocmask, SetMask, TypeOK, PlaceInv, AgreeInv, Agreeing, BaseInv,
           OuterInv, ReturnInv, Frames, MaskSets
<1>3. ASSUME NEW m \in Masks, Sigsuspend(m)
     PROVE  OuterInv'
    BY <1>3, TypeOK, PlaceInv, AgreeInv
       DEF Sigsuspend, TypeOK, PlaceInv, AgreeInv, Agreeing, BaseInv, OuterInv,
           ReturnInv, Frames, MaskSets
<1>4. ASSUME SuspendReturns
     PROVE  OuterInv'
    BY <1>4, TypeOK, PlaceInv, AgreeInv
       DEF SuspendReturns, NoMasks, TypeOK, PlaceInv, AgreeInv, Agreeing,
           BaseInv, OuterInv, ReturnInv, Frames, MaskSets
<1>5. ASSUME GuardEnter
     PROVE  OuterInv'
    BY <1>5, TypeOK, PlaceInv, AgreeInv
       DEF GuardEnter, HostSignalMask, TypeOK, PlaceInv, AgreeInv, Agreeing,
           BaseInv, OuterInv, ReturnInv, Frames, MaskSets
<1>6. ASSUME GuardLeave
     PROVE  OuterInv'
    BY <1>6, TypeOK, PlaceInv, AgreeInv
       DEF GuardLeave, NoMasks, TypeOK, PlaceInv, AgreeInv, Agreeing, BaseInv,
           OuterInv, ReturnInv, Frames, MaskSets
<1>7. ASSUME NEW s \in Sigs, Arrive(s)
     PROVE  OuterInv'
    BY <1>7, TypeOK, PlaceInv, AgreeInv
       DEF Arrive, TypeOK, PlaceInv, AgreeInv, Agreeing, BaseInv, OuterInv,
           ReturnInv, Frames, MaskSets
<1>8. ASSUME NEW s \in Sigs, DeliverFatal(s)
     PROVE  OuterInv'
    BY <1>8, TypeOK, PlaceInv, AgreeInv
       DEF DeliverFatal, Deliverable, Fatal, TypeOK, PlaceInv, AgreeInv,
           Agreeing, BaseInv, OuterInv, ReturnInv, Frames, MaskSets
<1>9. ASSUME NEW s \in Sigs, DeliverDropped(s)
     PROVE  OuterInv'
    BY <1>9, TypeOK, PlaceInv, AgreeInv
       DEF DeliverDropped, Deliverable, Fatal, TypeOK, PlaceInv, AgreeInv,
           Agreeing, BaseInv, OuterInv, ReturnInv, Frames, MaskSets
<1>10. ASSUME NEW s \in Sigs, Deliver(s)
     PROVE  OuterInv'
    BY <1>10, TypeOK, PlaceInv, AgreeInv
       DEF Deliver, Deliverable, TypeOK, PlaceInv, AgreeInv, Agreeing, BaseInv,
           OuterInv, ReturnInv, Frames, MaskSets
<1>11. ASSUME Sigreturn
     PROVE  OuterInv'
    BY <1>11, TypeOK, PlaceInv, AgreeInv
       DEF Sigreturn, TypeOK, PlaceInv, AgreeInv, Agreeing, BaseInv, OuterInv,
           ReturnInv, Frames, MaskSets
<1>12. ASSUME HostReturn
     PROVE  OuterInv'
    <2>1. depth \in 1 .. MaxDepth /\ depth \in Int /\ frames[depth] \in Frames
        BY <1>12, TypeOK, PlaceInv DEF HostReturn, TypeOK, PlaceInv
    <2>2. /\ depth' = depth - 1
          /\ hostMask' = frames[depth].host
          /\ at' = IF frames[depth].at = "suspend" THEN "woken" ELSE frames[depth].at
          /\ saved' = frames[depth].saved
          /\ UNCHANGED <<guestMask, blocked>>
        BY <1>12 DEF HostReturn
    <2>3. \A d \in 1 .. MaxDepth : d # depth => frames'[d] = frames[d]
        BY <1>12, <2>1, TypeOK DEF HostReturn, TypeOK
    <2>4. at = "returning" /\ blocked = frames[depth].blocked
        BY <1>12, AgreeInv DEF HostReturn, AgreeInv, ReturnInv
    <2>5. CASE depth = 1
        BY <2>2, <2>5 DEF OuterInv
    <2>6. CASE depth > 1
        <3>1. frames'[1] = frames[1] /\ \A d \in 2 .. depth - 1 : frames'[d] = frames[d]
            BY <2>1, <2>3, <2>6
        <3>2. at' \notin {"suspend", "woken"}
            BY <2>1, <2>2, <2>6, AgreeInv DEF AgreeInv, OuterInv
        <3> QED
            BY <2>1, <2>2, <2>6, <3>1, <3>2, AgreeInv
               DEF AgreeInv, OuterInv, Agreeing
    <2> QED
        BY <2>1, <2>5, <2>6
<1>13. CASE UNCHANGED vars
    BY <1>13, TypeOK, PlaceInv, AgreeInv
       DEF vars, TypeOK, PlaceInv, AgreeInv, Agreeing, BaseInv, OuterInv,
           ReturnInv, Frames, MaskSets
<1> QED
    BY <1>1, <1>2, <1>3, <1>4, <1>5, <1>6, <1>7, <1>8, <1>9, <1>10, <1>11, <1>12, <1>13
       DEF Next, Guest, Emulator

\* A handler that is returning has the mask of the frame it returns to.
LEMMA NextReturnInv ==
    ASSUME ~MaskInHandlers, TypeOK, PlaceInv, AgreeInv, [Next]_vars
    PROVE  ReturnInv'
<1> USE MaxDepthAssumption
<1>1. ASSUME NEW s \in Sigs \ Necessary, NEW a \in Handlers, Sigaction(s, a)
     PROVE  ReturnInv'
    BY <1>1, TypeOK, PlaceInv, AgreeInv
       DEF Sigaction, Captured, TypeOK, PlaceInv, AgreeInv, Agreeing, BaseInv,
           OuterInv, ReturnInv, Frames, MaskSets
<1>2. ASSUME NEW m \in Masks, Sigprocmask(m)
     PROVE  ReturnInv'
    BY <1>2, TypeOK, PlaceInv, AgreeInv
       DEF Sigprocmask, SetMask, TypeOK, PlaceInv, AgreeInv, Agreeing, BaseInv,
           OuterInv, ReturnInv, Frames, MaskSets
<1>3. ASSUME NEW m \in Masks, Sigsuspend(m)
     PROVE  ReturnInv'
    BY <1>3, TypeOK, PlaceInv, AgreeInv
       DEF Sigsuspend, TypeOK, PlaceInv, AgreeInv, Agreeing, BaseInv, OuterInv,
           ReturnInv, Frames, MaskSets
<1>4. ASSUME SuspendReturns
     PROVE  ReturnInv'
    BY <1>4, TypeOK, PlaceInv, AgreeInv
       DEF SuspendReturns, NoMasks, TypeOK, PlaceInv, AgreeInv, Agreeing,
           BaseInv, OuterInv, ReturnInv, Frames, MaskSets
<1>5. ASSUME GuardEnter
     PROVE  ReturnInv'
    BY <1>5, TypeOK, PlaceInv, AgreeInv
       DEF GuardEnter, HostSignalMask, TypeOK, PlaceInv, AgreeInv, Agreeing,
           BaseInv, OuterInv, ReturnInv, Frames, MaskSets
<1>6. ASSUME GuardLeave
     PROVE  ReturnInv'
    BY <1>6, TypeOK, PlaceInv, AgreeInv
       DEF GuardLeave, NoMasks, TypeOK, PlaceInv, AgreeInv, Agreeing, BaseInv,
           OuterInv, ReturnInv, Frames, MaskSets
<1>7. ASSUME NEW s \in Sigs, Arrive(s)
     PROVE  ReturnInv'
    BY <1>7, TypeOK, PlaceInv, AgreeInv
       DEF Arrive, TypeOK, PlaceInv, AgreeInv, Agreeing, BaseInv, OuterInv,
           ReturnInv, Frames, MaskSets
<1>8. ASSUME NEW s \in Sigs, DeliverFatal(s)
     PROVE  ReturnInv'
    BY <1>8, TypeOK, PlaceInv, AgreeInv
       DEF DeliverFatal, Deliverable, Fatal, TypeOK, PlaceInv, AgreeInv,
           Agreeing, BaseInv, OuterInv, ReturnInv, Frames, MaskSets
<1>9. ASSUME NEW s \in Sigs, DeliverDropped(s)
     PROVE  ReturnInv'
    BY <1>9, TypeOK, PlaceInv, AgreeInv
       DEF DeliverDropped, Deliverable, Fatal, TypeOK, PlaceInv, AgreeInv,
           Agreeing, BaseInv, OuterInv, ReturnInv, Frames, MaskSets
<1>10. ASSUME NEW s \in Sigs, Deliver(s)
     PROVE  ReturnInv'
    BY <1>10, TypeOK, PlaceInv, AgreeInv
       DEF Deliver, Deliverable, TypeOK, PlaceInv, AgreeInv, Agreeing, BaseInv,
           OuterInv, ReturnInv, Frames, MaskSets
<1>11. ASSUME Sigreturn
     PROVE  ReturnInv'
    BY <1>11, TypeOK, PlaceInv, AgreeInv
       DEF Sigreturn, TypeOK, PlaceInv, AgreeInv, Agreeing, BaseInv, OuterInv,
           ReturnInv, Frames, MaskSets
<1>12. ASSUME HostReturn
     PROVE  ReturnInv'
    <2>1. depth \in 1 .. MaxDepth /\ depth \in Int /\ frames[depth] \in Frames
        BY <1>12, TypeOK, PlaceInv DEF HostReturn, TypeOK, PlaceInv
    <2>2. /\ depth' = depth - 1
          /\ hostMask' = frames[depth].host
          /\ at' = IF frames[depth].at = "suspend" THEN "woken" ELSE frames[depth].at
          /\ saved' = frames[depth].saved
          /\ UNCHANGED <<guestMask, blocked>>
        BY <1>12 DEF HostReturn
    <2>3. \A d \in 1 .. MaxDepth : d # depth => frames'[d] = frames[d]
        BY <1>12, <2>1, TypeOK DEF HostReturn, TypeOK
    <2>4. at = "returning" /\ blocked = frames[depth].blocked
        BY <1>12, AgreeInv DEF HostReturn, AgreeInv, ReturnInv
    <2>5. at' = "returning" => depth > 1 /\ blocked = frames[depth - 1].blocked
        BY <2>1, <2>2, <2>4, PlaceInv, AgreeInv DEF PlaceInv, AgreeInv, ReturnInv
    <2>6. \A d \in 2 .. depth - 1 : frames'[d] = frames[d] /\ frames'[d - 1] = frames[d - 1]
        BY <2>1, <2>3
    <2>7. depth > 1 => frames'[depth - 1] = frames[depth - 1]
        BY <2>1, <2>3
    <2> QED
        BY <2>1, <2>2, <2>5, <2>6, <2>7, AgreeInv DEF AgreeInv, ReturnInv
<1>13. CASE UNCHANGED vars
    BY <1>13, TypeOK, PlaceInv, AgreeInv
       DEF vars, TypeOK, PlaceInv, AgreeInv, Agreeing, BaseInv, OuterInv,
           ReturnInv, Frames, MaskSets
<1> QED
    BY <1>1, <1>2, <1>3, <1>4, <1>5, <1>6, <1>7, <1>8, <1>9, <1>10, <1>11, <1>12, <1>13
       DEF Next, Guest, Emulator

\* The initial state satisfies all of it.
LEMMA InitMaskInv == Init => OpenInv /\ AgreeInv /\ CaptureInv
<1> SUFFICES ASSUME Init PROVE OpenInv /\ AgreeInv /\ CaptureInv
    OBVIOUS
<1> USE MaxDepthAssumption DEF Init, NoFrame, NoMasks
<1>1. OpenInv
    BY DEF OpenInv, NecessaryOpen
<1>2. BaseInv
    BY DEF BaseInv, Agreeing
<1>3. OuterInv
    BY DEF OuterInv, Agreeing
<1>4. ReturnInv
    BY DEF ReturnInv
<1>5. CaptureInv
    BY DEF CaptureInv
<1> QED
    BY <1>1, <1>2, <1>3, <1>4, <1>5 DEF AgreeInv

\* The signal state keeps its type, whatever the guest calls.
THEOREM TypeCorrect == Spec => []TypeOK
<1>1. Init => TypeOK /\ PlaceInv
    BY InitTypeOK
<1>2. TypeOK /\ PlaceInv /\ [Next]_vars => TypeOK' /\ PlaceInv'
    BY NextTypeOK, NextPlaceInv
<1> QED
    BY <1>1, <1>2, PTL DEF Spec

\* No guest gets SIGSEGV or SIGILL blocked on the host while it runs, however
\* deep its handlers nest and whatever they do with masks: every path to
\* pthread_sigmask filters with hostSignalMask, and the one mask that does not,
\* that of sigsuspend, is never kept in a frame.
THEOREM NecessaryStaysOpen == Spec => []NecessaryOpen
<1> DEFINE Inv == TypeOK /\ PlaceInv /\ OpenInv
<1>1. Init => Inv
    BY InitTypeOK, InitMaskInv
<1>2. Inv /\ [Next]_vars => Inv'
    BY NextTypeOK, NextPlaceInv, NextOpenInv
<1>3. Inv => NecessaryOpen
    BY DEF OpenInv
<1> QED
    BY <1>1, <1>2, <1>3, PTL DEF Spec

\* All the invariants together, for a guest that changes its mask only outside
\* of handlers.
LEMMA MaskInvariance ==
    ASSUME ~MaskInHandlers
    PROVE  Spec => [](TypeOK /\ MaskInv)
<1> DEFINE Inv == TypeOK /\ PlaceInv /\ MaskInv
<1>1. Init => Inv
    BY InitTypeOK, InitMaskInv DEF MaskInv
<1>2. ASSUME Inv, [Next]_vars PROVE Inv'
    <2>1. TypeOK' /\ PlaceInv'
        BY <1>2, NextTypeOK, NextPlaceInv
    <2>2. OpenInv'
        BY <1>2, NextOpenInv DEF MaskInv
    <2>3. AgreeInv'
        BY <1>2, NextBaseInv, NextOuterInv, NextReturnInv DEF MaskInv, AgreeInv
    <2>4. CaptureInv'
        BY <1>2, NextCaptureInv DEF MaskInv
    <2> QED
        BY <2>1, <2>2, <2>3, <2>4 DEF MaskInv
<1> QED
    BY <1>1, <1>2, PTL DEF Spec

\* Outside of handlers the host's mask, ThreadState::signal_mask and Linux's
\* idea of the mask agree, for handlers nested to any depth, when the guest
\* changes its mask only outside of handlers: what dispatch_guest, sigreturn and
\* the host kernel save and restore matches up.
THEOREM MasksStayEqual ==
    ASSUME ~MaskInHandlers
    PROVE  Spec => []MasksAgree
<1>1. TypeOK /\ MaskInv => MasksAgree
    BY DEF MaskInv, AgreeInv, BaseInv, MasksAgree
<1> QED
    BY <1>1, MaskInvariance, PTL

\* For such a guest dispatch_guest never starts a handler whose signal is
\* blocked, unless it interrupts another handler: also not from within
\* rt_sigsuspend, nor between its end and the return to the guest.
THEOREM OutermostHandlerHonoursMask ==
    ASSUME ~MaskInHandlers
    PROVE  Spec => OutermostHonoursMask
<1>1. ASSUME TypeOK, MaskInv, [Next]_vars
      PROVE  [\A s \in Sigs : Deliver(s) /\ depth = 0 => s \notin blocked]_vars
    <2> SUFFICES ASSUME NEW s \in Sigs, Deliver(s), depth = 0 PROVE s \notin blocked
        OBVIOUS
    <2>1. at \in {"guest", "suspend", "woken"} /\ s \in pending \ hostMask
        BY <1>1 DEF Deliver, Deliverable, TypeOK, Places, MaskInv, PlaceInv
    <2>2. s \in HostSignalMask
        BY <1>1, <2>1 DEF MaskInv, CaptureInv, HostSignalMask
    <2>3. CASE at = "guest"
        BY <1>1, <2>1, <2>2, <2>3 DEF MaskInv, AgreeInv, BaseInv
    <2>4. CASE at = "suspend"
        BY <1>1, <2>1, <2>4 DEF MaskInv, AgreeInv, BaseInv
    <2>5. CASE at = "woken"
        BY <1>1, <2>1, <2>2, <2>5 DEF MaskInv, AgreeInv, BaseInv, Agreeing
    <2> QED
        BY <2>1, <2>3, <2>4, <2>5
<1> QED
    BY <1>1, MaskInvariance, PTL DEF Spec, OutermostHonoursMask

=============================================================================
