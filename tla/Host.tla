-------------------------------- MODULE Host --------------------------------
(***************************************************************************)
(* What stands between the guest and the host's kernel: the names of files *)
(* (RootFs), the system calls (GuestCalls) and the heap (Brk), entered     *)
(* from felix86_syscall and felix86_syscall32.  None reads the state of    *)
(* another, so a behaviour is one of a single part, and the others stay as *)
(* they are at the start.                                                  *)
(***************************************************************************)
EXTENDS RootFs, GuestCalls, Brk

VARIABLE part           \* the part that takes steps

vars == <<part, fsVars, callVars, heapVars>>

\* Where the parts start that take no steps.
Idle(start) == start = CHOOSE s \in Starts : TRUE
IdleTopic == CHOOSE t \in DOMAIN Requests : TRUE
IdleImage == CHOOSE image \in Images : TRUE

Init ==
    /\ part \in {"files", "calls", "heap"}
    /\ FsInit /\ (part # "files" => Idle(<<tree, dirs.cwd>>))
    /\ CallInit /\ (part # "calls" => topic = IdleTopic)
    /\ HeapInit /\ (part # "heap" => \A x \in Addresses : (owner[x] = "other") = (x \div Page \in IdleImage))

\* A call on the name of a file, any other call that only has to be translated,
\* and a step of brk or of what else maps memory.
FileCall == part = "files" /\ FsNext /\ UNCHANGED <<part, callVars, heapVars>>
KernelCall == part = "calls" /\ CallNext /\ UNCHANGED <<part, fsVars, heapVars>>
HeapStep == part = "heap" /\ HeapNext /\ UNCHANGED <<part, fsVars, callVars>>

Next == FileCall \/ KernelCall \/ HeapStep

Spec == Init /\ [][Next]_vars
=============================================================================
