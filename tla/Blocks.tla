------------------------------- MODULE Blocks -------------------------------
(***************************************************************************)
(* Blocks of guest code, translated and run beside the reference.          *)
(*                                                                         *)
(* The translator reads a block ahead (scanAhead) to see which flags each  *)
(* instruction has to leave behind, then emits the handlers' code.  Host   *)
(* and reference run the same program instruction by instruction: h is the *)
(* guest's state as the emitted code keeps it, x the state of a processor. *)
(*                                                                         *)
(* A program is a sequence of instructions; the one at position k lies at  *)
(* address k.  It ends when rip leaves the program.                        *)
(***************************************************************************)
EXTENDS Handlers

CONSTANTS Programs,     \* the programs
          Inputs(_),    \* the states in which a program starts
          Hosts(_),     \* hosts and options for it: records [B, opts, unsafe]
          MaxBlocks     \* the blocks a program runs at most

ref == INSTANCE X86

VARIABLES prog,     \* the program
          host,     \* the host it runs on
          h,        \* the guest's state under the emulator
          x,        \* the guest's state on a processor
          pc,       \* "scan": at the start of a block; "run": in one
          at,       \* the address of the next instruction
          start,    \* the address of the block
          access,   \* flag_access_cpazso: for every flag its accesses in order
          blocks,   \* the blocks run so far
          wrong,    \* the flags left by a computation known to differ (Wrong)
          passed,   \* the flags an instruction may change but has not (Skips)
          rough     \* TRUE after a result that is known to differ (Rough)

vars == <<prog, host, h, x, pc, at, start, access, blocks, wrong, passed, rough>>

Address(k) == as!Word(k, 16)
Inside(a) == \E k \in 1 .. Len(prog) : a = Address(k)
IndexOf(a) == CHOOSE k \in 1 .. Len(prog) : a = Address(k)

-----------------------------------------------------------------------------
(* The analysis of flags.                                                  *)

flag_passthrough(i, fl) ==
    i.op \in {"shl", "shld", "shr", "shrd", "sar", "rol", "ror"} /\ fl \in {"cf", "of"}

(* The addresses of a block: up to the first jump, call or return.         *)
BlockEnd(k) == CHOOSE z \in k .. Len(prog) :
                 ref!EndsBlock(prog[z]) /\ \A y \in k .. (z - 1) : ~ref!EndsBlock(prog[y])

(* A slip: an instruction that reads and changes a flag only changes it.   *)
ChangesFirst(k, fl) ==
    LET entry(changed) == <<[changed |-> changed, rip |-> k]>>
    IN IF fl \in ref!Changed(prog[k]) THEN entry(TRUE)
       ELSE IF fl \in ref!Tested(prog[k]) THEN entry(FALSE)
       ELSE <<>>

(* What one instruction does to a flag: nothing, or an access that reads   *)
(* it or changes it without reading.  A call or a return may be taken to   *)
(* change every flag.                                                      *)
AccessOf(k, fl) ==
    LET i == prog[k]
        entry(changed) == <<[changed |-> changed, rip |-> k]>>
    IN CASE host.unsafe /\ i.op \in {"call", "ret"} -> entry(TRUE)
         [] fl \in ref!Tested(i) \/ flag_passthrough(i, fl) -> entry(FALSE)
         [] fl \in ref!Changed(i) -> entry(TRUE)
         [] OTHER -> <<>>
Accesses[k \in Nat, z \in Nat, fl \in Flags] ==
    IF k > z THEN <<>> ELSE AccessOf(k, fl) \o Accesses[k + 1, z, fl]

shouldEmitFlag(k, fl) ==
    LET later == SelectSeq(access[fl], LAMBDA a : a.rip > k)
    IN later = <<>> \/ ~Head(later).changed

-----------------------------------------------------------------------------
(* Where handlers are known to differ from the manual, of an instruction i *)
(* in the state s.                                                         *)

Memory(o) == o.k = "mem"
Shifting(i) == ref!Family(i) \in {"shift", "rotate", "carry", "double"}
Places(s, i) == ref!Times(s, i, i.o[Len(i.o)])

(* A count of 0, or no round of a loop: no flag is changed.                *)
Skips(s, i) == \/ Shifting(i) /\ Places(s, i) = 0
               \/ i.rep # "none" /\ s.g["rcx"] = as!Zero

(* Results: no fault is raised, a flag without a defined value is read, a  *)
(* double shift of a word by more than its width is undefined, ROL and ROR *)
(* of a byte or a word by more than its width lose bits, a rotation of a   *)
(* double word by 0 leaves the upper half, IMUL takes a byte as unsigned,  *)
(* a bit string is entered one byte too low, CMPXCHG8B compares and stores *)
(* the upper halves of registers, XADD and POP compute an address from a   *)
(* register they change, and CMPXCHG on less than a double word leaves     *)
(* scratch values in flags it was not asked for.                           *)
Rough(s, i, e) ==
    \/ ref!Faults(s, i)
    \/ ref!Tested(i) \cap (s.u \cup wrong \cup passed) # {}
    \/ ref!Family(i) = "double" /\ Places(s, i) > i.w
    \/ ref!Family(i) = "rotate" /\ i.w < 32 /\ Places(s, i) > i.w
    \/ ref!Family(i) = "rotate" /\ i.w = 32 /\ Places(s, i) = 0 /\ ~Memory(i.o[1])
    \/ i.op = "imul" /\ Len(i.o) = 1 /\ i.w = 8 /\ 7 \in ref!Read(s, i.o[1])
    \/ /\ ref!Family(i) = "bit" /\ Memory(i.o[1]) /\ i.o[2].k = "reg"
       /\ i.w - 1 \in ref!Read(s, i.o[2]) /\ as!Low(ref!Read(s, i.o[2]), 3) # as!Zero
    \/ i.op = "cmpxchg8b" /\ (s.g["rax"] \cup s.g["rbx"]) \cap 32 .. 63 # {}
    \/ i.op = "xadd" /\ ~i.lock /\ Memory(i.o[1]) /\ i.o[1].base = i.o[2].r
    \/ i.op = "cmpxchg" /\ Memory(i.o[1]) /\ i.w < 32 /\ ~({"cf", "zf"} \subseteq e.emit)
    \/ i.op = "pop" /\ (IF Memory(i.o[1]) THEN i.o[1].base = "rsp" ELSE i.o[1] = [i.o[1] EXCEPT !.r = "rsp", !.w = 16])

(* Flags: the overflow of SBB if both of its subtractions overflow, of SHL *)
(* by an immediate 1 or with a carry that is not computed, of ROL, and of  *)
(* RCL and RCR by 0; the carry of SAR beyond the width, and of LOCK ADD    *)
(* and SUB on a negative double word; every flag of LOCK ADD on less; AF   *)
(* of XADD; CF or OF of TEST if only one of them is needed; and every flag *)
(* at a call or a return if the option unsafe_flags gives them up.         *)
Wrong(s, i, e) ==
    LET w == i.o[1].w
        first == ref!DifferenceOf(ref!Read(s, i.o[1]), ref!Read(s, i.o[2]), {}, w)
    IN CASE i.op = "sbb" /\ s.f.cf # as!Zero /\ first.f.of /\ first.v = {w - 1} -> {"of"}
         [] i.op = "shl" /\ Places(s, i) = 1 /\ (i.o[2].k = "imm" \/ "cf" \notin e.emit) -> {"of"}
         [] i.op = "rol" /\ w < 64 /\ Places(s, i) # 0 -> {"of"}
         [] i.op \in {"rcl", "rcr"} /\ Places(s, i) = 0 -> {"of"}
         [] i.op = "sar" /\ Places(s, i) > w -> {"cf"}
         [] i.op \in {"add", "sub"} /\ Atomic(i) /\ w = 32 -> {"cf"}
         [] i.op = "add" /\ Atomic(i) /\ w < 32 -> Flags
         [] i.op = "xadd" -> {"af"}
         [] i.op \in {"call", "ret"} /\ host.unsafe -> Flags
         [] i.op = "test" /\ ("cf" \in e.emit) # ("of" \in e.emit) -> {"cf", "of"}
         [] OTHER -> {}

-----------------------------------------------------------------------------
Init ==
    /\ prog \in Programs
    /\ host \in Hosts(prog)
    /\ x \in {[s EXCEPT !.rip = Address(1)] @@ [u |-> {}] : s \in Inputs(prog)}
    /\ h = [c \in DOMAIN x \ {"u"} |-> x[c]]
    /\ pc = "scan"
    /\ at = 1
    /\ start = 1
    /\ access = [fl \in Flags |-> <<>>]
    /\ blocks = 0
    /\ wrong = {}
    /\ passed = {}
    /\ rough = FALSE

(* A block starts where the emulator went.                                 *)
ScanAhead ==
    /\ pc = "scan"
    /\ Inside(h.rip)
    /\ blocks < MaxBlocks
    /\ pc' = "run"
    /\ start' = IndexOf(h.rip)
    /\ at' = start'
    /\ access' = [fl \in Flags |-> Accesses[start', BlockEnd(start'), fl]]
    /\ blocks' = blocks + 1
    /\ UNCHANGED <<prog, host, h, x, wrong, passed, rough>>

(* One instruction, by its handler and by the reference.                   *)
Instruction(k) == prog[k] @@ [next |-> Address(k + 1)]
Environment ==
    [B |-> host.B, opts |-> host.opts, block |-> Address(start),
     emit |-> {fl \in Flags : shouldEmitFlag(at, fl)}]

Run ==
    LET i == Instruction(at)
        ends == ref!EndsBlock(i)
    IN /\ pc = "run"
       /\ h' = Handle(h, i, Environment)
       /\ x' = IF ref!Faults(x, i) THEN x ELSE ref!Execute(x, i)
       /\ LET changed == IF Skips(x, i) THEN {} ELSE ref!Changed(i)
              kept == ref!Changed(i) \ (changed \cup ref!Tested(i))
          IN /\ wrong' = (wrong \ changed) \cup Wrong(x, i, Environment)
             /\ passed' = (passed \ changed) \cup {fl \in kept : ~flag_passthrough(i, fl) /\ at # start}
       /\ rough' = (rough \/ Rough(x, i, Environment))
       /\ pc' = IF ends THEN "scan" ELSE "run"
       /\ at' = at + 1
       /\ UNCHANGED <<prog, host, start, access, blocks>>

Next == ScanAhead \/ Run
Spec == Init /\ [][Next]_vars

-----------------------------------------------------------------------------
(* Properties, up to the first result that is known to differ.             *)

(* The registers and memory a translated block leaves are those the        *)
(* processor would leave after every single instruction, and the block     *)
(* continues at the same address, whatever flags were left out and         *)
(* whichever form a handler takes for it.                                  *)
SameState ==
    ~rough => /\ h.g = x.g /\ h.m = x.m /\ h.df = x.df /\ h.id = x.id /\ h.ac = x.ac
              /\ pc = "scan" => h.rip = x.rip

(* At the end of a block every flag the manual defines is in its register, *)
(* as 0 or 1, although shouldEmitFlag let most instructions of the block   *)
(* leave most of them out: the next block may read any of them.            *)
SameFlags ==
    ~rough /\ pc = "scan" =>
        \A fl \in Flags \ wrong :
            /\ h.f[fl] \in {as!Zero, as!One}
            /\ fl \notin x.u \cup passed => h.f[fl] = x.f[fl]

(* No instruction within a block reads a flag that an instruction before   *)
(* it was allowed to leave out: scanAhead saw every reader.                *)
ReadFlagsAreCurrent ==
    ~rough /\ pc = "run" =>
        \A fl \in ref!Tested(prog[at]) \ (x.u \cup wrong \cup passed) : h.f[fl] = x.f[fl]

=============================================================================
