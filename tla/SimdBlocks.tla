----------------------------- MODULE SimdBlocks -----------------------------
(***************************************************************************)
(* Blocks of MMX, SSE and x87 code, translated and run beside the          *)
(* reference Sse.  A program is a sequence of blocks, each a sequence of   *)
(* instructions.  A block is entered by the dispatcher, which restores the *)
(* whole state, or by a link from the block before it, which restores      *)
(* nothing.  Within a block the translator keeps track of what it has      *)
(* emitted: the configuration of the vector unit, which of x87 and MMX the *)
(* shared registers are arranged for, and whose rounding mode is loaded.   *)
(***************************************************************************)
EXTENDS Simd

CONSTANTS Programs,     \* the programs
          Inputs(_),    \* the states in which a program starts
          Hosts(_)      \* hosts and options for it

ref == INSTANCE Sse

VARIABLES prog,     \* the program
          host,     \* [VLEN, Zfa, minmax, paranoid, junk]
          h,        \* the guest's state under the emulator
          x,        \* the guest's state on a processor
          block,    \* the number of the block
          at,       \* the position in it, 0 before it is entered
          disp,     \* the dispatcher was emitted while fsrm_sse held
          stale,    \* the block was entered without the mode of SSE
          skipped,  \* the configuration believed in was set in code not run
          lost,     \* TOP was overwritten (FCOM)
          rough     \* TRUE after a result that is known to differ

vars == <<prog, host, h, x, block, at, disp, stale, skipped, lost, rough>>

EnvOf(hh) == hh @@ [B |-> TRUE, emit |-> Flags, Zvbb |-> FALSE, state |-> as!Word(16, 8)]
Env == EnvOf(host)
Believed(s, vlen) == s.bel # Unknown => s.c = rv!VSETIVLI(s.bel[2], s.bel[1], s.bel[3], vlen)

HostVec(xx, hh, r) ==
    IF r \in DOMAIN xx.xmm THEN xx.xmm[r] \cup (hh.junk \ as!Bits(128))
    ELSE IF xx.unit = "mmx" THEN xx.p[CHOOSE k \in 0 .. 7 : MM[k] = r] \cup (hh.junk \ as!Bits(64))
    ELSE hh.junk
HostState(xx, hh) ==
    [g |-> xx.g, f |-> xx.f, m |-> xx.m, top |-> xx.top, cw |-> xx.cw, sw |-> xx.sw, tw |-> {}, mxcsr |-> xx.mxcsr,
     v |-> [r \in DOMAIN xx.xmm \cup {MM[k] : k \in 0 .. 7} |-> HostVec(xx, hh, r)],
     st |-> [k \in 0 .. 7 |-> IF xx.unit = "x87" THEN xx.p[(xx.top + k) % 8] ELSE as!Low(hh.junk, 64)],
     x87 |-> xx.unit, rx |-> ref!ModeX87(xx), rs |-> ref!ModeSse(xx), frm |-> ref!ModeSse(xx),
     c |-> rv!VSETIVLI(2, 64, "M1", hh.VLEN), bel |-> Unknown, loc |-> "unknown", sse |-> TRUE,
     area |-> [cw |-> {}, sw |-> {}, tw |-> {}, mxcsr |-> {}, st |-> [k \in 0 .. 7 |-> {}],
               xmm |-> [r \in DOMAIN xx.xmm |-> {}]]]
EmptyArea(xx) ==
    [cw |-> {}, sw |-> {}, top |-> 0, p |-> xx.p, kind |-> xx.kind, su |-> {}, mxcsr |-> {}, xmm |-> xx.xmm]

Init ==
    /\ prog \in Programs
    /\ host \in Hosts(prog)
    /\ \E xx \in Inputs(prog) :
         /\ x = [k \in DOMAIN xx \ {"unit"} |-> xx[k]] @@ [u |-> {}, su |-> {}, area |-> EmptyArea(xx)]
         /\ h = HostState(xx, host)
    /\ block = 1
    /\ at = 0
    /\ disp = TRUE
    /\ stale = FALSE
    /\ skipped = FALSE
    /\ lost = FALSE
    /\ rough = FALSE

-----------------------------------------------------------------------------
(* Entering a block.                                                       *)

(* What the translator assumes at the start of a block.                    *)
AtStart(s) == [s EXCEPT !.bel = Unknown, !.loc = "unknown", !.sse = TRUE]
Entered(s) ==
    /\ at = 0
    /\ block <= Len(prog)
    /\ at' = 1
    /\ h' = AtStart(s)
    /\ stale' = (s.frm # s.rs)
    /\ skipped' = FALSE
    /\ UNCHANGED <<prog, host, x, block, lost, rough>>

(* By a jump from the block before, or from the dispatcher's own cache of  *)
(* addresses: the state stays in its registers.                            *)
EnterLinked ==
    /\ block > 1
    /\ Entered(h)
    /\ UNCHANGED disp
(* By the dispatcher, whose restoreState was emitted when disp was noted.  *)
EnterDispatched ==
    /\ Entered(Called([h EXCEPT !.sse = disp], Env))
    /\ UNCHANGED disp
(* By a dispatcher that was just emitted anew, after the last translation, *)
(* because the code cache was cleared.                                     *)
EnterCleared ==
    /\ Entered(Called(h, Env))
    /\ disp' = h.sse

-----------------------------------------------------------------------------
(* Where handlers are known to differ from the manual.                     *)

Lane(r, k, w) == rv!El(r, k, w)
Lanes_(w) == 0 .. (128 \div w - 1)
Source(xx, i) == ref!Operand(xx, i, 2)
Goal(xx, i) == ref!Operand(xx, i, 1)

(* Results: numbers out of the range of integers, rounded through integers *)
(* or with the sign of a zero; the minimum of numbers without an order;    *)
(* sums in another order; the sign mask of an MMX register; long strings.  *)
IntegerWidth(i) == CASE i.op \in {"cvtts2si", "cvts2si", "fist"} -> i.o[1].w [] OTHER -> 32
OutOfRange(i, a, w, rm) == ~fl!Fits(a, w, IntegerWidth(i), rm)
RoughConversion(xx, i, b, rm) ==
    CASE i.op \in {"cvtts2si", "cvts2si"} -> OutOfRange(i, Lane(b, 0, i.w), i.w, IF i.op = "cvtts2si" THEN "rtz" ELSE rm)
      [] i.op \in {"cvtps2dq", "cvttps2dq"} -> \E k \in 0 .. 3 : OutOfRange(i, Lane(b, k, 32), 32, rm)
      [] i.op = "cvtps2pi" -> \E k \in 0 .. 1 : OutOfRange(i, Lane(b, k, 32), 32, rm)
      [] i.op \in {"cvtpd2dq", "cvttpd2dq", "cvtpd2pi"} -> \E k \in 0 .. 1 : OutOfRange(i, Lane(b, k, 64), 64, rm)
      [] OTHER -> FALSE
Unsafe(a, w, rm) == ThroughInteger(a, w, rm) # fl!FRound(a, w, rm)
RoughNumber(xx, i, a, b, imm, rm) ==
    CASE i.op = "round" -> (2 \in imm \/ ~host.Zfa) /\ Unsafe(Lane(b, 0, i.w), i.w, ref!RoundMode(imm, rm))
      [] i.op = "scalar" /\ i.fn \in {"min", "max"} -> TakesSource(Lane(a, 0, i.w), Lane(b, 0, i.w), i.w)
      [] i.op \in {"minp", "maxp"} -> host.minmax /\ \E k \in Lanes_(i.w) : TakesSource(Lane(a, k, i.w), Lane(b, k, i.w), i.w)
      [] i.op \in {"haddpd", "hsubpd"} -> \E r \in {a, b} : \A k \in 0 .. 1 : fl!IsZero(Lane(r, k, 64), 64)
      [] i.op = "dpps" -> {6, 7} \subseteq imm /\ {4, 5} \cap imm # {}
      [] OTHER -> FALSE
StringEnd(xx, i, imm) ==
    IF i.implicit THEN ImplicitLength(Source(xx, i), Width(imm)) ELSE as!Num(as!Low(xx.g["rdx"], 16))
StringStart(xx, i, imm) ==
    IF i.implicit THEN ImplicitLength(Goal(xx, i), Width(imm)) ELSE as!Num(as!Low(xx.g["rax"], 16))
RoughElement(xx, i, imm) ==
    CASE i.op = "pmovmskb" -> IsMM(i.o[2])
      [] i.op = "pcmpxstrx"
           -> \/ i.o[2].k = "mem" /\ {i.o[2].base, i.o[2].index} \cap {"rdi", "rsi", "rdx"} # {}
              \/ Mode(imm) = "ordered" /\ (StringEnd(xx, i, imm) < Numbers(imm) \/ StringStart(xx, i, imm) = 0)
      [] OTHER -> FALSE
Rounding(i) == i.op \in Numbers_ \cup Conversions

(* x87: the environment is loaded without moving registers, saved without  *)
(* initialising, and shows a status word without TOP; MMX after a stack    *)
(* that is not at its base; numbers that 80 bits do not get right.         *)
Ordinary(a) == fl!IsZero(a, 64) \/ fl!Exponent(a, 64) \in 1 .. 2046
Fresh(xx) == xx.sw = {} /\ xx.top = 0 /\ xx.cw = ref!Initial.cw
RoughX87(xx, i) ==
    CASE i.op = "fldenv" -> xx.area.top # xx.top \/ lost
      [] i.op = "fnsave" -> ~Fresh(xx)
      [] i.op = "fninit" -> ~Fresh([xx EXCEPT !.cw = ref!Initial.cw]) \/ lost \/ h.rx # "rne"
      [] i.op = "fnstsw" -> xx.su # {} \/ xx.top # 0 \/ lost \/ h.sw \cap Top # {}
      [] i.op = "fnstcw" -> 15 \in h.cw
      [] i.op = "fst" -> i.o[1].w = 80 /\ ~Ordinary(ref!Stack(xx, 0))
      [] i.op = "fist" -> OutOfRange(i, ref!Stack(xx, 0), 64, IF i.rm = "dyn" THEN ref!ModeX87(xx) ELSE i.rm)
      [] i.op = "frndint" -> ~host.Zfa /\ Unsafe(ref!Stack(xx, 0), 64, ref!ModeX87(xx))
      [] i.op = "fscale" -> ref!Stack(xx, 0) = {63}
      [] i.op = "fxam" -> ~Ordinary(ref!Stack(xx, 0)) /\ ~fl!IsInf(ref!Stack(xx, 0), 64)
      [] i.op = "fcmov" -> ref!ConditionFlags(i.fn) \cap xx.u # {}
      [] OTHER -> FALSE
(* Saved as numbers: data of MMX, which FNSAVE first moves to the x87      *)
(* registers, or numbers with the mark of MMX left over from an earlier    *)
(* image.                                                                  *)
RoughSave(xx, i) ==
    /\ i.op = "fnsave" \/ (i.op = "fxsave" /\ h.x87 = "x87")
    /\ 15 \in h.cw \/ \E k \in 0 .. 7 : ~Ordinary(xx.p[k])

(* The registers of the stack an instruction reads, and data of the other  *)
(* kind in them.                                                           *)
NoRead == {"fild", "fldconst", "fnstcw", "fldcw", "fninit", "fnstsw", "fnstenv", "fldenv", "fnsave", "frstor"}
StackReads(i) ==
    IF i.op \in NoRead \/ (i.op = "fld" /\ i.o[1].k = "mem") THEN {}
    ELSE (IF i.op = "fld" THEN {} ELSE {0}) \cup {StackIndex(i.o[k]) : k \in {j \in 1 .. Len(i.o) : i.o[j].k = "st"}}
         \cup (IF i.op \in {"fpatan", "fscale", "fyl2x", "fyl2xp1", "fprem"} THEN {1} ELSE {})
Overwriting == {"movq", "movd", "movdq2q", "pshufw", "cvtpd2pi", "cvtps2pi"}
MmxReads(i) ==
    {k \in 0 .. 7 : \E j \in (IF i.op \in Overwriting THEN 2 ELSE 1) .. Len(i.o) : i.o[j].k = "vec" /\ i.o[j].r = MM[k]}
OtherKind(xx, i) ==
    IF IsX87(i) THEN \E k \in StackReads(i) : xx.kind[ref!Physical(xx, k)] = "m"
    ELSE \E k \in MmxReads(i) : xx.kind[k] = "f"

(* The configuration is relied on although the code that sets it was       *)
(* skipped.                                                                *)
Vectorless == HostCalls \cup {"emms", "ldmxcsr", "stmxcsr", "pcmpxstrx"}
Relies(s, i) == ~IsX87(i) /\ i.op \notin Vectorless /\ ~Believed(Configured(s, i, Env), host.VLEN)
Skipped(s, i) == Relies(Fetched(Prologue(s, i, Env), i, Env), i)

Rough(xx, i, imm) ==
    \/ RoughConversion(xx, i, Source(xx, i), IF i.rm = "dyn" THEN ref!ModeSse(xx) ELSE i.rm)
    \/ RoughNumber(xx, i, Goal(xx, i), Source(xx, i), imm, ref!ModeSse(xx))
    \/ RoughElement(xx, i, imm)
    \/ RoughX87(xx, i)
    \/ RoughSave(xx, i)
    \/ OtherKind(xx, i)
    \/ UsesMM(i) /\ xx.top # 0
    \/ stale /\ Rounding(i)

-----------------------------------------------------------------------------
(* One instruction, by its handler and by the reference.                   *)
Instruction == prog[block][at] @@ [next |-> as!Word(at + 1, 16)]
Last == at = Len(prog[block])

Run ==
    /\ at > 0
    /\ h' = HandleVec(h, Instruction, Env)
    /\ x' = ref!Execute(x, Instruction)
    /\ skipped' = ~Believed(h', host.VLEN)
    /\ stale' = (stale /\ ~IsX87(Instruction) /\ Instruction.op # "ldmxcsr")
    /\ lost' = (lost \/ (Instruction.op = "fcom" /\ x.top # 0))
    /\ rough' = (rough \/ Rough(x, Instruction, ref!ImmediateOf(Instruction)) \/ Skipped(h, Instruction))
    /\ at' = IF Last THEN 0 ELSE at + 1
    /\ block' = IF Last THEN block + 1 ELSE block
    /\ UNCHANGED <<prog, host, disp>>

Next == EnterLinked \/ EnterDispatched \/ EnterCleared \/ Run
Spec == Init /\ [][Next]_vars

-----------------------------------------------------------------------------
(* Properties, up to the first result that is known to differ.             *)

(* After every instruction the SSE registers, general registers, memory    *)
(* and flags are those of a processor, although handlers compute them in   *)
(* wider registers under a configuration set by an earlier instruction,    *)
(* and with a rounding mode that x87 code may have replaced meanwhile.     *)
SameVectors ==
    ~rough => /\ h.g = x.g /\ h.m = x.m /\ h.mxcsr = x.mxcsr
              /\ \A r \in DOMAIN x.xmm : as!Low(h.v[r], 128) = x.xmm[r]
              /\ \A k \in Flags \ x.u : h.f[k] = x.f[k]

(* After every instruction the registers that x87 and MMX share hold what  *)
(* a processor would, whichever of the two register sets of the host they  *)
(* are in, however often the stack was rotated, switched, saved, restored  *)
(* or carried through a call into the emulator; so do the top of the       *)
(* stack, control word and defined bits of the status word.                *)
SharedRegister(k) == IF h.x87 = "x87" THEN h.st[k] ELSE rv!El(h.v[MM[k]], 0, 64)
SameStack ==
    ~rough => /\ \A k \in 0 .. 7 : SharedRegister(k) = ref!Stack(x, k)
              /\ lost \/ h.top = x.top
              /\ h.cw \ {15} = x.cw
              /\ (h.sw \ (Top \cup x.su)) = (x.sw \ (Top \cup x.su))

(* Whatever configuration the translator believes in, so that it emits no  *)
(* vsetivli, is the one the vector unit has when the code gets there, on   *)
(* every path into and through a block; the one exception is a switch      *)
(* between x87 and MMX that is found to be done already.                   *)
ConfigurationKnown == at > 0 /\ ~rough => \/ Believed(h, host.VLEN) \/ (skipped /\ h.bel = <<64, 1, "M1">>)

(* compileSequence starts every block with the assumption that the         *)
(* rounding mode of SSE is loaded.                                         *)
EntryHasSseMode == at = 1 => h.frm = h.rs

=============================================================================
