---------------------------- MODULE X87Handlers -----------------------------
(***************************************************************************)
(* The x87 unit, its registers shared with MMX, and calls into the host.   *)
(* The state gets                                                          *)
(*   s.st          ST(0) to ST(7) in host registers, s.top of the stack    *)
(*   s.cw, s.sw, s.tw, s.mxcsr   control, status and tag words             *)
(*   s.rx, s.rs    the host's rounding modes for x87 and for SSE           *)
(*   s.x87         which registers are current: "x87" or "mmx"             *)
(*   s.area        what FNSAVE, FXSAVE and FNSTENV last stored             *)
(* and, as the translator knows them in a block,                           *)
(*   s.loc         x87_state: "x87", "mmx" or "unknown"                    *)
(*   s.sse         the rounding mode of SSE is loaded (fsrm_sse)           *)
(* An operand of the kind "st" is a register r of the stack; i.pop counts  *)
(* the pops of an instruction, i.rev tells that its operands are swapped,  *)
(* i.fn is its operation, and i.rm a rounding mode of its own.             *)
(***************************************************************************)
EXTENDS FpHandlers

ST == [k \in 0 .. 7 |-> <<"st0", "st1", "st2", "st3", "st4", "st5", "st6", "st7">>[k + 1]]
StackIndex(o) == CHOOSE k \in 0 .. 7 : ST[k] = o.r

-----------------------------------------------------------------------------
(* Which of the two sets of registers is current.  The code that moves     *)
(* them is skipped at run time if it has been done; the translator takes   *)
(* the configuration set in it for granted either way.                     *)

SkipTo(s) == [s EXCEPT !.bel = <<64, 1, "M1">>]
ToMMX(s) ==
    [s EXCEPT !.v = [r \in DOMAIN @ |-> IF \E k \in 0 .. 7 : MM[k] = r
                                         THEN rv!VMV_SX(s.c, @[r], s.st[CHOOSE k \in 0 .. 7 : MM[k] = r])
                                         ELSE @[r]],
              !.top = 0, !.x87 = "mmx"]
ToX87(s) == [s EXCEPT !.st = [k \in 0 .. 7 |-> rv!El(s.v[MM[k]], 0, 64)], !.x87 = "x87"]

(* A slip: the registers are moved without the flag that says so.          *)
switchToMMXUnmarked(s, e) ==
    [IF s.x87 = "mmx" THEN SkipTo(s) ELSE [ToMMX(setVectorState(s, e, 64, 1, "M1")) EXCEPT !.x87 = "x87"]
       EXCEPT !.loc = "mmx"]

switchToMMX(s, e) ==
    [IF s.x87 = "mmx" THEN SkipTo(s) ELSE ToMMX(setVectorState(s, e, 64, 1, "M1")) EXCEPT !.loc = "mmx"]
switchToX87(s, e) ==
    [IF s.x87 = "x87" THEN SkipTo(s) ELSE ToX87(setVectorState(s, e, 64, 1, "M1")) EXCEPT !.loc = "x87"]

(* What compileSequence emits before an instruction.                       *)
IsX87(i) == i.isa = "x87"
UsesMM(i) == \E k \in 1 .. Len(i.o) : k <= 2 /\ IsMM(i.o[k])
UsesXMM(i) == \E k \in 1 .. Len(i.o) : k <= 2 /\ i.o[k].k = "vec" /\ ~IsMM(i.o[k])
SwitchRegisters(s, i, e) ==
    IF UsesMM(i) /\ s.loc # "mmx" THEN switchToMMX(s, e)
    ELSE IF IsX87(i) /\ s.loc # "x87" THEN switchToX87(s, e)
    ELSE s

(* A slip: the mode of SSE is not loaded back.                             *)
SwitchModeOnce(s, i) ==
    IF IsX87(i) /\ s.sse THEN [s EXCEPT !.frm = s.rx, !.sse = FALSE] ELSE s

SwitchMode(s, i) ==
    CASE IsX87(i) /\ s.sse -> [s EXCEPT !.frm = s.rx, !.sse = FALSE]
      [] ~IsX87(i) /\ UsesXMM(i) /\ ~s.sse -> [s EXCEPT !.frm = s.rs, !.sse = TRUE]
      [] OTHER -> s
Prologue(s, i, e) == SwitchMode(SwitchRegisters(s, i, e), i)

-----------------------------------------------------------------------------
(* A call into the host: writebackState stores the current registers,      *)
(* restoreState loads them.  The call itself may change every other        *)
(* register.  fp is what the ThreadState holds.                            *)

Stored(s) == IF s.x87 = "x87" THEN s.st ELSE [k \in 0 .. 7 |-> rv!El(s.v[MM[k]], 0, 64)]
writebackState(s) == [f \in {"cf", "zf", "sf", "of"} |-> as!Low(s.f[f], 8)]

(* A slip: the mode of SSE is restored whichever was loaded.               *)
RestoredModeSse(s) == s.rs

RestoredMode(s) == IF s.sse THEN s.rs ELSE s.rx
RestoredVec(s, e, fp, r) ==
    IF \E k \in 0 .. 7 : MM[k] = r
    THEN IF s.x87 = "mmx" THEN (e.junk \ as!Bits(64)) \cup fp[CHOOSE k \in 0 .. 7 : MM[k] = r] ELSE e.junk
    ELSE (e.junk \ as!Bits(128)) \cup as!Low(s.v[r], 128)

(* A slip: what was known of the configuration is kept.                    *)
ForgetNothing(s) == s

Forget(s) == [s EXCEPT !.bel = Unknown]
restoreState(s, e, fp) ==
  Forget(
    [s EXCEPT !.v = [r \in DOMAIN @ |-> RestoredVec(s, e, fp, r)],
              !.st = IF s.x87 = "x87" THEN fp ELSE [k \in 0 .. 7 |-> as!Low(e.junk, 64)],
              !.f = [k \in Flags |-> IF k \in {"af", "pf"} THEN @[k] ELSE writebackState(s)[k]],
              !.c = rv!VSETIVLI(IF s.x87 = "x87" THEN 2 ELSE 1, 64, "M1", e.VLEN),
              !.frm = RestoredMode(s)])
Called(s, e) == restoreState(s, e, Stored(s))
(* CPUID and system calls, with what they leave in rax.                    *)
CPUID(s, e, rax) == Called([s EXCEPT !.g["rax"] = rax], e)
SYSCALL(s, i, e, rax) == Called([s EXCEPT !.g["rax"] = rax, !.g["rcx"] = i.next], e)

-----------------------------------------------------------------------------
(* Numbers of 80 bits: 64 of significand below exponent and sign.          *)

Float80(sign, exponent, significand) ==
    significand \cup as!Up(as!Word(exponent, 15), 64) \cup (IF sign THEN {79} ELSE {})
f64_to_80(a) ==
    CASE fl!Exponent(a, 64) = 0 -> Float80(63 \in a, 0, as!Low(a, 52))
      [] fl!Exponent(a, 64) = 2047
           -> Float80(63 \in a, 32767, IF as!Low(a, 52) = {} THEN {} ELSE {63} \cup as!Low(a, 52))
      [] OTHER -> Float80(63 \in a, fl!Exponent(a, 64) + 15360, {63} \cup as!Up(as!Low(a, 52), 11))
Exponent80(x) == as!Num(as!Low(as!Down(x, 64), 15))
Sign64(x) == IF 79 \in x THEN {63} ELSE {}
f80_to_64(x) ==
    Sign64(x) \cup
    CASE Exponent80(x) = 0 -> as!Down(as!Low(x, 64), 11)
      [] Exponent80(x) = 32767 -> (52 .. 62) \cup as!Down(as!Low(x, 64), 11)
      [] OTHER -> as!Up(as!Word((Exponent80(x) + 17408) % 4096, 12), 52) \cup as!Down(as!Low(x, 63), 11)

-----------------------------------------------------------------------------
(* The stack is kept in place: a push or a pop moves every register.       *)

getST(s, o) ==
    CASE o.k = "st" -> s.st[StackIndex(o)]
      [] o.w = 32 -> fl!Widen(readMemory(s, lea(s, o), 32))
      [] o.w = 64 -> readMemory(s, lea(s, o), 64)
(* A number that leaves for memory is narrowed, or widened by a call.      *)
setST(s, e, o, x) ==
    CASE o.k = "st" -> [s EXCEPT !.st[StackIndex(o)] = x]
      [] o.w = 32 -> writeMemory(s, lea(s, o), fl!Narrow(x, s.frm), 32)
      [] o.w = 64 -> writeMemory(s, lea(s, o), x, 64)
      [] o.w = 80 -> Called(writeMemory(s, lea(s, o), f64_to_80(x), 80), e)
pushX87(s, x) ==
    [s EXCEPT !.st = [k \in 0 .. 7 |-> IF k = 0 THEN x ELSE s.st[k - 1]], !.top = (@ + 7) % 8]

(* A slip: the register that was the top is lost instead of last.          *)
popX87Shift(s) ==
    [s EXCEPT !.st = [k \in 0 .. 7 |-> s.st[IF k = 7 THEN 7 ELSE k + 1]], !.top = (@ + 1) % 8]

popX87(s) == [s EXCEPT !.st = [k \in 0 .. 7 |-> s.st[(k + 1) % 8]], !.top = (@ + 1) % 8]
Pops(s, n) == CASE n = 0 -> s [] n = 1 -> popX87(s) [] n = 2 -> popX87(popX87(s))

FLD(s, i, e) ==
    IF i.o[1].w = 80 THEN pushX87(Called(s, e), f80_to_64(readMemory(s, lea(s, i.o[1]), 80)))
    ELSE pushX87(s, getST(s, i.o[1]))
FILD(s, i, x) == pushX87(s, fl!FromInt(x, i.o[1].w, 64, s.frm))
FST(s, i, e) == Pops(setST(s, e, i.o[1], s.st[0]), i.pop)
FXCH(s, k) == [s EXCEPT !.st = [@ EXCEPT ![0] = s.st[k], ![k] = s.st[0]]]

(* With a memory operand the target is ST(0), the second operand.          *)
Target(i) == i.o[IF i.o[1].k = "mem" THEN 2 ELSE 1]
Other(i) == i.o[IF i.o[1].k = "mem" THEN 1 ELSE 2]
OP(s, i, e, lhs, rhs) ==
    Pops(setST(s, e, Target(i), IF i.rev THEN Arith(i.fn, rhs, lhs, 64, s.frm) ELSE Arith(i.fn, lhs, rhs, 64, s.frm)), i.pop)
(* FIADD, FISUB, FISUBR, FIMUL, FIDIV and FIDIVR.                          *)
OPInteger(s, i, x) ==
    [s EXCEPT !.st[0] = IF i.rev THEN Arith(i.fn, x, @, 64, s.frm) ELSE Arith(i.fn, @, x, 64, s.frm)]
FSQRT(s) == [s EXCEPT !.st[0] = fl!FSqrt(@, 64, s.frm)]
FCHS(s) == [s EXCEPT !.st[0] = fl!FNeg(@, 64)]
FABS(s) == [s EXCEPT !.st[0] = fl!FAbs(@, 64)]
FRNDINT(s, e) == [s EXCEPT !.st[0] = RoundTo(e, @, 64, s.frm)]
FIST(s, i) ==
    Pops(writeMemory(s, lea(s, i.o[1]),
                     fl!FCVT(s.st[0], 64, IF i.o[1].w = 64 THEN 64 ELSE 32, IF i.rm = "dyn" THEN s.frm ELSE i.rm), i.o[1].w),
         i.pop)
(* FLD1, FLDL2T, FLDL2E, FLDPI, FLDLG2, FLDLN2 and FLDZ: the bits of the   *)
(* numbers, high halves only.                                              *)
Constants(fn) ==
    CASE fn = "z" -> {}
      [] fn = "1" -> fl!One(64)
      [] OTHER -> Fp("constant", <<fn>>, 64, "rne")
FLDCONST(s, i) == pushX87(s, Constants(i.fn))

-----------------------------------------------------------------------------
(* Comparisons.  FCOM stores the status word with the three bytes after    *)
(* it, the first of which is TOP.                                          *)

C0 == 8
C1 == 9
C2 == 10
C3 == 14
FCOMI(s, i, a, b) == Pops(SetFlags(s, CompareFlags(a, b, 64)), i.pop)
ConditionCodes(a, b) ==
    (IF fl!FLess(a, b, 64) \/ ~fl!Ordered(a, b, 64) THEN {C0} ELSE {}) \cup
    (IF fl!Ordered(a, b, 64) THEN {} ELSE {C2}) \cup
    (IF fl!FEq(a, b, 64) \/ ~fl!Ordered(a, b, 64) THEN {C3} ELSE {})
FCOM(s, i, a, b) == Pops([s EXCEPT !.sw = ConditionCodes(a, b), !.top = 0], i.pop)
FCMOV(s, i, cond) == IF cond = as!Zero THEN s ELSE [s EXCEPT !.st[0] = getST(s, i.o[2])]
FcmovCondition(s, fn) ==
    CASE fn = "b" -> s.f.cf
      [] fn = "e" -> s.f.zf
      [] fn = "be" -> as!OR(s.f.cf, s.f.zf)
      [] fn = "u" -> s.f.pf
      [] fn = "nb" -> as!XOR(s.f.cf, as!One)
      [] fn = "ne" -> as!XOR(s.f.zf, as!One)
      [] fn = "nbe" -> as!XOR(as!OR(s.f.cf, s.f.zf), as!One)
      [] fn = "nu" -> as!XOR(s.f.pf, as!One)

-----------------------------------------------------------------------------
(* Functions computed by the host on the stored registers.                 *)

Result(s, e, k, x) == restoreState(s, e, [s.st EXCEPT ![k] = x])
NotC2(s) == [s EXCEPT !.sw = @ \ {C2}]
FSIN(s, e) == Result(NotC2(s), e, 0, Fp("sin", <<s.st[0]>>, 64, s.frm))
FCOS(s, e) == Result(NotC2(s), e, 0, Fp("cos", <<s.st[0]>>, 64, s.frm))
FPTAN(s, e) == pushX87(Result(NotC2(s), e, 0, Fp("tan", <<s.st[0]>>, 64, s.frm)), fl!One(64))
FPATAN(s, e) == popX87(Result(s, e, 1, Fp("atan2", <<s.st[1], s.st[0]>>, 64, s.frm)))
F2XM1(s, e) == Result(s, e, 0, Fp("2xm1", <<s.st[0]>>, 64, s.frm))
FSCALE(s, e) ==
    Result(s, e, 0, IF fl!IsZero(s.st[0], 64) THEN {} ELSE Fp("scale", <<s.st[0], s.st[1]>>, 64, s.frm))
FYL2X(s, e) == popX87(Result(s, e, 1, Fp("yl2x", <<s.st[1], s.st[0]>>, 64, s.frm)))
FYL2XP1(s, e) == popX87(Result(s, e, 1, Fp("yl2xp1", <<s.st[1], s.st[0]>>, 64, s.frm)))

(* The remainder, with the low bits of the quotient q if it is complete.   *)
Quotient(q) ==
    (IF 0 \in q THEN {C1} ELSE {}) \cup (IF 1 \in q THEN {C3} ELSE {}) \cup (IF 2 \in q THEN {C0} ELSE {})
Partial(a, b) == fl!Exponent(a, 64) - fl!Exponent(b, 64) >= 64
felix86_fprem(s, a, b) ==
    IF Partial(a, b) THEN [s EXCEPT !.sw = @ \cup {C2}]
    ELSE [s EXCEPT !.sw = (@ \ {C0, C1, C2, C3}) \cup Quotient(Fp("quotient", <<a, b>>, 64, "rtz"))]
FPREM(s, e) ==
    Result(felix86_fprem(s, s.st[0], s.st[1]), e, 0,
           Fp(IF Partial(s.st[0], s.st[1]) THEN "partial" ELSE "rem", <<s.st[0], s.st[1]>>, 64, s.frm))
felix86_fxam(s, a) ==
    [s EXCEPT !.sw = (@ \ {C0, C1, C2, C3}) \cup (IF 63 \in a THEN {C1} ELSE {}) \cup
                     (IF fl!IsZero(a, 64) THEN {C3} ELSE IF fl!IsInf(a, 64) THEN {C0, C2} ELSE {C2})]
FXAM(s, e) == Called(felix86_fxam(s, s.st[0]), e)

-----------------------------------------------------------------------------
(* Control and status words, and the images that save them.                *)

ControlX87(cw) == rounding_mode(as!Num(as!Low(as!Down(cw, 10), 2)))
FNSTCW(s, a) == writeMemory(s, a, s.cw, 16)
FLDCW(s, cw) == [s EXCEPT !.cw = cw, !.rx = ControlX87(cw), !.frm = ControlX87(cw), !.sse = FALSE]
FNINIT(s) == [s EXCEPT !.cw = {0, 1, 2, 3, 4, 5, 6, 8, 9}, !.frm = "rne", !.sse = FALSE]
FNSTSW(s, i, e) == setGPR(s, e, i.o[1], s.sw)

Top == {11, 12, 13}
Status(s) == (s.sw \ Top) \cup as!Up(as!Word(s.top, 3), 11)
fstenv(s) == [s EXCEPT !.area = [@ EXCEPT !.cw = s.cw, !.tw = s.tw, !.sw = Status(s)]]
(* Registers of MMX are stored raw, which bit 15 of the control word tells. *)
SavedRegister(s, a) == IF s.x87 = "mmx" THEN a \cup (64 .. 79) ELSE f64_to_80(a)
fsave(s, fp) ==
    [s EXCEPT !.area = [@ EXCEPT !.cw = s.cw \cup (IF s.x87 = "mmx" THEN {15} ELSE {}), !.tw = s.tw,
                                 !.sw = Status(s), !.st = [k \in 0 .. 7 |-> SavedRegister(s, fp[k])]]]
fxsave(s, fp) ==
    [fsave(s, fp) EXCEPT !.area = [@ EXCEPT !.xmm = [r \in DOMAIN @ |-> as!Low(s.v[r], 128)], !.mxcsr = s.mxcsr]]
fldenv(s, a) ==
    [s EXCEPT !.cw = a.cw, !.tw = a.tw, !.sw = a.sw, !.top = as!Num(as!Down(a.sw \cap Top, 11)), !.rx = ControlX87(a.cw)]

(* A slip: registers of MMX are converted as well.                         *)
LoadedRegisterConverted(cw, x) == f80_to_64(x)

LoadedRegister(cw, x) == IF 15 \in cw THEN as!Low(x, 64) ELSE f80_to_64(x)
frstor(s, e, a) == restoreState(fldenv(s, a), e, [k \in 0 .. 7 |-> LoadedRegister(a.cw, a.st[k])])
FxControl(s, a) ==
    [s EXCEPT !.mxcsr = a.mxcsr, !.rs = rounding_mode(Control(a.mxcsr)),
              !.v = [r \in DOMAIN @ |-> IF r \in DOMAIN a.xmm THEN a.xmm[r] ELSE @[r]]]
fxrstor(s, e, a) == frstor(FxControl(s, a), e, a)
FNSTENV(s, e) == Called(fstenv(s), e)
FLDENV(s, e) == Called(fldenv(s, s.area), e)
FNSAVE(s, e) == Called(fsave(s, Stored(s)), e)
FRSTOR(s, e) == frstor(s, e, s.area)
FXSAVE(s, e) == Called(fxsave(s, Stored(s)), e)
FXRSTOR(s, e) == fxrstor(s, e, s.area)
EMMS(s, e) == switchToX87(s, e)

=============================================================================
