-------------------------------- MODULE Simd --------------------------------
(***************************************************************************)
(* From an instruction of MMX, SSE or x87 to its handler.  Operands are    *)
(* fetched first (a memory operand of a vector instruction configures the  *)
(* vector unit for its load), then the unit is configured, and the handler *)
(* gets the contents of the registers under that configuration.            *)
(***************************************************************************)
EXTENDS Pcmp

Imm8(i) == as!Low(i.o[Len(i.o)].v, 8)
Byte(i) == as!Num(Imm8(i))

(* Instructions that fetch their second operand with getGPR, or not at all. *)
Scalars == {"movq", "movd", "pinsr", "cvtsi2s", "ldmxcsr", "stmxcsr", "pcmpxstrx"}
Fetched(s, i, e) == IF i.isa = "x87" \/ i.op \in Scalars \/ Len(i.o) < 2 THEN s ELSE Loaded(s, e, i.o[2])

Quadwords == {"pxor", "pand", "por", "pandn", "punpcklqdq", "punpckhqdq", "unpcklpd", "unpckhpd", "movhps", "movhlps",
              "movlhps", "shufpd", "pmuludq", "pmuldq", "movshdup", "movsldup", "ptest", "movmskpd", "blendpd", "haddpd",
              "hsubpd", "movddup", "psrldq", "palignr", "pshufhw"}
Doublewords == {"unpcklps", "unpckhps", "shufps", "blendps", "dpps", "haddps", "hsubps", "movmskps", "extractps",
                "insertps", "cvtps2dq", "cvttps2dq", "cvtdq2ps", "rcpps", "rsqrtps"}
Words_ == {"pblendw", "pmaddwd", "phminposuw"}
ByteVectors == {"pmovmskb", "pslldq"}
(* As wide as their elements.                                              *)
Elementwise == {"padd", "psub", "padds", "paddsu", "psubs", "psubsu", "pminu", "pmaxu", "pmins", "pmaxs", "pmulh",
                "pmulhu", "pmull", "pavg", "pcmpeq", "pcmpgt", "psign", "cmpp", "pmovzx", "pmovsx", "packed", "minp",
                "maxp", "addsub", "pblendv", "pextr", "punpckh", "packus"}
Single_ == {"scalar", "round", "comis", "cvtsi2s", "cvtts2si", "cvts2si", "rcpss", "rsqrtss", "cmpsd", "cmpss"}
Halves == {"cvtpd2ps", "cvtps2pd", "cvttpd2dq", "cvtpd2dq", "cvtdq2pd"}

Configured(s, i, e) ==
    CASE i.op \in Quadwords -> Full(s, e, 64)
      [] i.op \in Doublewords -> Full(s, e, 32)
      [] i.op \in Words_ -> Full(s, e, 16)
      [] i.op \in ByteVectors -> Full(s, e, 8)
      [] i.op \in Elementwise -> Full(s, e, i.w)
      [] i.op \in Single_ -> First(s, e, i.w)
      [] i.op \in Halves -> Half(s, e, 32)
      [] i.op = "punpckl" -> Half(s, e, i.w)
      [] i.op \in {"pshufw", "pshufd"} -> First(s, e, 64)
      [] i.op = "pshufb" -> IF IsMM(i.o[1]) THEN setVectorState(s, e, 8, 8, "M1") ELSE Full(s, e, 8)
      [] i.op = "pshuflw" -> Full(Full(s, e, 16), e, 64)
      [] i.op = "packss" -> Narrower(s, i, e)
      [] i.op \in {"psll", "psrl", "psra"} -> ShiftState(s, e, i)
      [] i.op = "pinsr" -> InsertState(s, e, i.w)
      [] i.op = "psadbw" -> PsadbwWords(PsadbwBytes(s, i, e), e)
      [] i.op \in {"cvtpi2pd", "cvtpd2pi"} -> Pair(s, e, "MF2")
      [] i.op \in {"cvtpi2ps", "cvtps2pi"} -> Pair(s, e, "M1")
      [] i.op \in {"cvtss2sd", "cvtsd2ss"} -> CopyState(s, i, e)
      [] OTHER -> s

-----------------------------------------------------------------------------
(* The handlers, with the registers of the first two operands.             *)

HandleMove(s, i, e, dst, src) ==
    CASE i.op = "movq" -> MOVQ(s, i, e, src)
      [] i.op = "movd" -> MOVD(s, i, e, src)
      [] i.op = "mov" -> VECTOR_MOV(s, i, e, src)
      [] i.op = "movntq" -> MOVNTQ(s, i, e, src)
      [] i.op = "lddqu" -> LDDQU(s, i, e, src)
      [] i.op = "movs" -> MOVSS(s, i, e, i.w, dst, src)
      [] i.op = "movhps" -> MOVHPS(s, i, e, dst, src)
      [] i.op = "movlps" -> MOVLPS(s, i, e, dst, src)
      [] i.op = "movhlps" -> MOVHLPS(s, i, e, dst, src)
      [] i.op = "movlhps" -> MOVLHPS(s, i, dst, src)
      [] i.op = "movq2dq" -> MOVQ2DQ(s, i, e, dst, src)
      [] i.op = "movdq2q" -> MOVDQ2Q(s, i, e, dst, src)
      [] i.op = "movddup" -> MOVDDUP(s, i, e, src)
      [] i.op = "movshdup" -> MOVSHDUP(s, i, dst, src)
      [] i.op = "movsldup" -> MOVSLDUP(s, i, dst, src)

HandleArithmetic(s, i, e, dst, src) ==
    CASE i.op = "pxor" -> Lanes(s, i, dst, src, PXOR)
      [] i.op \in {"pand", "por", "pandn"} -> Lanes(s, i, dst, src, LAMBDA a, b : VecLogic(i.op, a, b))
      [] i.op \in {"padd", "psub", "padds", "paddsu", "psubs", "psubsu"}
           -> Lanes(s, i, dst, src, LAMBDA a, b : AddSub(i.op, a, b, i.w))
      [] i.op \in {"pminu", "pmaxu", "pmins", "pmaxs"} -> Lanes(s, i, dst, src, LAMBDA a, b : MinMax(i.op, a, b, i.w))
      [] i.op \in {"pmulh", "pmulhu", "pmull"} -> Lanes(s, i, dst, src, LAMBDA a, b : Product(i.op, a, b, i.w))
      [] i.op = "pavg" -> Lanes(s, i, dst, src, PAVG)
      [] i.op = "pmuludq" -> PMULDQ(s, i, e, dst, src, FALSE)
      [] i.op = "pmuldq" -> PMULDQ(s, i, e, dst, src, TRUE)
      [] i.op = "pmaddwd" -> PMADDWD(s, i, e, dst, src)
      [] i.op = "pcmpeq" -> PCMPEQ(s, i, dst, src)
      [] i.op = "pcmpgt" -> PCMPGT(s, i, dst, src)
      [] i.op = "psign" -> PSIGN(s, i, e, dst, src)
      [] i.op = "psll" -> PSLL(s, i, dst, ShiftCount(i.o[2], src))
      [] i.op = "psrl" -> PSRL(s, i, dst, ShiftCount(i.o[2], src))
      [] i.op = "psra" -> PSRA(s, i, dst, ShiftCount(i.o[2], src))
      [] i.op = "psadbw"
           -> PSADBW(s, i, e, dst, Distances(s.c, e, Differences(PsadbwBytes(s, i, e).c, e, dst, src)))
      [] i.op = "phminposuw" -> PHMINPOSUW(s, i, e, src, rv!El(Least(s.c, src), 0, 16))

HandleShuffle(s, i, e, dst, src) ==
    CASE i.op = "punpckl" -> PUNPCKL(s, i, e, dst, src)
      [] i.op = "punpckh" -> PUNPCKH(s, i, e, dst, src)
      [] i.op = "punpcklqdq" -> PUNPCKLQDQ(s, i, dst, src)
      [] i.op = "punpckhqdq" -> PUNPCKHQDQ(s, i, e, dst, src)
      [] i.op = "unpcklps" -> UNPCKPS(s, i, e, 0, dst, src)
      [] i.op = "unpckhps" -> UNPCKPS(s, i, e, 2, dst, src)
      [] i.op = "unpcklpd" -> UNPCKLPD(s, i, e, dst, src)
      [] i.op = "unpckhpd" -> UNPCKHPD(s, i, e, dst, src)
      [] i.op = "packus" -> PACKUS(s, i, e, dst, src)
      [] i.op = "packss" -> PACKSS(s, i, e, dst, src)
      [] i.op = "pmovzx" -> PMOVZX(s, i, e, dst, src, i.part)
      [] i.op = "pmovsx" -> PMOVSX(s, i, e, dst, src, i.part)
      [] i.op = "shufpd" -> SHUFPD(s, i, e, Imm8(i), dst, src)
      [] i.op = "pshufw" -> PSHUFW(s, i, e, Imm8(i), src)
      [] i.op = "pshufd" -> PSHUFD(s, i, e, Imm8(i), src)
      [] i.op = "shufps" -> SHUFPS(s, i, e, Imm8(i), dst, src)
      [] i.op = "pshufb" -> PSHUFB(s, i, e, dst, src)
      [] i.op = "pshuflw" -> PSHUFLW(s, i, e, Imm8(i), src)
      [] i.op = "pshufhw" -> PSHUFHW(s, i, e, Imm8(i), src)
      [] i.op = "pblendv" -> PBLENDV(s, i, dst, src, s.v["xmm0"])
      [] i.op = "pblendw" -> PBLENDW(s, i, dst, src, Imm8(i))
      [] i.op = "blendps" -> BLENDPS(s, i, dst, src, Imm8(i))
      [] i.op = "blendpd" -> BLENDPD(s, i, dst, src, Imm8(i))
      [] i.op = "pslldq" -> PSLLDQ(s, i, e, Byte(i), dst)
      [] i.op = "psrldq" -> PSRLDQ(s, i, e, Byte(i), dst)
      [] i.op = "palignr" -> PALIGNR(s, i, e, Byte(i), dst, src)

HandleElement(s, i, e, dst, src) ==
    CASE i.op = "pinsr" -> PINSR(s, i, e, InsertIndex(i, i.o[1]), dst, getGPR(s, i.o[2]))
      [] i.op = "pextr" -> PEXTR(s, i, e, InsertIndex(i, i.o[2]), src)
      [] i.op = "extractps" -> EXTRACTPS(s, i, e, as!Num(as!Low(Imm8(i), 2)), src)
      [] i.op = "insertps"
           -> INSERTPS(s, i, Imm8(i), InsertTarget(Imm8(i)), dst,
                       Slid(s.c, e, src, InsertSource(i, Imm8(i)) - InsertTarget(Imm8(i))))
      [] i.op = "pmovmskb" -> PMOVMSKB(s, i, e, src)
      [] i.op = "movmskps" -> MOVMSKPS(s, i, e, src)
      [] i.op = "movmskpd" -> MOVMSKPD(s, i, e, src)
      [] i.op = "ptest" -> PTEST(s, i, e, dst, src)
      [] i.op = "pcmpxstrx" -> PCMPXSTRX(s, i, e)
      [] i.op = "stmxcsr" -> STMXCSR(s, i, e)
      [] i.op = "ldmxcsr" -> LDMXCSR(s, getGPR(s, i.o[1]))

HandleNumber(s, i, e, dst, src) ==
    CASE i.op = "packed" -> Packed(s, i, dst, src)
      [] i.op = "scalar" -> SCALAR(s, i, dst, src)
      [] i.op \in {"rcpps", "rcpss"} -> RCP(s, i, dst, src)
      [] i.op \in {"rsqrtps", "rsqrtss"} -> RSQRT(s, i, dst, src)
      [] i.op = "minp" -> MINP(s, i, e, dst, src)
      [] i.op = "maxp" -> MAXP(s, i, e, dst, src)
      [] i.op = "addsub" -> ADDSUB(s, i, e, dst, src, {1, 3})
      [] i.op = "haddpd" -> HADDPD(s, i, e, dst, src)
      [] i.op = "hsubpd" -> HSUBPD(s, i, e, dst, src)
      [] i.op = "haddps" -> HADDPS(s, i, e, dst, src)
      [] i.op = "hsubps" -> HSUBPS(s, i, e, dst, src)
      [] i.op = "dpps" -> DPPS(s, i, e, Imm8(i), dst, src)
      [] i.op = "cmpp" -> CMPP(s, i, e, Byte(i), dst, src)
      [] i.op = "cmpsd" -> CMPSD_sse(s, i, Byte(i), dst, src)
      [] i.op = "cmpss" -> CMPSS(s, i, Byte(i), dst, src)
      [] i.op = "comis" -> COMIS(s, e, rv!El(dst, 0, i.w), rv!El(src, 0, i.w), i.w)
      [] i.op = "round" -> ROUND(s, i, e, Imm8(i), dst, src)

HandleConversion(s, i, e, dst, src) ==
    CASE i.op = "cvtsi2s" -> CVTSI2S(s, i, getGPR(s, i.o[2]), dst)
      [] i.op = "cvtts2si" -> CVTTS2SI(s, i, e, src)
      [] i.op = "cvts2si" -> CVTS2SI(s, i, e, src)
      [] i.op = "cvtpd2ps" -> CVTPD2PS(s, i, e, src)
      [] i.op = "cvtps2pd" -> CVTPS2PD(s, i, e, src)
      [] i.op = "cvtps2dq" -> CVTPS2DQ(s, i, dst, src, s.frm)
      [] i.op = "cvttps2dq" -> CVTPS2DQ(s, i, dst, src, "rtz")
      [] i.op = "cvttpd2dq" -> CVTTPD2DQ(s, i, e, dst, src)
      [] i.op = "cvtpd2dq" -> CVTPD2DQ(s, i, e, src)
      [] i.op = "cvtdq2pd" -> CVTDQ2PD(s, i, e, src)
      [] i.op = "cvtdq2ps" -> CVTDQ2PS(s, i, e, src)
      [] i.op = "cvtpi2pd" -> CVTPI2PD(s, i, dst, src)
      [] i.op = "cvtpd2pi" -> CVTPD2PI(s, i, dst, src, IF i.rm = "dyn" THEN s.frm ELSE i.rm)
      [] i.op = "cvtpi2ps" -> CVTPI2PS(s, i, dst, src)
      [] i.op = "cvtps2pi" -> CVTPS2PI(s, i, dst, src, IF i.rm = "dyn" THEN s.frm ELSE i.rm)
      [] i.op = "cvtss2sd"
           -> CVTSS2SD(s, i, e, IF i.o[1] = i.o[2] THEN Copied(s, e, dst) ELSE dst, src)
      [] i.op = "cvtsd2ss"
           -> CVTSD2SS(s, i, e, IF i.o[1] = i.o[2] THEN Copied(s, e, dst) ELSE dst, src)

HandleX87(s, i, e) ==
    CASE i.op = "fld" -> FLD(s, i, e)
      [] i.op = "fild" -> FILD(s, i, getGPR(s, i.o[1]))
      [] i.op = "fst" -> FST(s, i, e)
      [] i.op = "fist" -> FIST(s, i)
      [] i.op = "fxch" -> FXCH(s, StackIndex(i.o[2]))
      [] i.op = "farith" -> OP(s, i, e, getST(s, Target(i)), getST(s, Other(i)))
      [] i.op = "fiarith" -> OPInteger(s, i, fl!FromInt(getGPR(s, i.o[1]), i.o[1].w, 64, s.frm))
      [] i.op = "fsqrt" -> FSQRT(s)
      [] i.op = "fchs" -> FCHS(s)
      [] i.op = "fabs" -> FABS(s)
      [] i.op = "frndint" -> FRNDINT(s, e)
      [] i.op = "fldconst" -> FLDCONST(s, i)
      [] i.op = "fcomi" -> FCOMI(s, i, s.st[0], getST(s, i.o[2]))
      [] i.op = "fcom" -> FCOM(s, i, s.st[0], getST(s, i.o[IF i.o[1] = [i.o[1] EXCEPT !.r = "st0"] THEN 2 ELSE 1]))
      [] i.op = "fcmov" -> FCMOV(s, i, FcmovCondition(s, i.fn))
      [] i.op = "fnstcw" -> FNSTCW(s, lea(s, i.o[1]))
      [] i.op = "fldcw" -> FLDCW(s, getGPR(s, i.o[1]))
      [] i.op = "fninit" -> FNINIT(s)
      [] i.op = "fnstsw" -> FNSTSW(s, i, e)
      [] i.op = "emms" -> EMMS(s, e)

HandleHost(s, i, e) ==
    CASE i.op = "fsin" -> FSIN(s, e)
      [] i.op = "fcos" -> FCOS(s, e)
      [] i.op = "fptan" -> FPTAN(s, e)
      [] i.op = "fpatan" -> FPATAN(s, e)
      [] i.op = "f2xm1" -> F2XM1(s, e)
      [] i.op = "fscale" -> FSCALE(s, e)
      [] i.op = "fyl2x" -> FYL2X(s, e)
      [] i.op = "fyl2xp1" -> FYL2XP1(s, e)
      [] i.op = "fprem" -> FPREM(s, e)
      [] i.op = "fxam" -> FXAM(s, e)
      [] i.op = "fnstenv" -> FNSTENV(s, e)
      [] i.op = "fldenv" -> FLDENV(s, e)
      [] i.op = "fnsave" -> FNSAVE(s, e)
      [] i.op = "frstor" -> FRSTOR(s, e)
      [] i.op = "fxsave" -> FXSAVE(s, e)
      [] i.op = "fxrstor" -> FXRSTOR(s, e)
      [] i.op = "cpuid" -> CPUID(s, e, as!One)
      [] i.op = "syscall" -> SYSCALL(s, i, e, as!Zero)

Moves_ == {"movq", "movd", "mov", "movntq", "lddqu", "movs", "movhps", "movlps", "movhlps", "movlhps", "movq2dq",
           "movdq2q", "movddup", "movshdup", "movsldup"}
Shuffles == {"punpckl", "punpckh", "punpcklqdq", "punpckhqdq", "unpcklps", "unpckhps", "unpcklpd", "unpckhpd", "packus",
             "packss", "pmovzx", "pmovsx", "shufpd", "pshufw", "pshufd", "shufps", "pshufb", "pshuflw", "pshufhw",
             "pblendv", "pblendw", "blendps", "blendpd", "pslldq", "psrldq", "palignr"}
Elements_ == {"pinsr", "pextr", "extractps", "insertps", "pmovmskb", "movmskps", "movmskpd", "ptest", "pcmpxstrx",
              "stmxcsr", "ldmxcsr"}
Numbers_ == {"packed", "scalar", "rcpps", "rcpss", "rsqrtps", "rsqrtss", "minp", "maxp", "addsub", "haddpd", "hsubpd",
             "haddps", "hsubps", "dpps", "cmpp", "cmpsd", "cmpss", "comis", "round"}
Conversions == {"cvtsi2s", "cvtts2si", "cvts2si", "cvtpd2ps", "cvtps2pd", "cvtps2dq", "cvttps2dq", "cvttpd2dq",
                "cvtpd2dq", "cvtdq2pd", "cvtdq2ps", "cvtpi2pd", "cvtpd2pi", "cvtpi2ps", "cvtps2pi", "cvtss2sd",
                "cvtsd2ss"}
HostCalls == {"fsin", "fcos", "fptan", "fpatan", "f2xm1", "fscale", "fyl2x", "fyl2xp1", "fprem", "fxam", "fnstenv",
              "fldenv", "fnsave", "frstor", "fxsave", "fxrstor", "cpuid", "syscall"}

Vec(s, e, i, k) == IF k <= Len(i.o) THEN getVec(s, e, i.o[k]) ELSE {}
HandleConfigured(s, i, e, dst, src) ==
    CASE i.op \in Moves_ -> HandleMove(s, i, e, dst, src)
      [] i.op \in Shuffles -> HandleShuffle(s, i, e, dst, src)
      [] i.op \in Elements_ -> HandleElement(s, i, e, dst, src)
      [] i.op \in Numbers_ -> HandleNumber(s, i, e, dst, src)
      [] i.op \in Conversions -> HandleConversion(s, i, e, dst, src)
      [] i.op \in HostCalls -> HandleHost(s, i, e)
      [] IsX87(i) \/ i.op = "emms" -> HandleX87(s, i, e)
      [] OTHER -> HandleArithmetic(s, i, e, dst, src)
HandleFetched(s, i, e) == HandleConfigured(Configured(s, i, e), i, e, Vec(s, e, i, 1), Vec(s, e, i, 2))
HandleVec(s, i, e) == HandleFetched(Fetched(Prologue(s, i, e), i, e), i, e)

=============================================================================
