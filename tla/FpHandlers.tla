----------------------------- MODULE FpHandlers -----------------------------
(***************************************************************************)
(* The handlers of SSE instructions on floating-point numbers, and of      *)
(* conversions.  s.frm is the rounding mode in force; s.mxcsr and s.rs     *)
(* (rmode_sse) are the guest's register and the host's mode for it, and    *)
(* s.sse is what the translator knows of s.frm (see X87Handlers).          *)
(***************************************************************************)
EXTENDS VecHandlers

(* rounding_mode: RISC-V names for the x86 encodings 0 to 3.               *)
rounding_mode(k) == <<"rne", "rdn", "rup", "rtz">>[k + 1]

-----------------------------------------------------------------------------
(* Packed and scalar arithmetic: s is configured for all elements or one.  *)

Arith(op, a, b, w, rm) ==
    CASE op = "add" -> fl!FAdd(a, b, w, rm)
      [] op = "sub" -> fl!FSub(a, b, w, rm)
      [] op = "mul" -> fl!FMul(a, b, w, rm)
      [] op = "div" -> fl!FDiv(a, b, w, rm)
      [] op = "sqrt" -> fl!FSqrt(b, w, rm)
Packed(s, i, dst, src) == Lanes(s, i, dst, src, LAMBDA a, b : Arith(i.fn, a, b, i.w, s.frm))
SCALAR(s, i, dst, src) ==
    Lanes(s, i, dst, src,
          LAMBDA a, b : CASE i.fn = "min" -> fl!FMin(a, b, i.w)
                          [] i.fn = "max" -> fl!FMax(a, b, i.w)
                          [] OTHER -> Arith(i.fn, a, b, i.w, s.frm))
RCP(s, i, dst, src) == Lanes(s, i, dst, src, LAMBDA a, b : fl!FDiv(fl!One(32), b, 32, s.frm))
RSQRT(s, i, dst, src) ==
    Lanes(s, i, dst, src, LAMBDA a, b : fl!FDiv(fl!One(32), fl!FSqrt(b, 32, s.frm), 32, s.frm))

(* x86 takes the source if a number is NaN or both are zero.               *)
TakesSource(a, b, w) == ~fl!Ordered(a, b, w) \/ (fl!FEq(a, b, w) /\ fl!IsZero(a, w))
MINP(s, i, e, dst, src) ==
    IF e.minmax /\ ~e.paranoid THEN Lanes(s, i, dst, src, LAMBDA a, b : fl!FMin(a, b, i.w))
    ELSE setVec(s, e, i.o[1],
                rv!Map2(s.c, e.junk, dst, src,
                        LAMBDA a, b : IF TakesSource(a, b, i.w) THEN b ELSE fl!FMin(a, b, i.w)))
MAXP(s, i, e, dst, src) ==
    IF e.minmax /\ ~e.paranoid THEN Lanes(s, i, dst, src, LAMBDA a, b : fl!FMax(a, b, i.w))
    ELSE setVec(s, e, i.o[1],
                rv!Map2(s.c, e.junk, dst, src,
                        LAMBDA a, b : IF TakesSource(a, b, i.w) THEN b ELSE fl!FMax(a, b, i.w)))

(* Odd elements are added, even ones subtracted.                           *)
ADDSUB(s, i, e, dst, src, odd) ==
    setVec(s, e, i.o[1],
           rv!Masked2(s.c,
                      rv!Masked2(s.c, e.junk, odd, dst, src, LAMBDA a, b : fl!FAdd(a, b, i.w, s.frm)),
                      rv!Elements(s.c) \ odd, dst, src, LAMBDA a, b : fl!FSub(a, b, i.w, s.frm)))

(* Sums of both elements, seeded with +0, of the source and of dst.        *)
VFREDUSUM(c, e, x, w, rm) ==
    rv!ReduceUp(c, rv!Splat(c, e.junk, {}), x, {}, LAMBDA t, a : fl!FAdd(t, a, w, rm))
HADDPD(s, i, e, dst, src) ==
    setVec(s, e, i.o[1],
           rv!VSLIDEUP(s.c, VFREDUSUM(s.c, e, dst, 64, s.frm), VFREDUSUM(s.c, e, src, 64, s.frm), 1))
NegateUpper(c, e, x) == rv!Masked(c, rv!VMV(c, e.junk, x), {1}, LAMBDA k : fl!FNeg(rv!El(x, k, 64), 64))
HSUBPD(s, i, e, dst, src) == HADDPD(s, i, e, NegateUpper(s.c, e, dst), NegateUpper(s.c, e, src))
EvenLanes(c, e, x) == rv!VCOMPRESS(c, e.junk, x, {0, 2})
Joined(s, i, e, low, high) == setVec(s, e, i.o[1], rv!VSLIDEUP(s.c, EvenLanes(s.c, e, low), EvenLanes(s.c, e, high), 2))
PlusNext(s, e, x) == rv!Map2(s.c, e.junk, x, rv!VSLIDEDOWN(s.c, e.junk, x, 1), LAMBDA a, b : fl!FAdd(a, b, 32, s.frm))
MinusNext(s, e, x) == rv!Map2(s.c, e.junk, x, rv!VSLIDEDOWN(s.c, e.junk, x, 1), LAMBDA a, b : fl!FSub(a, b, 32, s.frm))
HADDPS(s, i, e, dst, src) == Joined(s, i, e, PlusNext(s, e, dst), PlusNext(s, e, src))
HSUBPS(s, i, e, dst, src) == Joined(s, i, e, MinusNext(s, e, dst), MinusNext(s, e, src))
DotProduct(s, e, imm, dst, src) ==
    VFREDUSUM(s.c, e, rv!Masked2(s.c, rv!Splat(s.c, e.junk, {}), as!Down(as!Low(imm, 8), 4), dst, src,
                                 LAMBDA a, b : fl!FMul(a, b, 32, s.frm)), 32, s.frm)
DPPS(s, i, e, imm, dst, src) ==
    Into(s, i.o[1], rv!Masked(s.c, rv!Splat(s.c, dst, rv!El(DotProduct(s, e, imm, dst, src), 0, 32)),
                              0 .. 3 \ imm, LAMBDA k : {}))

-----------------------------------------------------------------------------
(* Comparisons: the eight predicates, as masks and as flags.               *)

Predicate(k, a, b, w) ==
    CASE k = 0 -> fl!FEq(a, b, w)
      [] k = 1 -> fl!FLess(a, b, w)
      [] k = 2 -> fl!FLe(a, b, w)
      [] k = 3 -> fl!IsNaN(a, w) \/ fl!IsNaN(b, w)
      [] k = 4 -> fl!IsNaN(a, w) \/ fl!IsNaN(b, w) \/ ~fl!FEq(a, b, w)
      [] k = 5 -> fl!IsNaN(a, w) \/ fl!IsNaN(b, w) \/ fl!FLe(b, a, w)
      [] k = 6 -> fl!IsNaN(a, w) \/ fl!IsNaN(b, w) \/ fl!FLess(b, a, w)
      [] k = 7 -> fl!FEq(a, a, w) /\ fl!FEq(b, b, w)
CMPP(s, i, e, k, dst, src) ==
    setVec(s, e, i.o[1],
           rv!Map2(s.c, e.junk, dst, src, LAMBDA a, b : IF Predicate(k, a, b, i.w) THEN All(i.w) ELSE {}))

(* The scalar forms negate the opposite test where CMPP swaps operands.    *)
ScalarPredicate(k, a, b, w) ==
    CASE k \in 0 .. 2 -> Predicate(k, a, b, w)
      [] k \in 3 .. 6 -> ~fl!Ordered(a, b, w) \/ (k # 3 /\ ~Predicate(k - 4, a, b, w))
      [] k = 7 -> fl!Ordered(a, b, w)
CMPSD_sse(s, i, k, dst, src) ==
    Into(s, i.o[1], rv!VMV_SX(s.c, dst,
         IF ScalarPredicate(k, rv!El(dst, 0, 64), rv!El(src, 0, 64), 64) THEN All(64) ELSE {}))
CMPSS(s, i, k, dst, src) ==
    Into(s, i.o[1], rv!VMV_SX(s.c, dst,
         IF Predicate(k, rv!El(dst, 0, 32), rv!El(src, 0, 32), 32) THEN All(64) ELSE {}))

CompareFlags(a, b, w) ==
    [zf |-> as!Bool(fl!FEq(a, b, w) \/ ~fl!Ordered(a, b, w)),
     cf |-> as!Bool(fl!FLess(a, b, w) \/ ~fl!Ordered(a, b, w)),
     pf |-> as!Bool(~fl!Ordered(a, b, w))]
ZeroFlags == [af |-> as!Zero, of |-> as!Zero, sf |-> as!Zero]
SetFlags(s, new) == [s EXCEPT !.f = [k \in Flags |-> IF k \in DOMAIN new THEN new[k] ELSE @[k]]]
(* zf, cf and pf are written whether or not anyone reads them.             *)
COMIS(s, e, a, b, w) == SetFlags(Emit(s, e, ZeroFlags), CompareFlags(a, b, w))

-----------------------------------------------------------------------------
(* Rounding to an integer, with a mode of its own or the current one.      *)

ThroughInteger(a, w, rm) == fl!FromInt(fl!FCVT(a, w, w, rm), w, w, rm)
RoundTo(e, a, w, rm) == IF e.Zfa THEN fl!FRound(a, w, rm) ELSE ThroughInteger(a, w, rm)
ROUND(s, i, e, imm, dst, src) ==
    IF 2 \in imm THEN Into(s, i.o[1], rv!Map1(s.c, dst, src, LAMBDA a : ThroughInteger(a, i.w, s.frm)))
    ELSE Into(s, i.o[1], rv!VMV_SX(s.c, dst, RoundTo(e, rv!El(src, 0, i.w), i.w, rounding_mode(as!Num(as!Low(imm, 2))))))

(* To and from general registers; the truncating forms use RTZ.            *)
CVTSI2S(s, i, x, dst) == Into(s, i.o[1], rv!VMV_SX(s.c, dst, fl!FromInt(x, i.o[2].w, i.w, s.frm)))
CVTTS2SI(s, i, e, src) ==
    setGPR(s, e, i.o[1], as!Sext(fl!FCVT(rv!El(src, 0, i.w), i.w, i.o[1].w, "rtz"), i.o[1].w))
CVTS2SI(s, i, e, src) ==
    setGPR(s, e, i.o[1], as!Sext(fl!FCVT(rv!El(src, 0, i.w), i.w, i.o[1].w, s.frm), i.o[1].w))

(* Two numbers narrowed to the low half; the high half is cleared.         *)
ClearHigh(c, x) == rv!Masked(c, x, {2, 3}, LAMBDA k : {})
CVTPD2PS(s, i, e, src) ==
    setVec(Full(s, e, 32), e, i.o[1],
           ClearHigh(Full(s, e, 32).c, rv!Narrowing(s.c, e.junk, src, LAMBDA a : fl!Narrow(a, s.frm))))
CVTPS2PD(s, i, e, src) ==
    setVec(s, e, i.o[1], rv!Widening2(s.c, e.junk, src, src, LAMBDA a, b : fl!Widen(a)))
CVTPS2DQ(s, i, dst, src, rm) == Into(s, i.o[1], rv!Map1(s.c, dst, src, LAMBDA a : fl!FCVT(a, 32, 32, rm)))
CVTTPD2DQ(s, i, e, dst, src) ==
    Into(Full(s, e, 32), i.o[1],
         ClearHigh(Full(s, e, 32).c, rv!Narrowing(s.c, dst, src, LAMBDA a : fl!FCVT(a, 64, 32, "rtz"))))
CVTPD2DQ(s, i, e, src) ==
    setVec(Full(s, e, 32), e, i.o[1],
           ClearHigh(Full(s, e, 32).c, rv!Narrowing(s.c, e.junk, src, LAMBDA a : fl!FCVT(a, 64, 32, s.frm))))
CVTDQ2PD(s, i, e, src) ==
    setVec(s, e, i.o[1], rv!Widening2(s.c, e.junk, src, src, LAMBDA a, b : fl!FromInt(a, 32, 64, s.frm)))
CVTDQ2PS(s, i, e, src) ==
    setVec(s, e, i.o[1], rv!Map1(s.c, e.junk, src, LAMBDA a : fl!FromInt(a, 32, 32, s.frm)))

(* Between the low half of an SSE register and an MMX register.            *)
Pair(s, e, grouping) == setVectorState(s, e, 32, 2, grouping)
CVTPI2PD(s, i, dst, src) ==
    Into(s, i.o[1], rv!Widening2(s.c, dst, src, src, LAMBDA a, b : fl!FromInt(a, 32, 64, s.frm)))
CVTPD2PI(s, i, dst, src, rm) ==
    Into(s, i.o[1], rv!Narrowing(s.c, dst, src, LAMBDA a : fl!FCVT(a, 64, 32, rm)))
CVTPI2PS(s, i, dst, src) == Into(s, i.o[1], rv!Map1(s.c, dst, src, LAMBDA a : fl!FromInt(a, 32, 32, s.frm)))
CVTPS2PI(s, i, dst, src, rm) == Into(s, i.o[1], rv!Map1(s.c, dst, src, LAMBDA a : fl!FCVT(a, 32, 32, rm)))

(* Scalars between the widths.  The same register as source and target is  *)
(* copied first, because the results may not overlap.                      *)
CopyState(s, i, e) == setVectorState(IF i.o[1] = i.o[2] THEN Full(s, e, 8) ELSE s, e, 32, 1, "MF2")
Copied(s, e, x) == rv!VMV(Full(s, e, 8).c, e.junk, x)
CVTSS2SD(s, i, e, vd, src) ==
    IF i.o[1] = i.o[2] THEN setVec(s, e, i.o[1], rv!Widening2(s.c, vd, src, src, LAMBDA a, b : fl!Widen(a)))
    ELSE Into(s, i.o[1], rv!Widening2(s.c, vd, src, src, LAMBDA a, b : fl!Widen(a)))
CVTSD2SS(s, i, e, vd, src) ==
    IF i.o[1] = i.o[2] THEN setVec(s, e, i.o[1], rv!Narrowing(s.c, vd, src, LAMBDA a : fl!Narrow(a, s.frm)))
    ELSE Into(s, i.o[1], rv!Narrowing(s.c, vd, src, LAMBDA a : fl!Narrow(a, s.frm)))

-----------------------------------------------------------------------------
(* The control register of SSE: bits 13 and 14 are the rounding mode.      *)

STMXCSR(s, i, e) == setGPR(s, e, i.o[1], s.mxcsr)
Control(x) == as!Num(as!Low(as!Down(x, 13), 2))
LDMXCSR(s, x) ==
    [s EXCEPT !.mxcsr = as!Low(x, 32), !.rs = rounding_mode(Control(x)), !.frm = rounding_mode(Control(x)),
              !.sse = TRUE]

=============================================================================
