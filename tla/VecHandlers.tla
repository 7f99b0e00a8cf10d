----------------------------- MODULE VecHandlers ----------------------------
(***************************************************************************)
(* The handlers of MMX and SSE instructions on integers and whole          *)
(* registers.  The state of Handlers gets                                  *)
(*   s.v    the vector registers, of e.VLEN bits each                      *)
(*   s.c    the configuration of the vector unit (Rvv)                     *)
(*   s.bel  the configuration the translator believes to be set: element   *)
(*          width, vector length and register grouping                     *)
(*   s.frm  the rounding mode of the host                                  *)
(* and the rest of X87Handlers.  A vector operand has the kind "vec" and a *)
(* register r of s.v; i.w is the width of elements.  e adds the host's     *)
(* VLEN, its Zfa and Zvbb extensions, the options inaccurate_minmax and    *)
(* paranoid, and e.junk, what scratch registers hold.                      *)
(*                                                                         *)
(* Handlers get their operands' registers as dst and src.  They return the *)
(* state with a result either computed in place (Into) or moved from a     *)
(* scratch register (setVec).                                              *)
(***************************************************************************)
EXTENDS Handlers

CONSTANT Fp(_, _, _, _)

rv == INSTANCE Rvv
fl == INSTANCE Float

MM == [k \in 0 .. 7 |-> <<"mm0", "mm1", "mm2", "mm3", "mm4", "mm5", "mm6", "mm7">>[k + 1]]
IsMM(o) == o.k = "vec" /\ o.w = 64
Number(o) == as!Num(as!Low(o.v, 8))

-----------------------------------------------------------------------------
(* Configuration and operands.                                             *)

Unknown == <<1024, 0, "M1">>

(* A slip: the grouping is not compared.                                   *)
setVectorStateUngrouped(s, e, sew, vlen, grouping) ==
    IF s.bel[1] = sew /\ s.bel[2] = vlen /\ ~e.paranoid THEN s
    ELSE [s EXCEPT !.c = rv!VSETIVLI(vlen, sew, grouping, e.VLEN), !.bel = <<sew, vlen, grouping>>]

setVectorState(s, e, sew, vlen, grouping) ==
    IF s.bel = <<sew, vlen, grouping>> /\ ~e.paranoid THEN s
    ELSE [s EXCEPT !.c = rv!VSETIVLI(vlen, sew, grouping, e.VLEN), !.bel = <<sew, vlen, grouping>>]
Full(s, e, w) == setVectorState(s, e, w, 128 \div w, "M1")
Half(s, e, w) == setVectorState(s, e, w, 128 \div w, "MF2")
First(s, e, w) == setVectorState(s, e, w, 1, "M1")

(* A memory operand is loaded into a scratch register.                     *)
readMemoryVec(s, e, o) == (e.junk \ as!Bits(o.w)) \cup readMemory(s, lea(s, o), o.w)
Loaded(s, e, o) == IF o.k = "mem" THEN setVectorState(s, e, 8, o.w \div 8, "M1") ELSE s
getVec(s, e, o) ==
    CASE o.k = "vec" -> s.v[o.r]
      [] o.k = "mem" -> readMemoryVec(s, e, o)
      [] OTHER -> {}

isCurrentLength128(s) == s.bel[3] = "M1" /\ s.bel[1] * s.bel[2] = 128
Into(s, o, x) == [s EXCEPT !.v[o.r] = x]
Lowered(s, e) == IF isCurrentLength128(s) THEN s ELSE setVectorState(s, e, 8, 16, "M1")
MoveInto(s, o, x) == [s EXCEPT !.v[o.r] = rv!VMV(s.c, @, x)]
setVec(s, e, o, x) ==
    IF o.k = "mem" THEN writeMemory(setVectorState(s, e, 8, o.w \div 8, "M1"), lea(s, o), x, o.w)
    ELSE IF e.VLEN = 128 THEN Into(s, o, x)
    ELSE MoveInto(Lowered(s, e), o, x)

(* Element by element in place, under the configuration of s.              *)
Lanes(s, i, dst, src, F(_, _)) == Into(s, i.o[1], rv!Map2(s.c, dst, dst, src, F))

-----------------------------------------------------------------------------
(* Moves.                                                                  *)

(* A number from a general register or memory goes to element 0, the       *)
(* elements above it are cleared under a mask.                             *)
SetLowest(s, o, x, above) ==
    Into(s, o, rv!VMV_SX(s.c, rv!Masked(s.c, s.v[o.r], above, LAMBDA k : {}), x))
KeepLowest(s, e, o, src) ==
    setVec(s, e, o, rv!Masked(s.c, rv!Splat(s.c, e.junk, {}), {0}, LAMBDA k : rv!El(src, k, s.c.sew)))
MOVQ(s, i, e, src) ==
    IF i.o[1].k # "vec" THEN setGPR(Full(s, e, 64), e, i.o[1], rv!VMV_XS(Full(s, e, 64).c, src))
    ELSE IF i.o[2].k # "vec" THEN SetLowest(Full(s, e, 64), i.o[1], getGPR(s, i.o[2]), {1})
    ELSE KeepLowest(Full(s, e, 64), e, i.o[1], src)
MOVD(s, i, e, src) ==
    CASE i.o[1].k = "mem" -> setGPR(First(s, e, 32), e, i.o[1], rv!VMV_XS(First(s, e, 32).c, src))
      [] i.o[1].k = "reg" -> setGPR(Full(s, e, 32), e, i.o[1], rv!VMV_XS(Full(s, e, 32).c, src))
      [] i.o[2].k # "vec" -> SetLowest(Full(s, e, 32), i.o[1], getGPR(s, i.o[2]), {1, 2, 3})
      [] OTHER -> KeepLowest(Full(s, e, 32), e, i.o[1], src)

(* A load goes to the register directly, another source is moved.          *)
VECTOR_MOV(s, i, e, src) ==
    IF i.o[2].k = "vec" THEN (IF i.o[1] = i.o[2] THEN s ELSE setVec(s, e, i.o[1], src))
    ELSE Into(s, i.o[1], (s.v[i.o[1].r] \ as!Bits(128)) \cup as!Low(src, 128))
MOVNTQ(s, i, e, src) == setVec(s, e, i.o[1], src)
LDDQU(s, i, e, src) == setVec(s, e, i.o[1], src)

(* MOVSD and MOVSS: a load clears the rest of the register.                *)
MoveScalar(s, i, dst, src) == Into(s, i.o[1], rv!VMV(s.c, dst, src))
MOVSS(s, i, e, w, dst, src) ==
    CASE i.o[1].k = "mem" -> setVec(s, e, i.o[1], src)
      [] i.o[2].k = "mem" -> MoveScalar(First(Full(s, e, 64), e, w), i, rv!Splat(Full(s, e, 64).c, dst, {}), src)
      [] OTHER -> MoveScalar(First(s, e, w), i, dst, src)
MOVHPS(s, i, e, dst, src) ==
    IF i.o[1].k = "mem" THEN setVec(s, e, i.o[1], rv!VSLIDEDOWN(s.c, e.junk, src, 1))
    ELSE Into(s, i.o[1], rv!VMERGE(s.c, dst, dst, rv!VSLIDEUP(s.c, e.junk, src, 1), {1}))
MOVLPS(s, i, e, dst, src) ==
    IF i.o[1].k = "mem" THEN setVec(s, e, i.o[1], src)
    ELSE MoveScalar(First(s, e, 64), i, dst, src)
MOVHLPS(s, i, e, dst, src) ==
    Into(s, i.o[1], rv!VMERGE(s.c, dst, rv!VSLIDEDOWN(s.c, e.junk, src, 1), dst, {1}))
MOVLHPS(s, i, dst, src) == Into(s, i.o[1], rv!VSLIDEUP(s.c, dst, src, 1))
MOVQ2DQ(s, i, e, dst, src) ==
    MoveScalar(First(Full(s, e, 64), e, 64), i, rv!Splat(Full(s, e, 64).c, dst, {}), src)
MOVDQ2Q(s, i, e, dst, src) == MoveScalar(First(s, e, 64), i, dst, src)
MOVDDUP(s, i, e, src) == setVec(s, e, i.o[1], rv!VRGATHER(s.c, e.junk, src, rv!Splat(s.c, e.junk, {})))
MOVSHDUP(s, i, dst, src) ==
    Into(s, i.o[1], rv!Map1(s.c, dst, src, LAMBDA a : as!OR(as!Up(as!Down(a, 32), 32), as!Down(a, 32))))
MOVSLDUP(s, i, dst, src) ==
    Into(s, i.o[1], rv!Map1(s.c, dst, src, LAMBDA a : as!OR(as!Low(as!Up(a, 32), 64), as!Low(a, 32))))

-----------------------------------------------------------------------------
(* Interleaving.  The elements of both operands are widened with zeros and *)
(* those of the source shifted into the gaps.                              *)

VWADDU(c, e, x) == rv!Widening2(c, e.junk, x, {}, LAMBDA a, b : a)
Interleave(s, i, dst, lo, hi) ==
    Into(s, i.o[1], rv!Map2(s.c, dst, lo, hi, LAMBDA a, b : as!OR(a, as!Low(as!Up(b, i.w), 64))))
PUNPCKL(s, i, e, dst, src) ==
    Interleave(Full(s, e, 64), i, dst, VWADDU(s.c, e, dst), VWADDU(s.c, e, src))
HighElements(i) == (IF IsMM(i.o[1]) THEN 32 ELSE 64) \div i.w
PUNPCKH(s, i, e, dst, src) ==
    Interleave(Full(s, e, 64), i, dst,
               VWADDU(s.c, e, rv!VSLIDEDOWN(s.c, e.junk, dst, HighElements(i))),
               VWADDU(s.c, e, rv!VSLIDEDOWN(s.c, e.junk, src, HighElements(i))))
PUNPCKLQDQ(s, i, dst, src) == Into(s, i.o[1], rv!VSLIDEUP(s.c, dst, src, 1))
PUNPCKHQDQ(s, i, e, dst, src) ==
    Into(s, i.o[1], rv!VMERGE(s.c, dst, rv!VSLIDE1DOWN(s.c, e.junk, dst, {}), src, {1}))

(* Every other element from each source, from element k on.                *)
Gathered(c, vd, m, x, k) ==
    rv!VRGATHER_masked(c, vd, m, x, rv!Map1(c, vd, rv!VIOTA(c, vd, m), LAMBDA a : as!Sum(a, as!Word(k, 2))))
UNPCKPS(s, i, e, k, dst, src) ==
    setVec(s, e, i.o[1],
           Gathered(s.c, Gathered(s.c, rv!Splat(s.c, e.junk, {}), {0, 2}, dst, k), {1, 3}, src, k))
UNPCKLPD(s, i, e, dst, src) ==
    setVec(s, e, i.o[1], rv!VMERGE(s.c, e.junk, dst, rv!VSLIDEUP(s.c, e.junk, src, 1), {1}))
UNPCKHPD(s, i, e, dst, src) ==
    setVec(s, e, i.o[1], rv!VMERGE(s.c, e.junk, rv!VSLIDEDOWN(s.c, e.junk, dst, 1), src, {1}))

-----------------------------------------------------------------------------
(* Logic and arithmetic, element by element.                               *)

PXOR(a, b) == as!XOR(a, b)
VecLogic(op, a, b) ==
    CASE op = "pand" -> a \cap b
      [] op = "por" -> a \cup b
      [] op = "pandn" -> b \ a
AddSub(op, a, b, w) ==
    CASE op = "padd" -> rv!Plus(a, b, w)
      [] op = "psub" -> rv!Minus(a, b, w)
      [] op = "padds" -> rv!AddSatS(a, b, w)
      [] op = "paddsu" -> rv!AddSatU(a, b, w)
      [] op = "psubs" -> rv!SubSatS(a, b, w)
      [] op = "psubsu" -> rv!SubSatU(a, b, w)
MinMax(op, a, b, w) ==
    CASE op = "pminu" -> IF as!Less(a, b) THEN a ELSE b
      [] op = "pmaxu" -> IF as!Less(a, b) THEN b ELSE a
      [] op = "pmins" -> IF rv!LessS(a, b, w) THEN a ELSE b
      [] op = "pmaxs" -> IF rv!LessS(a, b, w) THEN b ELSE a
Product(op, a, b, w) ==
    CASE op = "pmulh" -> as!Down(rv!TimesS(a, b, w), w)
      [] op = "pmulhu" -> as!Down(as!Times(a, b), w)
      [] op = "pmull" -> as!Low(as!Times(a, b), w)
PAVG(a, b) == rv!Average(a, b)

(* Products of the low halves of 64-bit elements.                          *)
LowHalf(a, signed) == IF signed THEN rv!SignExt(as!Low(a, 32), 32, 64) ELSE as!Low(a, 32)
PMULDQ(s, i, e, dst, src, signed) ==
    setVec(s, e, i.o[1],
           rv!Map2(s.c, e.junk, dst, src, LAMBDA a, b : as!Low(as!Times(LowHalf(a, signed), LowHalf(b, signed)), 64)))

(* Even and odd words are packed into the low half and multiplied there.   *)
WordPairs == {0, 2, 4, 6}
MultiplyAdd(c, e, x0, y0, x1, y1) ==
    rv!Accumulate(c, rv!Widening2(c, e.junk, x0, y0, LAMBDA a, b : rv!TimesS(a, b, 16)), x1, y1,
                  LAMBDA t, a, b : rv!Plus(t, rv!TimesS(a, b, 16), 32))
PMADDWD(s, i, e, dst, src) ==
    setVec(setVectorState(s, e, 16, 4, "MF2"), e, i.o[1],
           MultiplyAdd(setVectorState(s, e, 16, 4, "MF2").c, e,
                       rv!VCOMPRESS(s.c, e.junk, dst, WordPairs), rv!VCOMPRESS(s.c, e.junk, src, WordPairs),
                       rv!VCOMPRESS(s.c, e.junk, dst, 0 .. 7 \ WordPairs), rv!VCOMPRESS(s.c, e.junk, src, 0 .. 7 \ WordPairs)))

All(w) == as!Bits(w)
PCMPEQ(s, i, dst, src) == Into(s, i.o[1], rv!Map2(s.c, dst, dst, src, LAMBDA a, b : IF a = b THEN All(i.w) ELSE {}))
PCMPGT(s, i, dst, src) ==
    Into(s, i.o[1], rv!Map2(s.c, dst, dst, src, LAMBDA a, b : IF rv!LessS(b, a, i.w) THEN All(i.w) ELSE {}))
PSIGN(s, i, e, dst, src) ==
    setVec(s, e, i.o[1],
           rv!Map2(s.c, e.junk, dst, src,
                   LAMBDA a, b : IF b = {} THEN {} ELSE IF i.w - 1 \in b THEN rv!Minus({}, a, i.w) ELSE a))

(* Shifts by an immediate or by the low 64 bits of the source.             *)
ShiftCount(o, src) == IF o.k = "imm" THEN as!Low(o.v, 8) ELSE as!Low(src, 64)
CountIsBelow(x, w) == as!Less(x, as!Word(w, 8))
ShiftState(s, e, i) == Full(IF i.o[2].k = "imm" THEN s ELSE Full(s, e, 64), e, i.w)
PSLL(s, i, dst, k) ==
    Into(s, i.o[1], rv!Map1(s.c, dst, dst, LAMBDA a : IF CountIsBelow(k, i.w) THEN as!Up(a, as!Num(k)) ELSE {}))
PSRL(s, i, dst, k) ==
    Into(s, i.o[1], rv!Map1(s.c, dst, dst, LAMBDA a : IF CountIsBelow(k, i.w) THEN as!Down(a, as!Num(k)) ELSE {}))
PSRA(s, i, dst, k) ==
    Into(s, i.o[1], rv!Map1(s.c, dst, dst,
                            LAMBDA a : rv!ShiftRightS(a, IF CountIsBelow(k, i.w) THEN as!Num(k) ELSE i.w - 1, i.w)))

-----------------------------------------------------------------------------
(* Packing with saturation.  Both halves are narrowed, then joined.        *)

PackWidth(o) == IF IsMM(o) THEN 32 ELSE 64
Join(s, i, e, lo, hi) ==
    setVec(s, e, i.o[1], rv!VMERGE(s.c, e.junk, lo, rv!VSLIDEUP(s.c, e.junk, hi, 1), {1}))
Narrower(s, i, e) == setVectorState(s, e, i.w \div 2, 128 \div i.w, "MF2")
Joiner(s, i, e) == setVectorState(s, e, PackWidth(i.o[1]), 2, "M1")
Positive(c, e, x, w) == rv!Map1(c, e.junk, x, LAMBDA a : IF w - 1 \in a THEN {} ELSE a)
PACKUS(s, i, e, dst, src) ==
    Join(Joiner(Narrower(s, i, e), i, e), i, e,
         rv!Narrowing(Narrower(s, i, e).c, e.junk, Positive(s.c, e, dst, i.w), LAMBDA a : rv!ClipU(a, i.w \div 2)),
         rv!Narrowing(Narrower(s, i, e).c, e.junk, Positive(s.c, e, src, i.w), LAMBDA a : rv!ClipU(a, i.w \div 2)))
PACKSS(s, i, e, dst, src) ==
    Join(Joiner(s, i, e), i, e,
         rv!Narrowing(s.c, e.junk, dst, LAMBDA a : rv!ClipS(a, i.w, i.w \div 2)),
         rv!Narrowing(s.c, e.junk, src, LAMBDA a : rv!ClipS(a, i.w, i.w \div 2)))

(* Widening with zeros or the sign from elements of the width part.        *)
PMOVZX(s, i, e, dst, src, part) ==
    IF i.o[1] = i.o[2] THEN setVec(s, e, i.o[1], rv!Extending(s.c, e.junk, src, part, LAMBDA a : a))
    ELSE Into(s, i.o[1], rv!Extending(s.c, dst, src, part, LAMBDA a : a))
PMOVSX(s, i, e, dst, src, part) ==
    IF i.o[1] = i.o[2]
    THEN setVec(s, e, i.o[1], rv!Extending(s.c, e.junk, src, part, LAMBDA a : rv!SignExt(a, i.w \div part, i.w)))
    ELSE Into(s, i.o[1], rv!Extending(s.c, dst, src, part, LAMBDA a : rv!SignExt(a, i.w \div part, i.w)))

-----------------------------------------------------------------------------
(* Shuffles.  The immediate names an element with every two bits.          *)

Pick(imm, k) == as!Low(as!Down(imm, 2 * k), 2)
Picks(imm, w) == UNION {as!Up(Pick(imm, k), k * w) : k \in 0 .. 3}
SHUFPD(s, i, e, imm, dst, src) ==
    setVec(s, e, i.o[1],
           rv!VSLIDE1UP(s.c, e.junk, IF 1 \in imm THEN rv!VSLIDEDOWN(s.c, e.junk, src, 1) ELSE src,
                        rv!El(dst, IF 0 \in imm THEN 1 ELSE 0, 64)))
PSHUFW(s, i, e, imm, src) ==
    setVec(setVectorState(s, e, 16, 4, "M1"), e, i.o[1],
           rv!VRGATHER(setVectorState(s, e, 16, 4, "M1").c, e.junk, src, rv!VMV_SX(s.c, e.junk, Picks(imm, 16))))
PSHUFD(s, i, e, imm, src) ==
    setVec(Full(s, e, 32), e, i.o[1],
           rv!VRGATHEREI16(Full(s, e, 32).c, e.junk, src, rv!VMV_SX(s.c, e.junk, Picks(imm, 16))))
PickTwo(imm, k) == Pick(imm, k) \cup as!Up(Pick(imm, k + 1), 16)
SHUFPS(s, i, e, imm, dst, src) ==
    setVec(s, e, i.o[1],
           rv!VSLIDEUP(s.c, rv!VRGATHEREI16(s.c, e.junk, dst, rv!Splat(s.c, e.junk, PickTwo(imm, 0))),
                       rv!VRGATHEREI16(s.c, e.junk, src, rv!Splat(s.c, e.junk, PickTwo(imm, 2))), 2))
PshufbBits(o) == IF IsMM(o) THEN {0, 1, 2, 7} ELSE {0, 1, 2, 3, 7}
PSHUFB(s, i, e, dst, mask) ==
    setVec(s, e, i.o[1],
           rv!VRGATHER(s.c, e.junk, dst, rv!Map1(s.c, e.junk, mask, LAMBDA a : a \cap PshufbBits(i.o[1]))))
PSHUFLW(s, i, e, imm, src) ==
    setVec(Full(s, e, 16), e, i.o[1],
           rv!VRGATHER(Full(s, e, 16).c, e.junk, src,
                       rv!VSLIDE1UP(s.c, e.junk, UNION {as!Up(as!Word(k + 4, 4), 16 * k) : k \in 0 .. 3}, Picks(imm, 16))))
PSHUFHW(s, i, e, imm, src) ==
    setVec(Full(s, e, 16), e, i.o[1],
           rv!VRGATHER_masked(Full(s, e, 16).c, rv!VMV(Full(s, e, 16).c, e.junk, src), 4 .. 7, src,
                              rv!VSLIDE1UP(s.c, e.junk,
                                           rv!VMV_SX(s.c, e.junk, Picks(imm, 16) \cup {2, 18, 34, 50}), {})))

(* Blends: by the immediate, and by the signs of xmm0.                     *)
Blend(s, i, dst, src, mask) == Into(s, i.o[1], rv!VMERGE(s.c, dst, dst, src, mask))
PBLENDV(s, i, dst, src, xmm0) ==
    Blend(s, i, dst, src, rv!Test2(s.c, {}, xmm0, xmm0, LAMBDA a, b : i.w - 1 \in a))
PBLENDW(s, i, dst, src, imm) == Blend(s, i, dst, src, as!Low(imm, 8))
BLENDPS(s, i, dst, src, imm) == Blend(s, i, dst, src, as!Low(imm, 4))
BLENDPD(s, i, dst, src, imm) == Blend(s, i, dst, src, as!Low(imm, 2))

(* Shifts of the whole register by bytes.                                  *)
PSLLDQ(s, i, e, k, dst) ==
    setVec(s, e, i.o[1],
           IF k > 15 THEN rv!Splat(s.c, e.junk, {}) ELSE rv!VSLIDEUP(s.c, rv!Splat(s.c, e.junk, {}), dst, k))
ClearFrom(c, x, k) == rv!Masked(c, x, k .. 15, LAMBDA b : {})
PSRLDQ(s, i, e, k, dst) ==
    IF k > 15 THEN setVec(s, e, i.o[1], rv!Splat(s.c, e.junk, {}))
    ELSE setVec(Full(s, e, 8), e, i.o[1],
                ClearFrom(Full(s, e, 8).c, rv!VSLIDEDOWN(Full(s, e, 8).c, e.junk, dst, k), 16 - k))
Aligned(c, e, k, dst, src) ==
    IF k < 16
    THEN rv!Map2(c, e.junk, ClearFrom(c, rv!VSLIDEDOWN(c, e.junk, src, k), 16 - k),
                 rv!VSLIDEUP(c, rv!Splat(c, e.junk, {}), dst, 16 - k), LAMBDA a, b : a \cup b)
    ELSE ClearFrom(c, rv!VSLIDEDOWN(c, e.junk, dst, k - 16), 32 - k)
PALIGNR(s, i, e, k, dst, src) ==
    IF k > 31 THEN Into(s, i.o[1], rv!Splat(s.c, dst, {}))
    ELSE setVec(Full(s, e, 8), e, i.o[1], Aligned(Full(s, e, 8).c, e, k, dst, src))

-----------------------------------------------------------------------------
(* Single elements, masks and sums.                                        *)

PINSR(s, i, e, k, dst, x) ==
    setVec(s, e, i.o[1],
           rv!VMERGE(s.c, e.junk, dst, rv!VSLIDEUP(s.c, e.junk, rv!VMV_SX(s.c, e.junk, x), k), {k}))
(* PINSRB sets its mask up with elements of 16 bits.                       *)
InsertState(s, e, w) == Full(IF w = 8 THEN First(s, e, 16) ELSE s, e, w)
InsertIndex(i, o) == Number(i.o[3]) % ((IF IsMM(o) THEN 64 ELSE 128) \div i.w)
PEXTR(s, i, e, k, src) ==
    setGPR(s, e, i.o[1], as!Low(rv!VMV_XS(s.c, rv!VSLIDEDOWN(s.c, e.junk, src, k)), IF i.w < 32 THEN i.w ELSE 64))
EXTRACTPS(s, i, e, k, src) == setGPR(s, e, i.o[1], rv!VMV_XS(s.c, rv!VSLIDEDOWN(s.c, e.junk, src, k)))

Slid(c, e, x, count) ==
    IF count < 0 THEN rv!VSLIDEUP(c, e.junk, x, -count) ELSE rv!VSLIDEDOWN(c, e.junk, x, count)
INSERTPS(s, i, imm, at, dst, moved) ==
    Into(s, i.o[1], rv!Masked(s.c, rv!VMERGE(s.c, dst, dst, moved, {at}), as!Low(imm, 4), LAMBDA k : {}))
InsertSource(i, imm) == IF i.o[2].k = "vec" THEN as!Num(Pick(imm, 3)) ELSE 0
InsertTarget(imm) == as!Num(Pick(imm, 2))

Signs(c, vd, x) == rv!Test2(c, vd, x, {}, LAMBDA a, b : rv!LessS(a, b, c.sew))
PMOVMSKB(s, i, e, src) ==
    setGPR(Full(s, e, 64), e, i.o[1], as!Low(rv!VMV_XS(Full(s, e, 64).c, Signs(s.c, e.junk, src)), 16))
MOVMSKPS(s, i, e, src) == setGPR(s, e, i.o[1], as!Low(Signs(s.c, e.junk, src), 4))
MOVMSKPD(s, i, e, src) == setGPR(s, e, i.o[1], as!Low(Signs(s.c, e.junk, src), 2))

BothZero(c, x) == \A k \in rv!Elements(c) : rv!El(x, k, 64) = {}
PTEST(s, i, e, dst, src) ==
    Emit(s, e, [zf |-> as!Bool(BothZero(s.c, dst \cap src)),
                cf |-> as!Bool(i.o[1] = i.o[2] \/ BothZero(s.c, src \ dst)),
                af |-> as!Zero, of |-> as!Zero, sf |-> as!Zero, pf |-> as!Zero])

(* Differences of bytes in groups of two registers, summed by halves.      *)
Differences(c, e, x, y) == rv!Widening2(c, e.junk, x, y, LAMBDA a, b : rv!Minus(a, b, 16))
Distances(c, e, x) == rv!Map1(c, e.junk, x, LAMBDA a : rv!Absolute(a, 16))
SumOf(c, e, x) == rv!ReduceUp(c, rv!Splat(c, e.junk, {}), x, {}, LAMBDA t, a : rv!Plus(t, a, 16))
SumHalves(s, i, e, c, dst, x, y) ==
    Into(s, i.o[1], rv!Map2(s.c, dst, SumOf(c, e, x), rv!VSLIDE1UP(s.c, e.junk, SumOf(c, e, y), {}),
                            LAMBDA a, b : a \cup b))
PSADBW(s, i, e, dst, d) ==
    IF IsMM(i.o[1]) THEN setVec(Full(s, e, 16), e, i.o[1], SumOf(Full(s, e, 16).c, e, d))
    ELSE SumHalves(Full(Full(s, e, 16), e, 64), i, e, Full(s, e, 16).c, dst, d, rv!VSLIDEDOWN(s.c, e.junk, d, 8))
PsadbwBytes(s, i, e) == setVectorState(s, e, 8, IF IsMM(i.o[1]) THEN 8 ELSE 16, "M1")
PsadbwWords(s, e) == setVectorState(s, e, 16, 16, "M2")

Least(c, x) == rv!Reduce(c, {}, x, as!Bits(16), LAMBDA t, a : IF as!Less(a, t) THEN a ELSE t)
FirstIndex(c, x, a) ==
    CHOOSE k \in rv!Elements(c) : rv!El(x, k, 16) = a /\ \A j \in 0 .. (k - 1) : rv!El(x, j, 16) # a
PHMINPOSUW(s, i, e, src, least) ==
    setVec(s, e, i.o[1],
           rv!VSLIDE1UP(s.c, e.junk, rv!VMV_SX(s.c, rv!Splat(s.c, e.junk, {}), as!Word(FirstIndex(s.c, src, least), 4)), least))

=============================================================================
