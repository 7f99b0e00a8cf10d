---------------------------- MODULE MCSimdBlocks ----------------------------
(***************************************************************************)
(* Programs and inputs for SimdBlocks: every instruction alone, in its     *)
(* forms and on hosts of both vector lengths; pairs and triples in one     *)
(* block, whose configurations follow each other; and programs of several  *)
(* blocks that switch between x87, MMX and SSE, save and restore.          *)
(***************************************************************************)
EXTENDS SimdBlocks

(* Arithmetic that tells apart operations, rounding modes and operands,    *)
(* and does not depend on the order of the operands of a sum or product.   *)
Codes == [add |-> 1, mul |-> 2, div |-> 3, sqrt |-> 4, widen |-> 5, narrow |-> 6, sin |-> 7, cos |-> 8, tan |-> 9,
          rem |-> 10, partial |-> 11, scale |-> 12, quotient |-> 13]
       @@ ("atan2" :> 14) @@ ("2xm1" :> 15) @@ ("yl2x" :> 16) @@ ("yl2xp1" :> 17)
ModeCodes == [rne |-> 0, rdn |-> 1, rup |-> 2, rtz |-> 3]
ConstantCodes == [pi |-> 1, l2t |-> 2, l2e |-> 3, lg2 |-> 4, ln2 |-> 5]
Digest(a, w) == as!XOR(as!Low(a, 20), as!Low(as!Down(a, 19), 22))
MCFp(op, numbers, w, rm) ==
    IF op = "constant" THEN fl!One(64) \cup as!Up(as!Word(ConstantCodes[numbers[1]], 3), 40)
    ELSE fl!One(w) \cup
         as!Low(as!XOR(as!Up(as!XOR(Digest(numbers[1], w),
                               IF Len(numbers) = 1 THEN {}
                               ELSE IF op \in {"add", "mul"} THEN Digest(numbers[2], w)
                               ELSE as!Up(Digest(numbers[2], w), 1)), 1),
                       as!Word(Codes[op] * 4 + ModeCodes[rm], 8)), 22)

-----------------------------------------------------------------------------
W(k) == as!Word(k, 16)
NoOperand == [k |-> "none", w |-> 64, r |-> "none", hi |-> FALSE, base |-> "none",
              index |-> "none", scale |-> 0, disp |-> {}, v |-> {}]
Reg(r, w) == [NoOperand EXCEPT !.k = "reg", !.r = r, !.w = w]
Xmm(r) == [NoOperand EXCEPT !.k = "vec", !.r = r, !.w = 128]
Mm(k) == [NoOperand EXCEPT !.k = "vec", !.r = MM[k], !.w = 64]
St(k) == [NoOperand EXCEPT !.k = "st", !.r = ST[k]]
Mem(base, w) == [NoOperand EXCEPT !.k = "mem", !.base = base, !.w = w]
Imm(k) == [NoOperand EXCEPT !.k = "imm", !.v = W(k), !.w = 8]

(* in names the input an instruction is tried on.                          *)
V(op, o, w) == [op |-> op, o |-> o, w |-> w, isa |-> "sse", pop |-> 0, rev |-> FALSE, fn |-> "none", rm |-> "dyn",
                part |-> 2, implicit |-> TRUE, index |-> TRUE, lock |-> FALSE, rep |-> "none", cond |-> 0,
                target |-> W(99), in |-> "int"]
F(i, fn) == [i EXCEPT !.fn = fn]
On(i, in) == [i EXCEPT !.in = in]
X(op, o) == [V(op, o, 64) EXCEPT !.isa = "x87", !.in = "x87"]
Popping(i, k) == [i EXCEPT !.pop = k]

X0 == Xmm("xmm0")
X1 == Xmm("xmm1")
X2 == Xmm("xmm2")
S(w) == Mem("rbx", w)
D(w) == Mem("rsi", w)
Mmx == {<<Mm(1), Mm(2)>>, <<Mm(1), S(64)>>}
Sse == {<<X1, X2>>, <<X1, S(128)>>, <<X1, X1>>}

-----------------------------------------------------------------------------
(* Integers.                                                               *)

Both_ == {"padd", "psub"}
ByteWord == {"padds", "paddsu", "psubs", "psubsu", "pavg"}
MCIntegers ==
    {V(op, o, 64) : op \in {"pxor", "pand", "por", "pandn"}, o \in Mmx \cup Sse}
      \cup {V(op, o, w) : op \in Both_, o \in Mmx \cup Sse, w \in {8, 16, 32, 64}}
      \cup {V(op, o, w) : op \in ByteWord, o \in Mmx \cup Sse, w \in {8, 16}}
      \cup {V(op, o, w) : op \in {"pcmpeq", "pcmpgt", "psign"}, o \in Mmx \cup Sse, w \in {8, 16, 32}}
      \cup {V(op, o, w) : op \in {"pminu", "pmaxu", "pmins", "pmaxs"}, o \in Sse, w \in {8, 16, 32}}
      \cup {V(op, o, 16) : op \in {"pmulh", "pmulhu", "pmull", "pmaddwd"}, o \in Mmx \cup Sse}
      \cup {V("pmull", o, 32) : o \in Sse}
      \cup {V("pmuludq", o, 64) : o \in Mmx \cup Sse}
      \cup {V("pmuldq", o, 64) : o \in Sse}
      \cup {V(op, o, w) : op \in {"psll", "psrl", "psra"}, w \in {16, 32},
                          o \in {<<Mm(1), Imm(5)>>, <<X1, Imm(40)>>, <<X1, X0>>, <<Mm(1), Mm(3)>>}}
      \cup {V(op, o, 64) : op \in {"psll", "psrl"}, o \in {<<Mm(1), Imm(5)>>, <<X1, Imm(40)>>, <<X1, X0>>, <<Mm(1), Mm(3)>>}}
      \cup {V("psadbw", o, 8) : o \in Mmx \cup Sse}
      \cup {V("phminposuw", o, 16) : o \in Sse}

MCMoves ==
    {V("movq", o, 64) : o \in {<<X1, Reg("rax", 64)>>, <<Reg("rax", 64), X1>>, <<X1, X2>>, <<X1, S(64)>>, <<D(64), X1>>,
                               <<Mm(1), Mm(2)>>, <<Mm(1), Reg("rax", 64)>>, <<Reg("rax", 64), Mm(1)>>, <<D(64), Mm(1)>>,
                               <<Mm(1), S(64)>>}}
      \cup {V("movd", o, 32) : o \in {<<X1, Reg("rax", 32)>>, <<Reg("rax", 32), X1>>, <<X1, S(32)>>, <<D(32), X1>>,
                                      <<Mm(1), Reg("rax", 32)>>, <<Reg("rax", 32), Mm(1)>>, <<Mm(1), S(32)>>, <<D(32), Mm(1)>>}}
      \cup {V("mov", o, 64) : o \in {<<X1, X2>>, <<X1, X1>>, <<X1, S(128)>>, <<D(128), X1>>}}
      \cup {V("movntq", <<D(64), Mm(1)>>, 64), V("lddqu", <<X1, S(128)>>, 64)}
      \cup {V("movs", o, 32) : o \in {<<X1, X2>>, <<X1, S(32)>>, <<D(32), X1>>}}
      \cup {V("movs", o, 64) : o \in {<<X1, X2>>, <<X1, S(64)>>, <<D(64), X1>>}}
      \cup {V(op, o, 64) : op \in {"movhps", "movlps"}, o \in {<<X1, S(64)>>, <<D(64), X1>>}}
      \cup {V(op, o, 64) : op \in {"movhlps", "movlhps"}, o \in {<<X1, X2>>, <<X1, X1>>}}
      \cup {V("movq2dq", <<X1, Mm(2)>>, 64), V("movdq2q", <<Mm(1), X2>>, 64), V("movddup", <<X1, S(64)>>, 64)}
      \cup {V(op, o, 32) : op \in {"movshdup", "movsldup"}, o \in Sse}
      \cup {V("movddup", o, 64) : o \in {<<X1, X2>>, <<X1, X1>>}}

With_(o, k) == Append(o, Imm(k))
Narrow_(w) == {<<X1, X2>>, <<X1, X1>>, <<X1, S(w)>>}
MCShuffles ==
    {V(op, o, w) : op \in {"punpckl", "punpckh"}, o \in Mmx \cup Sse, w \in {8, 16, 32}}
      \cup {V(op, o, 64) : op \in {"punpcklqdq", "punpckhqdq", "unpcklpd", "unpckhpd"}, o \in Sse}
      \cup {V(op, o, 32) : op \in {"unpcklps", "unpckhps"}, o \in Sse}
      \cup {V(op, o, w) : op \in {"packss"}, o \in Mmx \cup Sse, w \in {16, 32}}
      \cup {V("packus", o, 16) : o \in Mmx \cup Sse} \cup {V("packus", o, 32) : o \in Sse}
      \cup {[V(op, o, w) EXCEPT !.part = p] : op \in {"pmovzx", "pmovsx"}, w \in {16}, p \in {2}, o \in Narrow_(64)}
      \cup {[V(op, o, w) EXCEPT !.part = p] : op \in {"pmovzx", "pmovsx"}, w \in {32, 64}, p \in {2, 4}, o \in Narrow_(64)}
      \cup {[V(op, o, w) EXCEPT !.part = p] : op \in {"pmovzx", "pmovsx"}, w \in {64}, p \in {8}, o \in Narrow_(64)}
      \cup {V("shufpd", With_(o, k), 64) : o \in Sse, k \in 0 .. 3}
      \cup {V("pshufw", With_(o, k), 16) : o \in Mmx \cup {<<Mm(1), Mm(1)>>}, k \in {27, 228, 78}}
      \cup {V("pshufd", With_(o, k), 32) : o \in Sse, k \in {27, 228, 78}}
      \cup {V("shufps", With_(o, k), 32) : o \in Sse, k \in {27, 228, 78}}
      \cup {V(op, With_(o, k), 16) : op \in {"pshuflw", "pshufhw"}, o \in Sse, k \in {27, 228, 78}}
      \cup {V("pshufb", o, 8) : o \in Mmx \cup Sse}
      \cup {V("pblendv", o, w) : o \in Sse, w \in {8, 32, 64}}
      \cup {V("pblendw", With_(o, k), 16) : o \in Sse, k \in {0, 90, 255}}
      \cup {V("blendps", With_(o, k), 32) : o \in Sse, k \in {5, 10}}
      \cup {V("blendpd", With_(o, k), 64) : o \in Sse, k \in {1, 2}}
      \cup {V(op, <<X1, Imm(k)>>, 8) : op \in {"pslldq", "psrldq"}, k \in {0, 1, 8, 15, 16, 40}}
      \cup {V("palignr", With_(o, k), 8) : o \in Sse, k \in {0, 3, 16, 20, 40}}

MCElements ==
    {V("pinsr", <<X1, o, Imm(k)>>, 8) : o \in {Reg("rax", 32), S(8)}, k \in {0, 15, 19}}
      \cup {V("pinsr", <<x1, o, Imm(k)>>, 16) : x1 \in {X1, Mm(1)}, o \in {Reg("rax", 32), S(16)}, k \in {0, 3, 7}}
      \cup {V("pinsr", <<X1, o, Imm(k)>>, 32) : o \in {Reg("rax", 32), S(32)}, k \in {0, 3}}
      \cup {V("pinsr", <<X1, o, Imm(k)>>, 64) : o \in {Reg("rax", 64), S(64)}, k \in {0, 1}}
      \cup {V("pextr", <<o, X1, Imm(k)>>, 8) : o \in {Reg("rax", 32), D(8)}, k \in {0, 15, 19}}
      \cup {V("pextr", <<o, x1, Imm(k)>>, 16) : o \in {Reg("rax", 32)}, x1 \in {X1, Mm(1)}, k \in {0, 3, 7}}
      \cup {V("pextr", <<o, X1, Imm(k)>>, 32) : o \in {Reg("rax", 32), D(32)}, k \in {0, 3}}
      \cup {V("pextr", <<o, X1, Imm(k)>>, 64) : o \in {Reg("rax", 64), D(64)}, k \in {0, 1}}
      \cup {V("extractps", <<o, X1, Imm(k)>>, 32) : o \in {Reg("rax", 32), D(32)}, k \in {0, 2}}
      \cup {V("insertps", <<X1, o, Imm(k)>>, 32) : o \in {X2, S(32)}, k \in {0, 64, 160, 52, 201}}
      \cup {V("pmovmskb", <<Reg("rax", 32), o>>, 8) : o \in {X1, Mm(1)}}
      \cup {V("movmskps", <<Reg("rax", 32), X1>>, 32), V("movmskpd", <<Reg("rax", 32), X1>>, 64)}
      \cup {V("ptest", o, 64) : o \in Sse \cup {<<X1, X0>>}}
Strings_ ==
    {On([V("pcmpxstrx", <<X1, o, Imm(k)>>, 8) EXCEPT !.implicit = im, !.index = ix], "string")
       : o \in {X2, S(128)}, k \in {0, 2, 5, 8, 12, 24, 56, 64, 68, 72, 76, 88}, im \in BOOLEAN, ix \in BOOLEAN}

-----------------------------------------------------------------------------
(* Numbers.                                                                *)

In(w) == IF w = 32 THEN "f32" ELSE "f64"
MCNumbers ==
    UNION {{On(F(V("packed", o, w), fn), In(w)) : o \in Sse, fn \in {"add", "sub", "mul", "div", "sqrt"}}
           \cup {On(F(V("scalar", o, w), fn), In(w)) : o \in {<<X1, X2>>, <<X1, S(w)>>, <<X1, X1>>},
                                                       fn \in {"add", "sub", "mul", "div", "sqrt", "min", "max"}}
           \cup {On(F(V("minp", o, w), "min"), In(w)) : o \in Sse}
           \cup {On(F(V("maxp", o, w), "max"), In(w)) : o \in Sse}
           \cup {On(V("addsub", o, w), In(w)) : o \in Sse}
           \cup {On(V("comis", o, w), In(w)) : o \in {<<X1, X2>>, <<X1, S(w)>>, <<X1, X1>>}}
           \cup {On(V("cmpp", With_(o, k), w), In(w)) : o \in Sse, k \in 0 .. 7}
           \cup {On(V(IF w = 32 THEN "cmpss" ELSE "cmpsd", With_(o, k), w), In(w))
                   : o \in {<<X1, X2>>, <<X1, S(w)>>}, k \in 0 .. 7}
           \cup {On(V("round", With_(o, k), w), In(w)) : o \in {<<X1, X2>>, <<X1, S(w)>>}, k \in {0, 1, 2, 3, 4, 9}}
           : w \in {32, 64}}
      \cup {On(V(op, o, 32), "f32") : op \in {"rcpps", "rsqrtps", "haddps", "hsubps"}, o \in Sse}
      \cup {On(V(op, o, 32), "f32") : op \in {"rcpss", "rsqrtss"}, o \in {<<X1, X2>>, <<X1, S(32)>>}}
      \cup {On(V(op, o, 64), "f64") : op \in {"haddpd", "hsubpd"}, o \in Sse}
      \cup {On(V("dpps", With_(o, k), 32), "f32") : o \in Sse, k \in {51, 241, 127, 159}}
Rtz(i) == [i EXCEPT !.rm = "rtz"]
MCConversions ==
    UNION {{On(V("cvtsi2s", <<X1, o>>, w), In(w)) : o \in {Reg("rax", 32), Reg("rax", 64), S(32)}}
           \cup {On(V(op, <<Reg("rax", rw), o>>, w), In(w)) : op \in {"cvtts2si", "cvts2si"}, rw \in {32, 64}, o \in {X2, S(w)}}
           : w \in {32, 64}}
      \cup {On(V("cvtpd2ps", o, 64), "f64") : o \in Sse}
      \cup {On(V("cvtps2pd", o, 32), "f32") : o \in Narrow_(64)}
      \cup {On(V(op, o, 32), "f32") : op \in {"cvtps2dq", "cvttps2dq"}, o \in Sse}
      \cup {On(V(op, o, 64), "f64") : op \in {"cvtpd2dq", "cvttpd2dq"}, o \in Sse}
      \cup {V("cvtdq2pd", o, 64) : o \in Narrow_(64)} \cup {V("cvtdq2ps", o, 32) : o \in Sse}
      \cup {V("cvtpi2pd", <<X1, Mm(2)>>, 64), V("cvtpi2ps", <<X1, Mm(2)>>, 32)}
      \cup {On(V("cvtpd2pi", <<Mm(1), X2>>, 64), "f64"), On(Rtz(V("cvtpd2pi", <<Mm(1), X2>>, 64)), "f64"),
            On(V("cvtps2pi", <<Mm(1), X2>>, 32), "f32"), On(Rtz(V("cvtps2pi", <<Mm(1), X2>>, 32)), "f32")}
      \cup {On(V("cvtss2sd", o, 32), "f32") : o \in {<<X1, X2>>, <<X1, X1>>, <<X1, S(32)>>}}
      \cup {On(V("cvtsd2ss", o, 64), "f64") : o \in {<<X1, X2>>, <<X1, X1>>, <<X1, S(64)>>}}

-----------------------------------------------------------------------------
(* x87.  Control words to load are at rdi.                                 *)

Word_ == Mem("rdi", 16)
Long_ == [Mem("rdi", 32) EXCEPT !.disp = {2}]
Reversed(i) == [i EXCEPT !.rev = TRUE]
MCX87 ==
    {X("fld", <<o>>) : o \in {St(0), St(2), S(32), S(64), S(80)}}
      \cup {X("fild", <<S(w)>>) : w \in {16, 32, 64}}
      \cup {Popping(X("fst", <<o>>), k) : o \in {St(2), D(32), D(64)}, k \in {0, 1}} \cup {Popping(X("fst", <<D(80)>>), 1)}
      \cup {[Popping(X("fist", <<D(w)>>), k) EXCEPT !.rm = rm] : w \in {16, 32, 64}, k \in {0, 1}, rm \in {"dyn", "rtz"}}
      \cup {X("fxch", <<St(0), St(k)>>) : k \in {0, 1, 5}}
      \cup {F([X("farith", o) EXCEPT !.rev = r], fn) : fn \in {"add", "sub", "mul", "div"}, r \in BOOLEAN,
                o \in {<<St(0), St(1)>>, <<St(2), St(0)>>, <<S(32), St(0)>>, <<S(64), St(0)>>}}
      \cup {F(Popping([X("farith", <<St(k), St(0)>>) EXCEPT !.rev = r], 1), fn) : fn \in {"add", "sub", "mul", "div"},
                r \in BOOLEAN, k \in {1, 7}}
      \cup {F([X("fiarith", <<S(w)>>) EXCEPT !.rev = r], fn) : fn \in {"add", "sub", "mul", "div"}, r \in BOOLEAN, w \in {16, 32}}
      \cup {X(op, <<>>) : op \in {"fsqrt", "fchs", "fabs", "frndint", "fsin", "fcos", "fptan", "fpatan", "f2xm1", "fscale",
                                    "fyl2x", "fyl2xp1", "fprem", "fxam", "fninit", "fnstenv", "fnsave"}}
      \cup {F(X("fldconst", <<>>), fn) : fn \in {"z", "1", "pi", "l2t", "l2e", "lg2", "ln2"}}
      \cup {Popping(X("fcomi", <<St(0), St(j)>>), k) : j \in {0, 1, 2}, k \in {0, 1}}
      \cup {Popping(X("fcom", <<St(0), St(j)>>), k) : j \in {0, 1, 2}, k \in {0, 1, 2}}
      \cup {Popping(X("fcom", <<S(w)>>), k) : w \in {32, 64}, k \in {0, 1}}
      \cup {F(X("fcmov", <<St(0), St(1)>>), fn) : fn \in {"b", "e", "be", "u", "nb", "ne", "nbe", "nu"}}
      \cup {X("fnstcw", <<D(16)>>), X("fldcw", <<Word_>>), X("fnstsw", <<D(16)>>), X("fnstsw", <<Reg("rax", 16)>>)}

Singles == {<<<<i>>>> : i \in MCIntegers \cup MCMoves \cup MCShuffles \cup MCElements \cup Strings_ \cup MCNumbers \cup MCConversions \cup MCX87}

-----------------------------------------------------------------------------
(* Inputs.                                                                 *)

Packed_(w, q) == UNION {as!Up(as!Low(q[k], w), (k - 1) * w) : k \in 1 .. Len(q)}
Bytes_(q) == Packed_(8, [k \in 1 .. Len(q) |-> W(q[k])])
IntA == Bytes_(<<1, 128, 255, 127, 254, 255, 255, 255, 0, 0, 0, 128, 16, 3, 129, 130>>)
IntB == Bytes_(<<255, 127, 1, 128, 2, 0, 0, 0, 7, 136, 0, 128, 16, 200, 1, 66>>)
IntC == Bytes_(<<6, 0, 0, 0, 0, 0, 0, 0, 3, 128, 255, 255, 0, 128, 128, 0>>)

(* 1.5, -2.5, 0.75, -0, +0, NaN and a number beyond integers.              *)
Numeral(sign, e, frac, w) ==
    (IF sign THEN {w - 1} ELSE {}) \cup as!Up(as!Word(fl!Bias(w) + e, 12), fl!FracBits(w))
      \cup as!Up(as!Word(frac, 4), fl!FracBits(w) - 4)
P15(w) == Numeral(FALSE, 0, 8, w)
M25(w) == Numeral(TRUE, 1, 4, w)
P075(w) == Numeral(FALSE, -1, 8, w)
M05(w) == Numeral(TRUE, -1, 0, w)
NaN(w) == fl!Canonical(w) \cup {0}
Big(w) == Numeral(FALSE, 70, 3, w)
Floats(w, q) == Packed_(w, q)

Mxcsr(mode) == {7, 8, 9, 10, 11, 12} \cup as!Up(W(mode), 13)
Cw(mode) == {0, 1, 2, 3, 4, 5, 6, 8, 9} \cup as!Up(W(mode), 10)
Memory(b) == as!Up(b, 8 * 16) \cup as!Up(b, 8 * 64 + 3) \cup as!Up(Cw(3), 8 * 80) \cup as!Up(Mxcsr(2), 8 * 82)
Start(a, b, c, unit) ==
    [g |-> [rax |-> W(3) \cup {31, 40}, rbx |-> W(16), rcx |-> W(77), rdx |-> W(5), rsi |-> W(64), rdi |-> W(80)],
     f |-> [k \in Flags |-> {}], m |-> Memory(b),
     xmm |-> [xmm0 |-> c, xmm1 |-> a, xmm2 |-> b],
     p |-> [k \in 0 .. 7 |-> CASE k = 1 -> as!Low(a, 64) [] k = 2 -> as!Low(b, 64) [] k = 3 -> as!Low(c, 64) [] OTHER -> W(k)],
     kind |-> [k \in 0 .. 7 |-> "m"], top |-> 0, cw |-> Cw(0), sw |-> {}, mxcsr |-> Mxcsr(0), unit |-> unit]
Rounded(x1, mode) == [x1 EXCEPT !.mxcsr = Mxcsr(mode)]
Stacked(x1, top, mode) ==
    [x1 EXCEPT !.unit = "x87", !.top = top, !.cw = Cw(mode), !.kind = [k \in 0 .. 7 |-> "f"],
               !.p = [k \in 0 .. 7 |-> CASE k = top -> P15(64) [] k = (top + 1) % 8 -> M25(64) [] k = (top + 2) % 8 -> {63}
                                         [] OTHER -> Numeral(FALSE, k, k, 64)]]

IntInputs == {Start(IntA, IntB, IntC, "mmx"), Start(IntB, IntA, W(20), "mmx")}
F32 == {Rounded(Start(Floats(32, <<P15(32), M25(32), {}, P075(32)>>), Floats(32, <<M05(32), P15(32), {31}, P15(32)>>), {}, "mmx"), 2),
        Rounded(Start(Floats(32, <<{31}, NaN(32), P15(32), M25(32)>>), Floats(32, <<{}, P15(32), NaN(32), M25(32)>>), {}, "mmx"), 0),
        Start(Floats(32, <<NaN(32), {}, P15(32), {}>>), Floats(32, <<Big(32), P15(32), M25(32), {31}>>), {}, "mmx")}
F64 == {Rounded(Start(Floats(64, <<P15(64), M25(64)>>), Floats(64, <<M05(64), P15(64)>>), {}, "mmx"), 1),
        Start(Floats(64, <<{63}, {}>>), Floats(64, <<{63}, NaN(64)>>), {}, "mmx"),
        Start(Floats(64, <<NaN(64), P15(64)>>), Floats(64, <<Big(64), M25(64)>>), {}, "mmx")}
StringInputs ==
    {[Start(Bytes_(<<97, 122, 48, 57, 0, 1, 2>>), Bytes_(<<113, 53, 65, 97, 122, 48, 57, 200, 0, 3, 97, 122>>), {}, "mmx")
        EXCEPT !.g = [@ EXCEPT !["rax"] = W(3), !["rdx"] = W(8)]],
     [Start(Bytes_(<<1, 2>>), Bytes_(<<9, 1, 2, 1, 2, 3, 4, 5, 6, 7, 8, 1, 1, 2, 3, 1>>), {}, "mmx")
        EXCEPT !.g = [@ EXCEPT !["rax"] = W(2), !["rdx"] = W(8)]]}
(* Memory holds 1.5 in 80 bits, and control words that truncate.           *)
Numbers80 ==
    as!Up(f64_to_80(P15(64)), 8 * 16) \cup as!Up(as!Low(IntB, 80), 8 * 64)
      \cup as!Up(Cw(3), 8 * 80) \cup as!Up(Mxcsr(2), 8 * 82)
X87Inputs == {[Stacked(Start(IntA, IntB, IntC, "mmx"), 0, 0) EXCEPT !.m = Numbers80],
              [Stacked(Start(IntA, IntB, IntC, "mmx"), 6, 3) EXCEPT !.m = Numbers80]}
Mixed == {[Rounded(Start(Floats(32, <<P15(32), M25(32), P075(32), P15(32)>>), Floats(32, <<M05(32), P15(32), M25(32), P15(32)>>), IntC, "mmx"), 1)
             EXCEPT !.m = Numbers80]}
MCInputs(p) ==
    CASE p[1][1].in = "int" -> IntInputs
      [] p[1][1].in = "f32" -> F32
      [] p[1][1].in = "f64" -> F64
      [] p[1][1].in = "string" -> StringInputs
      [] p[1][1].in = "mixed" -> Mixed
      [] p[1][1].in = "x87" -> X87Inputs

Junk == {1, 5, 63, 64, 77, 100, 127, 128, 131, 135, 159, 160, 191, 192, 200, 255}
Host(vlen, zfa, minmax, junk) == [VLEN |-> vlen, Zfa |-> zfa, minmax |-> minmax, paranoid |-> FALSE, opts |-> {}, junk |-> as!Low(junk, vlen)]
MCHosts(p) ==
    (IF Len(p) = 1 THEN {Host(256, TRUE, FALSE, Junk)} ELSE {}) \cup
    (IF Len(p) > 1 \/ Len(p[1]) = 1 THEN {Host(128, FALSE, FALSE, Junk)} ELSE {})

-----------------------------------------------------------------------------
(* Sequences.                                                              *)

Various ==
    {V("padd", <<X1, X2>>, 8), V("padd", <<Mm(1), Mm(2)>>, 32), V("punpckl", <<Mm(2), Mm(1)>>, 16), V("punpckl", <<X2, X1>>, 32),
     V("movs", <<X1, S(32)>>, 32), V("movs", <<X1, X2>>, 64), V("movhps", <<X1, S(64)>>, 64), V("movlps", <<X1, S(64)>>, 64),
     V("pshufd", <<X1, X2, Imm(27)>>, 32), V("pshufw", <<Mm(1), Mm(2), Imm(27)>>, 16), V("cvtss2sd", <<X1, X1>>, 32),
     F(V("packed", <<X1, X2>>, 64), "add"), F(V("scalar", <<X1, S(32)>>, 32), "mul"), V("pextr", <<Reg("rax", 32), X1, Imm(3)>>, 32),
     V("pinsr", <<X2, Reg("rax", 64), Imm(1)>>, 64), V("ptest", <<X1, X2>>, 64), V("psadbw", <<X1, X2>>, 8),
     V("cvtpi2pd", <<X1, Mm(1)>>, 64), V("movq2dq", <<X1, Mm(1)>>, 64), V("movdq2q", <<Mm(1), X1>>, 64),
     V("movd", <<Mm(1), Reg("rax", 32)>>, 32), V("cpuid", <<>>, 64), V("syscall", <<>>, 64), V("emms", <<>>, 64),
     V("ldmxcsr", <<Long_>>, 32), V("fxsave", <<>>, 64), V("packss", <<X1, X2>>, 32)}
Stack_ ==
    {X("fld", <<S(64)>>), F(X("farith", <<St(0), St(1)>>), "add"), F(Popping(X("farith", <<St(1), St(0)>>), 1), "mul"),
     Popping(X("fst", <<D(64)>>), 1), X("fldcw", <<Word_>>), X("fnsave", <<>>), X("fsin", <<>>), X("fld", <<S(80)>>),
     Popping(X("fcom", <<St(0), St(1)>>), 2), Popping(X("fcomi", <<St(0), St(1)>>), 1), X("fchs", <<>>), X("fninit", <<>>)}
All_ == Various \cup Stack_
Pairs == {<<<<On(i, in), j>>>> : i \in All_, j \in All_, in \in {"mixed", "x87"}}
Linked == {<<<<On(i, in)>>, <<j>>>> : i \in All_, j \in All_, in \in {"mixed", "x87"}}

(* Saved, changed and restored, in one block and in two.                   *)
Few == {V("padd", <<Mm(1), Mm(2)>>, 32), V("movd", <<Mm(1), Reg("rax", 32)>>, 32), X("fld", <<S(64)>>),
        F(Popping(X("farith", <<St(1), St(0)>>), 1), "mul"), F(V("packed", <<X1, X2>>, 64), "add"), X("fldcw", <<Word_>>)}
SaveAndRestore == {<<V("fxsave", <<>>, 64), V("fxrstor", <<>>, 64)>>, <<X("fnsave", <<>>), X("frstor", <<>>)>>,
                   <<X("fnstenv", <<>>), X("fldenv", <<>>)>>}
Saving ==
    {<<<<On(s[1], in), i, s[2], j>>>> : s \in SaveAndRestore, i \in Few, j \in Few, in \in {"mixed", "x87"}}
      \cup {<<<<On(s[1], in), i>>, <<s[2], j>>>> : s \in SaveAndRestore, i \in Few, j \in Few, in \in {"mixed", "x87"}}
Triples == {<<<<On(i, in), j, k>>>> : i \in Few, j \in Few, k \in Few, in \in {"mixed", "x87"}}

MCPrograms == Singles \cup Pairs \cup Linked \cup Saving \cup Triples

=============================================================================
