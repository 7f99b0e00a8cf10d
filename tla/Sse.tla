--------------------------------- MODULE Sse --------------------------------
(***************************************************************************)
(* The reference for Simd: what the processor's manual says of the same    *)
(* instructions, in the same terms.  A state has the registers x.g, flags  *)
(* x.f and memory x.m, and                                                 *)
(*   x.xmm   registers of 128 bits                                         *)
(*   x.p     the eight registers that x87 and MMX share, in their physical *)
(*           order: ST(k) is register top + k, MM(k) is register k         *)
(*   x.kind  what each of them holds: a number ("f") or MMX data ("m")     *)
(*   x.top, x.cw, x.sw, x.mxcsr   top of the stack, control and status     *)
(*   x.u     flags, and x.su, bits of the status, that are undefined       *)
(*   x.area  what was last saved                                           *)
(* x87 numbers have the precision of a double: the emulator supports no    *)
(* other.                                                                  *)
(***************************************************************************)
EXTENDS Integers, Sequences, FiniteSets, TLC

CONSTANT Fp(_, _, _, _)

n == INSTANCE Rv64
v == INSTANCE Rvv
fl == INSTANCE Float

Address(x, o) ==
    LET part(r) == IF r = "none" THEN {} ELSE x.g[r]
    IN n!Low(n!Sum(n!Sum(part(o.base), n!Up(part(o.index), o.scale)), o.disp), 64)
Load(x, a, w) == {b \in n!Bits(w) : 8 * n!Num(a) + b \in x.m}
Store(x, a, d, w) ==
    LET at == 8 * n!Num(a)
    IN [x EXCEPT !.m = {b \in @ : b < at \/ b >= at + w} \cup {at + b : b \in n!Low(d, w)}]

MmxNames == <<"mm0", "mm1", "mm2", "mm3", "mm4", "mm5", "mm6", "mm7">>
StackNames == <<"st0", "st1", "st2", "st3", "st4", "st5", "st6", "st7">>
NumberOf(names, r) == (CHOOSE k \in 1 .. 8 : names[k] = r) - 1
IsMmx(o) == o.k = "vec" /\ o.w = 64
Physical(x, k) == (x.top + k) % 8
Stack(x, k) == x.p[Physical(x, k)]

Read(x, o) ==
    CASE o.k = "imm" -> o.v
      [] o.k = "mem" -> Load(x, Address(x, o), o.w)
      [] o.k = "reg" -> n!Low(x.g[o.r], o.w)
      [] o.k = "st" -> Stack(x, NumberOf(StackNames, o.r))
      [] IsMmx(o) -> x.p[NumberOf(MmxNames, o.r)]
      [] OTHER -> x.xmm[o.r]
SetStack(x, k, a) == [x EXCEPT !.p[Physical(x, k)] = a, !.kind[Physical(x, k)] = "f"]
Write(x, o, d) ==
    CASE o.k = "mem" -> Store(x, Address(x, o), d, o.w)
      [] o.k = "reg" -> [x EXCEPT !.g[o.r] = (IF o.w >= 32 THEN {} ELSE {b \in @ : b >= o.w}) \cup n!Low(d, o.w)]
      [] o.k = "st" -> SetStack(x, NumberOf(StackNames, o.r), d)
      [] IsMmx(o) -> [x EXCEPT !.p[NumberOf(MmxNames, o.r)] = n!Low(d, 64), !.kind[NumberOf(MmxNames, o.r)] = "m"]
      [] OTHER -> [x EXCEPT !.xmm[o.r] = n!Low(d, 128)]

Mode(k) == <<"rne", "rdn", "rup", "rtz">>[k + 1]
ModeSse(x) == Mode(n!Num(n!Low(n!Down(x.mxcsr, 13), 2)))
ModeX87(x) == Mode(n!Num(n!Low(n!Down(x.cw, 10), 2)))

-----------------------------------------------------------------------------
(* Vectors of N bits.                                                      *)

El(a, k, w) == v!El(a, k, w)
Vector(N, w, F(_)) == UNION {n!Up(n!Low(F(k), w), k * w) : k \in 0 .. (N \div w - 1)}
Both(N, w, a, b, F(_, _)) == Vector(N, w, LAMBDA k : F(El(a, k, w), El(b, k, w)))
Crumb(imm, k) == n!Num(n!Low(n!Down(imm, 2 * k), 2))
Signed(a, w, wide) == v!SignExt(a, w, wide)
AtMost(a, b, w) == ~v!LessS(b, a, w)
Upper(a, w) == {b \in a : b >= w}

MoveResult(i, N, a, b) ==
    CASE i.op \in {"movq", "movq2dq", "movdq2q"} -> n!Low(b, 64)
      [] i.op = "movd" -> n!Low(b, 32)
      [] i.op \in {"mov", "lddqu", "movntq"} -> b
      [] i.op = "movs" -> n!Low(b, i.w) \cup (IF i.o[1].k = "vec" /\ i.o[2].k = "vec" THEN Upper(a, i.w) ELSE {})
      [] i.op = "movhps" -> IF i.o[1].k = "mem" THEN n!Down(b, 64) ELSE n!Low(a, 64) \cup n!Up(b, 64)
      [] i.op = "movlps" -> IF i.o[1].k = "mem" THEN n!Low(b, 64) ELSE Upper(a, 64) \cup b
      [] i.op = "movhlps" -> Upper(a, 64) \cup n!Down(b, 64)
      [] i.op = "movlhps" -> n!Low(a, 64) \cup n!Up(n!Low(b, 64), 64)
      [] i.op = "movddup" -> Vector(N, 64, LAMBDA k : El(b, 0, 64))
      [] i.op = "movshdup" -> Vector(N, 32, LAMBDA k : El(b, 2 * (k \div 2) + 1, 32))
      [] i.op = "movsldup" -> Vector(N, 32, LAMBDA k : El(b, 2 * (k \div 2), 32))

Mixed(N, w, a, b, from) ==
    Vector(N, w, LAMBDA k : El(IF k % 2 = 0 THEN a ELSE b, from + k \div 2, w))
ClampU(a, w) == IF w - 1 \in a THEN {} ELSE v!ClipU(a, w \div 2)
ShuffleResult(i, N, w, a, b, imm) ==
    CASE i.op \in {"punpckl", "punpcklqdq", "unpcklps", "unpcklpd"} -> Mixed(N, w, a, b, 0)
      [] i.op \in {"punpckh", "punpckhqdq", "unpckhps", "unpckhpd"} -> Mixed(N, w, a, b, N \div (2 * w))
      [] i.op = "packus"
           -> Vector(N, w \div 2, LAMBDA k : IF k < N \div w THEN ClampU(El(a, k, w), w) ELSE ClampU(El(b, k - N \div w, w), w))
      [] i.op = "packss"
           -> Vector(N, w \div 2, LAMBDA k : v!ClipS(IF k < N \div w THEN El(a, k, w) ELSE El(b, k - N \div w, w), w, w \div 2))
      [] i.op = "pmovzx" -> Vector(N, w, LAMBDA k : El(b, k, w \div i.part))
      [] i.op = "pmovsx" -> Vector(N, w, LAMBDA k : Signed(El(b, k, w \div i.part), w \div i.part, w))
      [] i.op = "shufpd" -> El(a, IF 0 \in imm THEN 1 ELSE 0, 64) \cup n!Up(El(b, IF 1 \in imm THEN 1 ELSE 0, 64), 64)
      [] i.op \in {"pshufw", "pshufd"} -> Vector(N, w, LAMBDA k : El(b, Crumb(imm, k), w))
      [] i.op = "shufps" -> Vector(N, 32, LAMBDA k : El(IF k < 2 THEN a ELSE b, Crumb(imm, k), 32))
      [] i.op = "pshufb"
           -> Vector(N, 8, LAMBDA k : IF 7 \in El(b, k, 8) THEN {} ELSE El(a, n!Num(El(b, k, 8)) % (N \div 8), 8))
      [] i.op = "pshuflw" -> Vector(N, 16, LAMBDA k : El(b, IF k < 4 THEN Crumb(imm, k) ELSE k, 16))
      [] i.op = "pshufhw" -> Vector(N, 16, LAMBDA k : El(b, IF k < 4 THEN k ELSE 4 + Crumb(imm, k - 4), 16))
      [] i.op \in {"pblendw", "blendps", "blendpd"} -> Vector(N, w, LAMBDA k : El(IF k \in imm THEN b ELSE a, k, w))
      [] i.op = "pslldq" -> n!Up(a, 8 * n!Num(imm))
      [] i.op = "psrldq" -> n!Down(a, 8 * n!Num(imm))
      [] i.op = "palignr" -> n!Down(n!Up(a, N) \cup b, 8 * n!Num(imm))
BlendResult(N, w, a, b, mask) == Vector(N, w, LAMBDA k : El(IF w - 1 \in El(mask, k, w) THEN b ELSE a, k, w))

Shifted(i, w, a, c) ==
    CASE i.op = "psll" -> IF n!Less(c, n!Word(w, 8)) THEN n!Up(a, n!Num(c)) ELSE {}
      [] i.op = "psrl" -> IF n!Less(c, n!Word(w, 8)) THEN n!Down(a, n!Num(c)) ELSE {}
      [] i.op = "psra" -> v!ShiftRightS(a, IF n!Less(c, n!Word(w, 8)) THEN n!Num(c) ELSE w - 1, w)
Lane(op, w, a, b) ==
    CASE op = "pxor" -> n!XOR(a, b)
      [] op = "pand" -> a \cap b
      [] op = "por" -> a \cup b
      [] op = "pandn" -> b \ a
      [] op = "padd" -> n!Sum(a, b)
      [] op = "psub" -> v!Minus(a, b, w)
      [] op = "padds" -> v!AddSatS(a, b, w)
      [] op = "psubs" -> v!SubSatS(a, b, w)
      [] op = "paddsu" -> v!AddSatU(a, b, w)
      [] op = "psubsu" -> v!SubSatU(a, b, w)
      [] op = "pminu" -> IF n!Less(a, b) THEN a ELSE b
      [] op = "pmaxu" -> IF n!Less(a, b) THEN b ELSE a
      [] op = "pmins" -> IF AtMost(a, b, w) THEN a ELSE b
      [] op = "pmaxs" -> IF AtMost(a, b, w) THEN b ELSE a
      [] op = "pmulh" -> n!Down(v!TimesS(a, b, w), w)
      [] op = "pmulhu" -> n!Down(n!Times(a, b), w)
      [] op = "pmull" -> n!Times(a, b)
      [] op = "pmuludq" -> n!Times(n!Low(a, 32), n!Low(b, 32))
      [] op = "pmuldq" -> v!TimesS(n!Low(a, 32), n!Low(b, 32), 32)
      [] op = "pavg" -> n!Down(n!Sum(n!Sum(a, b), {0}), 1)
      [] op = "pcmpeq" -> IF a = b THEN n!Bits(w) ELSE {}
      [] op = "pcmpgt" -> IF v!LessS(b, a, w) THEN n!Bits(w) ELSE {}
      [] op = "psign" -> IF b = {} THEN {} ELSE IF w - 1 \in b THEN v!Minus({}, a, w) ELSE a
Distance(a, b) == IF n!Less(a, b) THEN v!Minus(b, a, 8) ELSE v!Minus(a, b, 8)
Distances(a, b, k) ==
    LET sum[j \in Nat] == IF j = 0 THEN {} ELSE n!Sum(sum[j - 1], Distance(El(a, 8 * k + j - 1, 8), El(b, 8 * k + j - 1, 8)))
    IN sum[8]
Smallest(b) == CHOOSE k \in 0 .. 7 : \A j \in 0 .. 7 : IF j < k THEN n!Less(El(b, k, 16), El(b, j, 16))
                                                              ELSE ~n!Less(El(b, j, 16), El(b, k, 16))
IntegerResult(i, N, w, a, b) ==
    CASE i.op \in {"psll", "psrl", "psra"} -> Vector(N, w, LAMBDA k : Shifted(i, w, El(a, k, w), n!Low(b, IF i.o[2].k = "imm" THEN 8 ELSE 64)))
      [] i.op = "psadbw" -> Vector(N, 64, LAMBDA k : Distances(a, b, k))
      [] i.op = "pmaddwd"
           -> Vector(N, 32, LAMBDA k : n!Sum(v!TimesS(El(a, 2 * k, 16), El(b, 2 * k, 16), 16),
                                             v!TimesS(El(a, 2 * k + 1, 16), El(b, 2 * k + 1, 16), 16)))
      [] i.op = "phminposuw" -> El(b, Smallest(b), 16) \cup n!Up(n!Word(Smallest(b), 3), 16)
      [] OTHER -> Both(N, w, a, b, LAMBDA c, d : Lane(i.op, w, c, d))

-----------------------------------------------------------------------------
(* Numbers.                                                                *)

Arith(op, a, b, w, rm) ==
    CASE op = "add" -> fl!FAdd(a, b, w, rm)
      [] op = "sub" -> fl!FSub(a, b, w, rm)
      [] op = "mul" -> fl!FMul(a, b, w, rm)
      [] op = "div" -> fl!FDiv(a, b, w, rm)
      [] op = "sqrt" -> fl!FSqrt(b, w, rm)
      [] op = "min" -> IF fl!FLess(a, b, w) THEN a ELSE b
      [] op = "max" -> IF fl!FLess(b, a, w) THEN a ELSE b
Compare(k, a, b, w) ==
    LET test == CASE k % 4 = 0 -> fl!FEq(a, b, w)
                  [] k % 4 = 1 -> fl!FLess(a, b, w)
                  [] k % 4 = 2 -> fl!FLe(a, b, w)
                  [] k % 4 = 3 -> ~fl!Ordered(a, b, w)
    IN IF test = (k < 4) THEN n!Bits(w) ELSE {}
Pairs(N, w, a, b, F(_, _)) ==
    Vector(N, w, LAMBDA k : IF k < N \div (2 * w) THEN F(El(a, 2 * k, w), El(a, 2 * k + 1, w))
                            ELSE F(El(b, 2 * k - N \div w, w), El(b, 2 * k - N \div w + 1, w)))
Product(imm, a, b, k, rm) == IF k + 4 \in imm THEN fl!FMul(El(a, k, 32), El(b, k, 32), 32, rm) ELSE {}
Dot(imm, a, b, rm) ==
    fl!FAdd(fl!FAdd(Product(imm, a, b, 0, rm), Product(imm, a, b, 1, rm), 32, rm),
            fl!FAdd(Product(imm, a, b, 2, rm), Product(imm, a, b, 3, rm), 32, rm), 32, rm)
Low_(w, a, d) == Upper(a, w) \cup n!Low(d, w)
RoundMode(imm, rm) == IF 2 \in imm THEN rm ELSE Mode(Crumb(imm, 0))
NumberResult(i, N, w, a, b, imm, rm) ==
    CASE i.op \in {"packed", "minp", "maxp"} -> Both(N, w, a, b, LAMBDA c, d : Arith(i.fn, c, d, w, rm))
      [] i.op = "scalar" -> Low_(w, a, Arith(i.fn, El(a, 0, w), El(b, 0, w), w, rm))
      [] i.op = "rcpps" -> Vector(N, 32, LAMBDA k : fl!FDiv(fl!One(32), El(b, k, 32), 32, rm))
      [] i.op = "rsqrtps" -> Vector(N, 32, LAMBDA k : fl!FDiv(fl!One(32), fl!FSqrt(El(b, k, 32), 32, rm), 32, rm))
      [] i.op = "rcpss" -> Low_(32, a, fl!FDiv(fl!One(32), El(b, 0, 32), 32, rm))
      [] i.op = "rsqrtss" -> Low_(32, a, fl!FDiv(fl!One(32), fl!FSqrt(El(b, 0, 32), 32, rm), 32, rm))
      [] i.op = "addsub"
           -> Vector(N, w, LAMBDA k : Arith(IF k % 2 = 0 THEN "sub" ELSE "add", El(a, k, w), El(b, k, w), w, rm))
      [] i.op \in {"haddpd", "haddps"} -> Pairs(N, w, a, b, LAMBDA c, d : fl!FAdd(c, d, w, rm))
      [] i.op \in {"hsubpd", "hsubps"} -> Pairs(N, w, a, b, LAMBDA c, d : fl!FSub(c, d, w, rm))
      [] i.op = "dpps" -> Vector(N, 32, LAMBDA k : IF k \in imm THEN Dot(imm, a, b, rm) ELSE {})
      [] i.op = "cmpp" -> Both(N, w, a, b, LAMBDA c, d : Compare(n!Num(imm), c, d, w))
      [] i.op \in {"cmpsd", "cmpss"} -> Low_(w, a, Compare(n!Num(imm), El(a, 0, w), El(b, 0, w), w))
      [] i.op = "round" -> Low_(w, a, fl!FRound(El(b, 0, w), w, RoundMode(imm, rm)))

(* An integer out of range becomes the least one.                          *)
ToInteger(a, w, iw, rm) == IF fl!Fits(a, w, iw, rm) THEN fl!ToInt(a, w, iw, rm) ELSE {iw - 1}
OwnMode(i, rm) == IF i.rm = "dyn" THEN rm ELSE i.rm
ConversionResult(i, N, w, a, b, rm) ==
    CASE i.op = "cvtsi2s" -> Low_(w, a, fl!FromInt(b, i.o[2].w, w, rm))
      [] i.op = "cvtts2si" -> ToInteger(El(b, 0, w), w, i.o[1].w, "rtz")
      [] i.op = "cvts2si" -> ToInteger(El(b, 0, w), w, i.o[1].w, rm)
      [] i.op = "cvtpd2ps" -> Vector(64, 32, LAMBDA k : fl!Narrow(El(b, k, 64), rm))
      [] i.op = "cvtps2pd" -> Vector(128, 64, LAMBDA k : fl!Widen(El(b, k, 32)))
      [] i.op \in {"cvtps2dq", "cvtps2pi"} -> Vector(N, 32, LAMBDA k : ToInteger(El(b, k, 32), 32, 32, OwnMode(i, rm)))
      [] i.op = "cvttps2dq" -> Vector(N, 32, LAMBDA k : ToInteger(El(b, k, 32), 32, 32, "rtz"))
      [] i.op = "cvttpd2dq" -> Vector(64, 32, LAMBDA k : ToInteger(El(b, k, 64), 64, 32, "rtz"))
      [] i.op \in {"cvtpd2dq", "cvtpd2pi"} -> Vector(64, 32, LAMBDA k : ToInteger(El(b, k, 64), 64, 32, OwnMode(i, rm)))
      [] i.op \in {"cvtdq2pd", "cvtpi2pd"} -> Vector(128, 64, LAMBDA k : fl!FromInt(El(b, k, 32), 32, 64, rm))
      [] i.op = "cvtdq2ps" -> Vector(128, 32, LAMBDA k : fl!FromInt(El(b, k, 32), 32, 32, rm))
      [] i.op = "cvtpi2ps" -> Low_(64, a, Vector(64, 32, LAMBDA k : fl!FromInt(El(b, k, 32), 32, 32, rm)))
      [] i.op = "cvtss2sd" -> Low_(64, a, fl!Widen(El(b, 0, 32)))
      [] i.op = "cvtsd2ss" -> Low_(32, a, fl!Narrow(El(b, 0, 64), rm))

-----------------------------------------------------------------------------
(* Single elements, signs, flags.                                          *)

ElementResult(i, N, w, a, b, imm) ==
    CASE i.op = "pinsr" -> Vector(N, w, LAMBDA k : IF k = n!Num(imm) % (N \div w) THEN b ELSE El(a, k, w))
      [] i.op = "pextr" -> El(b, n!Num(imm) % (i.o[2].w \div w), w)
      [] i.op = "extractps" -> El(b, Crumb(imm, 0), 32)
      [] i.op = "insertps"
           -> Vector(N, 32, LAMBDA k : IF k \in imm THEN {}
                                       ELSE IF k = Crumb(imm, 2) THEN El(b, IF i.o[2].k = "mem" THEN 0 ELSE Crumb(imm, 3), 32)
                                       ELSE El(a, k, 32))
      [] i.op \in {"pmovmskb", "movmskps", "movmskpd"}
           -> {k \in 0 .. (i.o[2].w \div w - 1) : w - 1 \in El(b, k, w)}

Truth(c) == n!Bool(c)
Know(x, new) ==
    [x EXCEPT !.f = [k \in DOMAIN new |-> Truth(new[k])] @@ @, !.u = @ \ DOMAIN new]
CompareInto(x, a, b, w) ==
    Know(x, [zf |-> ~fl!FLess(a, b, w) /\ ~fl!FLess(b, a, w), cf |-> ~fl!FLe(b, a, w), pf |-> ~fl!Ordered(a, b, w)])
Comis(x, a, b, w) == Know(CompareInto(x, a, b, w), [of |-> FALSE, sf |-> FALSE, af |-> FALSE])
Ptest(x, a, b) ==
    Know(x, [zf |-> a \cap b = {}, cf |-> b \ a = {}, of |-> FALSE, sf |-> FALSE, af |-> FALSE, pf |-> FALSE])

(* String comparison: element k of the first string against element j of   *)
(* the second, with pairs beyond the ends settled by the kind.             *)
Ends(a, w) == {k \in 0 .. (128 \div w - 1) : \E j \in 0 .. k : El(a, j, w) = {}}
Matches(kind, w, signed, dn, sn, a, b, k, j) ==
    LET c == El(a, k, w)
        d == El(b, j, w)
        le(p, q) == IF signed THEN AtMost(p, q, w) ELSE ~n!Less(q, p)
    IN CASE k < dn /\ j < sn -> IF kind = 1 THEN (IF k % 2 = 0 THEN le(c, d) ELSE le(d, c)) ELSE c = d
         [] k >= dn /\ j >= sn -> kind \in {2, 3}
         [] k >= dn /\ j < sn -> kind = 3
         [] OTHER -> FALSE
Aggregated(kind, N, M(_, _)) ==
    CASE kind = 0 -> {j \in 0 .. (N - 1) : \E k \in 0 .. (N - 1) : M(k, j)}
      [] kind = 1 -> {j \in 0 .. (N - 1) : \E k \in 0 .. (N \div 2 - 1) : M(2 * k, j) /\ M(2 * k + 1, j)}
      [] kind = 2 -> {j \in 0 .. (N - 1) : M(j, j)}
      [] kind = 3 -> {j \in 0 .. (N - 1) : \A k \in 0 .. (N - 1 - j) : M(k, j + k)}
Polarity(p, N, sn, r) ==
    CASE p \in {0, 2} -> r
      [] p = 1 -> 0 .. (N - 1) \ r
      [] p = 3 -> n!XOR(r, 0 .. (sn - 1))
StringResult(x, i, imm, w, N, dn, sn, r) ==
    LET y == Know(x, [cf |-> r # {}, zf |-> sn < N, sf |-> dn < N, of |-> 0 \in r, af |-> FALSE, pf |-> FALSE])
        pick == IF 6 \in imm THEN CHOOSE j \in r : \A k \in r : k <= j ELSE CHOOSE j \in r : \A k \in r : j <= k
    IN IF i.index THEN [y EXCEPT !.g["rcx"] = n!Word(IF r = {} THEN N ELSE pick, 5)]
       ELSE [y EXCEPT !.xmm["xmm0"] = IF 6 \in imm THEN Vector(128, w, LAMBDA k : IF k \in r THEN n!Bits(w) ELSE {}) ELSE r]
ImplicitLength(a, w, N) == N - Cardinality(Ends(a, w))
Strings(x, i, imm, w, N, a, b, dn, sn) ==
    StringResult(x, i, imm, w, N, dn, sn,
                 Polarity(Crumb(imm, 2), N, sn,
                          Aggregated(Crumb(imm, 1), N,
                                     LAMBDA k, j : Matches(Crumb(imm, 1), w, 1 \in imm, dn, sn, a, b, k, j))))
Pcmpstr(x, i, imm, w, N, a, b) ==
    IF i.implicit THEN Strings(x, i, imm, w, N, a, b, ImplicitLength(a, w, N), ImplicitLength(b, w, N))
    ELSE Strings(x, i, imm, w, N, a, b, n!Num(n!Low(x.g["rax"], 16)), n!Num(n!Low(x.g["rdx"], 16)))

-----------------------------------------------------------------------------
(* x87.  The condition bits of the status word.                            *)

Codes == {8, 9, 10, 14}
Forget(x) == [x EXCEPT !.su = Codes]
Conditions(x, codes) == [x EXCEPT !.sw = (@ \ Codes) \cup codes, !.su = {}]
Push(x, a) == SetStack([x EXCEPT !.top = (@ + 7) % 8], 0, a)
Pop(x, count) == [x EXCEPT !.top = (@ + count) % 8]
Ordering(a, b) ==
    CASE ~fl!Ordered(a, b, 64) -> {8, 10, 14}
      [] fl!FLess(a, b, 64) -> {8}
      [] fl!FEq(a, b, 64) -> {14}
      [] OTHER -> {}
Class(a) ==
    (IF 63 \in a THEN {9} ELSE {}) \cup
    (CASE fl!IsNaN(a, 64) -> {8} [] fl!IsInf(a, 64) -> {8, 10} [] fl!IsZero(a, 64) -> {14}
       [] fl!Exponent(a, 64) = 0 -> {10, 14} [] OTHER -> {10})
Extended(a) ==
    (IF 63 \in a THEN {79} ELSE {}) \cup
    (CASE fl!IsZero(a, 64) -> {}
       [] fl!Exponent(a, 64) = 2047 -> (64 .. 78) \cup {63} \cup n!Up(n!Low(a, 52), 11)
       [] OTHER -> n!Up(n!Word(fl!Exponent(a, 64) + 15360, 15), 64) \cup {63} \cup n!Up(n!Low(a, 52), 11))
Double(d) == CHOOSE a \in {n!Down(n!Low(d, 63), 11) \cup n!Up(n!Word(k, 11), 52) \cup s
                           : k \in {(n!Num(n!Low(n!Down(d, 64), 15)) + 17408) % 4096}, s \in {{}, {63}}} : Extended(a) = d
FromMemory(x, o) ==
    CASE o.k = "st" -> Read(x, o)
      [] o.w = 32 -> fl!Widen(Read(x, o))
      [] o.w = 64 -> Read(x, o)
      [] o.w = 80 -> IF n!Low(Read(x, o), 79) = {} THEN n!Down(Read(x, o), 16) ELSE Double(Read(x, o))
ToOperand(x, o, a) ==
    CASE o.k = "st" -> Write(x, o, a)
      [] o.w = 32 -> Write(x, o, fl!Narrow(a, ModeX87(x)))
      [] o.w = 64 -> Write(x, o, a)
      [] o.w = 80 -> Write(x, o, Extended(a))
Swapped(i, a, b, rm) == IF i.rev THEN Arith(i.fn, b, a, 64, rm) ELSE Arith(i.fn, a, b, 64, rm)
Holds(x, fn) ==
    CASE fn = "b" -> x.f.cf # {}
      [] fn = "e" -> x.f.zf # {}
      [] fn = "be" -> x.f.cf # {} \/ x.f.zf # {}
      [] fn = "u" -> x.f.pf # {}
      [] fn = "nb" -> x.f.cf = {}
      [] fn = "ne" -> x.f.zf = {}
      [] fn = "nbe" -> x.f.cf = {} /\ x.f.zf = {}
      [] fn = "nu" -> x.f.pf = {}
ConditionFlags(fn) == CASE fn \in {"b", "nb"} -> {"cf"} [] fn \in {"e", "ne"} -> {"zf"}
                        [] fn \in {"u", "nu"} -> {"pf"} [] OTHER -> {"cf", "zf"}
OnStack(x, i, rm) ==
    CASE i.op = "fld" -> Push(x, FromMemory(x, i.o[1]))
      [] i.op = "fild" -> Push(x, fl!FromInt(Read(x, i.o[1]), i.o[1].w, 64, rm))
      [] i.op = "fst" -> Pop(ToOperand(x, i.o[1], Stack(x, 0)), i.pop)
      [] i.op = "fist"
           -> Pop(Write(x, i.o[1], ToInteger(Stack(x, 0), 64, i.o[1].w, OwnMode(i, rm))), i.pop)
      [] i.op = "fxch" -> SetStack(Write(x, i.o[2], Stack(x, 0)), 0, Read(x, i.o[2]))
      [] i.op = "farith"
           -> IF i.o[1].k = "mem" THEN SetStack(x, 0, Swapped(i, Stack(x, 0), FromMemory(x, i.o[1]), rm))
              ELSE Pop(Write(x, i.o[1], Swapped(i, Read(x, i.o[1]), Read(x, i.o[2]), rm)), i.pop)
      [] i.op = "fiarith" -> SetStack(x, 0, Swapped(i, Stack(x, 0), fl!FromInt(Read(x, i.o[1]), i.o[1].w, 64, rm), rm))
      [] i.op = "fsqrt" -> SetStack(x, 0, fl!FSqrt(Stack(x, 0), 64, rm))
      [] i.op = "fchs" -> SetStack(x, 0, fl!FNeg(Stack(x, 0), 64))
      [] i.op = "fabs" -> SetStack(x, 0, fl!FAbs(Stack(x, 0), 64))
      [] i.op = "frndint" -> SetStack(x, 0, fl!FRound(Stack(x, 0), 64, rm))
      [] i.op = "fldconst"
           -> Push(x, CASE i.fn = "z" -> {} [] i.fn = "1" -> fl!One(64) [] OTHER -> Fp("constant", <<i.fn>>, 64, "rne"))
      [] i.op = "fcmov" -> IF Holds(x, i.fn) THEN SetStack(x, 0, Read(x, i.o[2])) ELSE x
      [] i.op = "fsin" -> SetStack(x, 0, Fp("sin", <<Stack(x, 0)>>, 64, rm))
      [] i.op = "fcos" -> SetStack(x, 0, Fp("cos", <<Stack(x, 0)>>, 64, rm))
      [] i.op = "fptan" -> Push(SetStack(x, 0, Fp("tan", <<Stack(x, 0)>>, 64, rm)), fl!One(64))
      [] i.op = "fpatan" -> Pop(SetStack(x, 1, Fp("atan2", <<Stack(x, 1), Stack(x, 0)>>, 64, rm)), 1)
      [] i.op = "f2xm1" -> SetStack(x, 0, Fp("2xm1", <<Stack(x, 0)>>, 64, rm))
      [] i.op = "fscale" -> SetStack(x, 0, IF fl!IsZero(Stack(x, 0), 64) THEN Stack(x, 0) ELSE Fp("scale", <<Stack(x, 0), Stack(x, 1)>>, 64, rm))
      [] i.op = "fyl2x" -> Pop(SetStack(x, 1, Fp("yl2x", <<Stack(x, 1), Stack(x, 0)>>, 64, rm)), 1)
      [] i.op = "fyl2xp1" -> Pop(SetStack(x, 1, Fp("yl2xp1", <<Stack(x, 1), Stack(x, 0)>>, 64, rm)), 1)

Far(a, b) == fl!Exponent(a, 64) - fl!Exponent(b, 64) >= 64
Remainder(x, a, b, rm) ==
    IF Far(a, b) THEN [SetStack(x, 0, Fp("partial", <<a, b>>, 64, rm)) EXCEPT !.sw = (@ \ Codes) \cup {10}, !.su = Codes \ {10}]
    ELSE Conditions(SetStack(x, 0, Fp("rem", <<a, b>>, 64, rm)),
                    LET q == Fp("quotient", <<a, b>>, 64, "rtz")
                    IN {IF k = 0 THEN 9 ELSE IF k = 1 THEN 14 ELSE 8 : k \in q \cap 0 .. 2})
Status(x) == (x.sw \ {11, 12, 13}) \cup n!Up(n!Word(x.top, 3), 11)
Initial == [cw |-> {0, 1, 2, 3, 4, 5, 6, 8, 9}, sw |-> {}, top |-> 0]
Saved(x) == [cw |-> x.cw, sw |-> x.sw, top |-> x.top, p |-> x.p, kind |-> x.kind, su |-> x.su]
With(x, r) == [k \in DOMAIN x |-> IF k \in DOMAIN r THEN r[k] ELSE x[k]]
Environment(x) == [k \in {"cw", "sw", "top", "su"} |-> x[k]]
State87(x, i) ==
    CASE i.op = "fcomi" -> Pop(CompareInto([x EXCEPT !.u = @ \cup {"of", "sf", "af"}], Stack(x, 0), Read(x, i.o[2]), 64), i.pop)
      [] i.op = "fcom"
           -> Pop(Conditions(x, Ordering(Stack(x, 0), FromMemory(x, i.o[IF i.o[1].k = "st" /\ i.o[1].r = "st0" THEN 2 ELSE 1]))), i.pop)
      [] i.op = "fxam" -> Conditions(x, Class(Stack(x, 0)))
      [] i.op = "fprem" -> Remainder(x, Stack(x, 0), Stack(x, 1), ModeX87(x))
      [] i.op = "fnstcw" -> Write(x, i.o[1], x.cw)
      [] i.op = "fldcw" -> [x EXCEPT !.cw = Read(x, i.o[1])]
      [] i.op = "fninit" -> With(x, Initial)
      [] i.op = "fnstsw" -> Write(x, i.o[1], Status(x))
      [] i.op = "fnstenv" -> [x EXCEPT !.area = With(@, Environment(x))]
      [] i.op = "fldenv" -> With(x, Environment(x.area))
      [] i.op = "fnsave" -> With([x EXCEPT !.area = With(@, Saved(x))], Initial)
      [] i.op = "frstor" -> With(x, Saved(x.area))
      [] OTHER -> Forget(OnStack(x, i, ModeX87(x)))

-----------------------------------------------------------------------------
(* The new state after an instruction.                                     *)

Moves == {"movq", "movd", "mov", "movntq", "lddqu", "movs", "movhps", "movlps", "movhlps", "movlhps", "movq2dq",
          "movdq2q", "movddup", "movshdup", "movsldup"}
Shuffles == {"punpckl", "punpckh", "punpcklqdq", "punpckhqdq", "unpcklps", "unpckhps", "unpcklpd", "unpckhpd", "packus",
             "packss", "pmovzx", "pmovsx", "shufpd", "pshufw", "pshufd", "shufps", "pshufb", "pshuflw", "pshufhw",
             "pblendw", "blendps", "blendpd", "pslldq", "psrldq", "palignr"}
Picking == {"pinsr", "pextr", "extractps", "insertps", "pmovmskb", "movmskps", "movmskpd"}
Numeric == {"packed", "scalar", "rcpps", "rcpss", "rsqrtps", "rsqrtss", "minp", "maxp", "addsub", "haddpd", "hsubpd",
            "haddps", "hsubps", "dpps", "cmpp", "cmpsd", "cmpss", "round"}
Converting == {"cvtsi2s", "cvtts2si", "cvts2si", "cvtpd2ps", "cvtps2pd", "cvtps2dq", "cvttps2dq", "cvttpd2dq",
               "cvtpd2dq", "cvtdq2pd", "cvtdq2ps", "cvtpi2pd", "cvtpd2pi", "cvtpi2ps", "cvtps2pi", "cvtss2sd", "cvtsd2ss"}
Value(x, i, N, a, b, imm) ==
    CASE i.op \in Moves -> MoveResult(i, N, a, b)
      [] i.op \in Shuffles -> ShuffleResult(i, N, i.w, a, b, imm)
      [] i.op \in Picking -> ElementResult(i, N, i.w, a, b, imm)
      [] i.op \in Numeric -> NumberResult(i, N, i.w, a, b, imm, ModeSse(x))
      [] i.op \in Converting -> ConversionResult(i, N, i.w, a, b, ModeSse(x))
      [] i.op = "pblendv" -> BlendResult(N, i.w, a, b, x.xmm["xmm0"])
      [] OTHER -> IntegerResult(i, N, i.w, a, b)
Effect(x, i, a, b, imm) ==
    CASE i.op = "ptest" -> Ptest(x, a, b)
      [] i.op = "comis" -> Comis(x, El(a, 0, i.w), El(b, 0, i.w), i.w)
      [] i.op = "pcmpxstrx" -> Pcmpstr(x, i, imm, IF 0 \in imm THEN 16 ELSE 8, IF 0 \in imm THEN 8 ELSE 16, a, b)
      [] i.op = "ldmxcsr" -> [x EXCEPT !.mxcsr = a]
      [] i.op = "stmxcsr" -> Write(x, i.o[1], x.mxcsr)
      [] i.op = "fxsave" -> [x EXCEPT !.area = With(@, Saved(x) @@ [mxcsr |-> x.mxcsr, xmm |-> x.xmm])]
      [] i.op = "fxrstor" -> With(x, x.area)
      [] i.op = "cpuid" -> [x EXCEPT !.g["rax"] = n!One]
      [] i.op = "syscall" -> [x EXCEPT !.g["rax"] = {}, !.g["rcx"] = i.next]
      [] i.op = "emms" -> x
      [] OTHER -> Write(x, i.o[1], Value(x, i, i.o[1].w, a, b, imm))

UsesMmx(i) == \E k \in 1 .. Len(i.o) : IsMmx(i.o[k])
Operand(x, i, k) == IF k <= Len(i.o) THEN Read(x, i.o[k]) ELSE {}
ImmediateOf(i) == IF i.o # <<>> /\ i.o[Len(i.o)].k = "imm" THEN n!Low(i.o[Len(i.o)].v, 8) ELSE {}
Execute(x, i) ==
    IF i.isa = "x87" THEN State87(x, i)
    ELSE Effect(IF UsesMmx(i) THEN [x EXCEPT !.top = 0] ELSE x, i, Operand(x, i, 1), Operand(x, i, 2), ImmediateOf(i))

=============================================================================
