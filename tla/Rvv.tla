--------------------------------- MODULE Rvv --------------------------------
(***************************************************************************)
(* The vector instructions of the host as functions on registers: words of *)
(* VLEN bits, of 2 VLEN bits for a group of two registers.  c is the       *)
(* configuration an instruction runs under: the width c.sew of elements,   *)
(* their number c.vl, and the number c.max of elements the registers hold. *)
(* Elements from c.vl on, and elements that a mask leaves out, keep their  *)
(* value.                                                                  *)
(***************************************************************************)
EXTENDS Integers, FiniteSetsExt

LOCAL n == INSTANCE Rv64

(* vsetivli with a group of 1/2, 1 or 2 registers.                         *)
VLMAX(sew, grouping, vlen) ==
    CASE grouping = "MF2" -> vlen \div (2 * sew)
      [] grouping = "M1" -> vlen \div sew
      [] grouping = "M2" -> (2 * vlen) \div sew
VSETIVLI(vl, sew, grouping, vlen) ==
    [sew |-> sew, vl |-> Min({vl, VLMAX(sew, grouping, vlen)}), max |-> VLMAX(sew, grouping, vlen)]

El(x, i, w) == n!Low(n!Down(x, i * w), w)
Elements(c) == 0 .. (c.vl - 1)
Put(vd, S, w, F(_)) ==
    {b \in vd : b \div w \notin S} \cup UNION {n!Up(n!Low(F(i), w), i * w) : i \in S}

(* Results element by element, under a mask and for all elements.          *)
Masked(c, vd, v0, F(_)) == Put(vd, Elements(c) \cap v0, c.sew, F)
Each(c, vd, F(_)) == Put(vd, Elements(c), c.sew, F)
Map1(c, vd, x, F(_)) == Each(c, vd, LAMBDA i : F(El(x, i, c.sew)))
Map2(c, vd, x, y, F(_, _)) == Each(c, vd, LAMBDA i : F(El(x, i, c.sew), El(y, i, c.sew)))
Masked2(c, vd, v0, x, y, F(_, _)) ==
    Masked(c, vd, v0, LAMBDA i : F(El(x, i, c.sew), El(y, i, c.sew)))
(* A mask: one bit for every element.                                      *)
Test2(c, vd, x, y, F(_, _)) ==
    (vd \ Elements(c)) \cup {i \in Elements(c) : F(El(x, i, c.sew), El(y, i, c.sew))}
VMERGE(c, vd, x, y, v0) == Each(c, vd, LAMBDA i : El(IF i \in v0 THEN y ELSE x, i, c.sew))
VMV(c, vd, x) == Each(c, vd, LAMBDA i : El(x, i, c.sew))
Splat(c, vd, a) == Each(c, vd, LAMBDA i : a)
VMV_XS(c, x) == n!Sext(El(x, 0, c.sew), c.sew)
VMV_SX(c, vd, a) == Put(vd, {0}, c.sew, LAMBDA i : a)

(* Moving elements.                                                        *)
VSLIDEUP(c, vd, x, k) == Put(vd, {i \in Elements(c) : i >= k}, c.sew, LAMBDA i : El(x, i - k, c.sew))
VSLIDEDOWN(c, vd, x, k) ==
    Each(c, vd, LAMBDA i : IF i + k < c.max THEN El(x, i + k, c.sew) ELSE {})
VSLIDE1UP(c, vd, x, a) == Each(c, vd, LAMBDA i : IF i = 0 THEN a ELSE El(x, i - 1, c.sew))
VSLIDE1DOWN(c, vd, x, a) == Each(c, vd, LAMBDA i : IF i = c.vl - 1 THEN a ELSE El(x, i + 1, c.sew))
Index(c, x, idx, i, iw) ==
    IF \E b \in El(idx, i, iw) : b >= 16 \/ 2^b >= c.max THEN {} ELSE El(x, n!Num(El(idx, i, iw)), c.sew)
VRGATHER(c, vd, x, idx) == Each(c, vd, LAMBDA i : Index(c, x, idx, i, c.sew))
VRGATHEREI16(c, vd, x, idx) == Each(c, vd, LAMBDA i : Index(c, x, idx, i, 16))
VRGATHER_masked(c, vd, v0, x, idx) == Masked(c, vd, v0, LAMBDA i : Index(c, x, idx, i, c.sew))
Before(m, i) == Cardinality({j \in m : j < i})
VIOTA(c, vd, m) == Each(c, vd, LAMBDA i : n!Word(Before(m, i), 16))
VCOMPRESS(c, vd, x, m) ==
    LET on == m \cap Elements(c)
    IN Put(vd, 0 .. (Cardinality(on) - 1), c.sew,
           LAMBDA i : El(x, CHOOSE j \in on : Before(on, j) = i, c.sew))

(* Results of twice and of half the width.                                 *)
Widening2(c, vd, x, y, F(_, _)) ==
    Put(vd, Elements(c), 2 * c.sew, LAMBDA i : F(El(x, i, c.sew), El(y, i, c.sew)))
Accumulate(c, vd, x, y, F(_, _, _)) ==
    Put(vd, Elements(c), 2 * c.sew, LAMBDA i : F(El(vd, i, 2 * c.sew), El(x, i, c.sew), El(y, i, c.sew)))
Narrowing(c, vd, x, F(_)) == Each(c, vd, LAMBDA i : F(El(x, i, 2 * c.sew)))
Extending(c, vd, x, part, F(_)) == Each(c, vd, LAMBDA i : F(El(x, i, c.sew \div part)))

(* Reductions leave their result in element 0.                             *)
Reduce(c, vd, x, start, F(_, _)) ==
    LET acc[i \in Nat] == IF i = c.vl THEN start ELSE F(acc[i + 1], El(x, i, c.sew))
    IN Put(vd, {0}, c.sew, LAMBDA i : acc[0])
ReduceUp(c, vd, x, start, F(_, _)) ==
    LET acc[i \in Nat] == IF i = 0 THEN start ELSE F(acc[i - 1], El(x, i - 1, c.sew))
    IN Put(vd, {0}, c.sew, LAMBDA i : acc[c.vl])

-----------------------------------------------------------------------------
(* Arithmetic of elements of w bits.                                       *)

SignExt(a, w, z) == n!Low(a, w) \cup (IF w - 1 \in a THEN w .. (z - 1) ELSE {})
Plus(a, b, w) == n!Low(n!Sum(a, b), w)
Minus(a, b, w) == n!Low(n!Minus(a, b), w)
LessS(a, b, w) == n!Less(n!XOR(a, {w - 1}), n!XOR(b, {w - 1}))
ClipS(a, z, w) == IF (w - 1) .. (z - 1) \subseteq a \/ a \cap ((w - 1) .. (z - 1)) = {} THEN n!Low(a, w)
                  ELSE IF z - 1 \in a THEN {w - 1} ELSE n!Bits(w - 1)
ClipU(a, w) == IF \A b \in a : b < w THEN a ELSE n!Bits(w)
AddSatS(a, b, w) == ClipS(Plus(SignExt(a, w, w + 1), SignExt(b, w, w + 1), w + 1), w + 1, w)
SubSatS(a, b, w) == ClipS(Minus(SignExt(a, w, w + 1), SignExt(b, w, w + 1), w + 1), w + 1, w)
AddSatU(a, b, w) == ClipU(n!Sum(a, b), w)
SubSatU(a, b, w) == IF n!Less(a, b) THEN {} ELSE Minus(a, b, w)
TimesS(a, b, w) == n!Low(n!Times(SignExt(a, w, 2 * w), SignExt(b, w, 2 * w)), 2 * w)
Average(a, b) == n!Down(n!Sum(n!Sum(a, b), {0}), 1)
ShiftRightS(a, k, w) == n!Low(n!Down(SignExt(a, w, 2 * w), k), w)
Absolute(a, w) == IF w - 1 \in a THEN Minus({}, a, w) ELSE a

=============================================================================
