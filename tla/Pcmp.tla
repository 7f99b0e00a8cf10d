-------------------------------- MODULE Pcmp --------------------------------
(***************************************************************************)
(* PCMPISTRI, PCMPISTRM, PCMPESTRI and PCMPESTRM, computed by the host on  *)
(* the stored registers.  The control byte selects the elements, how they  *)
(* are compared and what becomes of the result.  i.implicit tells that     *)
(* strings end at a zero, i.index that the result is an index.             *)
(***************************************************************************)
EXTENDS X87Handlers

Width(control) == IF 0 \in control THEN 16 ELSE 8
Numbers(control) == 128 \div Width(control)
Field(control, k) == as!Num(as!Low(as!Down(control, k), 2))
Mode(control) == <<"any", "ranges", "each", "ordered">>[Field(control, 2) + 1]
NotAbove(a, b, control) ==
    IF 1 \in control THEN ~rv!LessS(b, a, Width(control)) ELSE ~as!Less(b, a)

(* Lengths: up to the first zero, or as in eax and edx.                    *)
ImplicitLength(x, w) ==
    CHOOSE n \in 0 .. (128 \div w) : /\ n = 128 \div w \/ rv!El(x, n, w) = {}
                                     /\ \A k \in 0 .. (n - 1) : rv!El(x, k, w) # {}
LengthOf(s, i, x, r, control) ==
    IF i.implicit THEN ImplicitLength(x, Width(control)) ELSE as!Num(as!Low(s.g[r], 16))

BoolRes(mode, control, i, a, b) ==
    CASE mode = "ranges" /\ i % 2 = 0 -> NotAbove(a, b, control)
      [] mode = "ranges" /\ i % 2 = 1 -> NotAbove(b, a, control)
      [] OTHER -> a = b

(* A slip: beyond the end of both strings nothing is equal.                *)
overrideIfInvalidAlways(mode, dstinv, srcinv, equal) == ~dstinv /\ ~srcinv /\ equal

overrideIfInvalid(mode, dstinv, srcinv, equal) ==
    CASE ~dstinv /\ ~srcinv -> equal
      [] mode = "each" -> dstinv /\ srcinv
      [] mode = "ordered" -> dstinv
      [] OTHER -> FALSE

(* Whether element i of dst, dlen long, fits element j of src.             *)
Fit(mode, control, dst, src, dlen, slen, i, j) ==
    overrideIfInvalid(mode, i >= dlen, j >= slen,
                      BoolRes(mode, control, i, rv!El(dst, i, Width(control)), rv!El(src, j, Width(control))))
intres1(mode, n, slen, dlen, F(_, _)) ==
    CASE mode = "any" -> {j \in 0 .. (n - 1) : \E i \in 0 .. (n - 1) : F(i, j)}
      [] mode = "ranges" -> {j \in 0 .. (n - 1) : \E i \in 0 .. (n - 1) : i % 2 = 0 /\ F(i, j) /\ F(i + 1, j)}
      [] mode = "each" -> {j \in 0 .. (n - 1) : F(j, j)}
      [] mode = "ordered" -> {j \in 0 .. (slen - 1) : \A i \in 0 .. (dlen - 1) : j + i < slen => F(i, j + i)}
intres2(polarity, n, slen, res) ==
    CASE polarity = 1 -> 0 .. (n - 1) \ res
      [] polarity = 3 -> {j \in 0 .. (n - 1) : (j \in res) # (j < slen)}
      [] OTHER -> res \cap 0 .. (n - 1)

Highest(res) == CHOOSE j \in res : \A k \in res : k <= j
Lowest(res) == CHOOSE j \in res : \A k \in res : k >= j
IndexIn(control, res) ==
    as!Word(IF res = {} THEN Numbers(control) ELSE IF 6 \in control THEN Highest(res) ELSE Lowest(res), 5)
MaskOf(control, res) ==
    IF 6 \in control THEN UNION {as!Up(as!Bits(Width(control)), j * Width(control)) : j \in res} ELSE res
StringFlags(n, slen, dlen, res) ==
    [cf |-> as!Bool(res # {}), zf |-> as!Bool(slen < n), sf |-> as!Bool(dlen < n), of |-> as!Bool(0 \in res),
     af |-> as!Zero, pf |-> as!Zero]
Answer(s, i, control, slen, dlen, res) ==
    IF i.index THEN SetFlags([s EXCEPT !.g["rcx"] = IndexIn(control, res)], StringFlags(Numbers(control), slen, dlen, res))
    ELSE SetFlags([s EXCEPT !.v["xmm0"] = MaskOf(control, res)], StringFlags(Numbers(control), slen, dlen, res))
pcmpxstrx_impl(s, i, control, dst, src, dlen, slen) ==
    Answer(s, i, control, slen, dlen,
           intres2(Field(control, 4), Numbers(control), slen,
                   intres1(Mode(control), Numbers(control), slen, dlen,
                           LAMBDA k, j : Fit(Mode(control), control, dst, src, dlen, slen, k, j))))
felix86_pcmpxstrx(s, i, control, dst, src) ==
    pcmpxstrx_impl(s, i, control, dst, src,
                   LengthOf(s, i, dst, "rax", control), LengthOf(s, i, src, "rdx", control))
(* The registers of the first three arguments are those of rdi, rsi and    *)
(* rdx.  They are loaded before the address of a memory operand is         *)
(* computed; e.state is the address of the ThreadState.                    *)
PcmpType(i) == as!Bool(~i.index) \cup (IF i.implicit THEN {} ELSE {1})
Arguments(s, i, e) == [s EXCEPT !.g = [@ EXCEPT !["rdi"] = e.state, !["rsi"] = PcmpType(i), !["rdx"] = e.state]]
PcmpSource(s, i, e) ==
    IF i.o[2].k = "vec" THEN as!Low(s.v[i.o[2].r], 128) ELSE readMemory(s, lea(Arguments(s, i, e), i.o[2]), 128)
PCMPXSTRX(s, i, e) ==
    Called(felix86_pcmpxstrx(s, i, as!Low(i.o[3].v, 8), as!Low(s.v[i.o[1].r], 128), PcmpSource(s, i, e)), e)

=============================================================================
