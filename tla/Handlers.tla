------------------------------ MODULE Handlers ------------------------------
(***************************************************************************)
(* The handlers that translate x86-64 integer instructions.  A handler     *)
(* emits host instructions; here it is the function these instructions     *)
(* compute, from the state s of the guest to its next state:               *)
(*   s.g    the guest's registers      s.f    its flags, each in a register*)
(*   s.m    its memory (bit 8a+k is    s.df   the direction flag           *)
(*          bit k of the byte at a)    s.rip  where it continues           *)
(* and s.id, s.ac, the bits of the flags register programs may toggle.     *)
(* i is the instruction: its name i.op, operands i.o, operand width i.w,   *)
(* prefixes i.lock and i.rep, condition i.cond, and the addresses i.next   *)
(* after it and i.target of its jump.  An operand has a kind k ("reg",     *)
(* "mem" or "imm"), a width w, and                                         *)
(*   a register r, hi if it is one of ah, ch, dh and bh;                   *)
(*   the registers base and index, the scale and the displacement disp;    *)
(*   an immediate v, sign extended to 64 bits.                             *)
(* e is what the translator knows: the host has the B extension (e.B), the *)
(* option noflag_opts (e.opts), the flags for which shouldEmitFlag holds   *)
(* (e.emit), and the address of the block (e.block).  Code for 32-bit      *)
(* guests, segments and the Zabha and Zacas extensions is left out.        *)
(***************************************************************************)
EXTENDS Integers, Sequences, TLC

as == INSTANCE Rv64

Flags == {"cf", "pf", "af", "zf", "sf", "of"}

zext(x, w) == as!Low(x, w)
Bit(x, b) == as!Bool(b \in x)

-----------------------------------------------------------------------------
(* Operands.                                                               *)

Base(s, r) == IF r = "none" THEN as!Zero ELSE s.g[r]
lea(s, o) == as!ADD(as!ADD(Base(s, o.base), as!SLLI(Base(s, o.index), o.scale)), o.disp)

readMemory(s, a, w) ==
    LET b == 8 * as!Num(a) IN as!Down(s.m \cap (b .. (b + w - 1)), b)
writeMemory(s, a, x, w) ==
    LET b == 8 * as!Num(a)
    IN [s EXCEPT !.m = (@ \ (b .. (b + w - 1))) \cup as!Up(zext(x, w), b)]

getGPRRef(s, r, w) == zext(s.g[r], w)
getGPR(s, o) ==
    CASE o.k = "reg" -> IF o.hi THEN zext(as!SRLI(s.g[o.r], 8), 8) ELSE getGPRRef(s, o.r, o.w)
      [] o.k = "mem" -> readMemory(s, lea(s, o), o.w)
      [] o.k = "imm" -> o.v

(* A byte or a word is merged into the register, a double word clears the  *)
(* upper half.  The second byte is rotated to the bottom where B allows.   *)
HighByte(e, dest, x) ==
    IF e.B THEN as!RORI(as!OR(as!ANDN(as!RORI(dest, 8), as!Bits(8)), zext(x, 8)), 56)
    ELSE as!OR(as!ANDN(dest, 8 .. 15), as!AND(as!SLLI(x, 8), 8 .. 15))

(* A slip: a double word is merged like a byte.                            *)
setGPRRefMerged(s, r, w, x) ==
    [s EXCEPT !.g[r] = as!OR(as!ANDN(@, as!Bits(w)), zext(x, w))]

setGPRRef(s, r, w, x) ==
    [s EXCEPT !.g[r] = IF w < 32 THEN as!OR(as!ANDN(@, as!Bits(w)), zext(x, w)) ELSE zext(x, w)]
setGPR(s, e, o, x) ==
    IF o.k = "mem" THEN writeMemory(s, lea(s, o), x, o.w)
    ELSE IF o.hi THEN [s EXCEPT !.g[o.r] = HighByte(e, @, x)]
    ELSE setGPRRef(s, o.r, o.w, x)

-----------------------------------------------------------------------------
(* Flags.  A handler computes the flags it was told to emit, and leaves    *)
(* what the register or the ThreadState holds for the others.              *)

Emit(s, e, new) ==
    [s EXCEPT !.f = [fl \in Flags |-> IF fl \in e.emit \cap DOMAIN new THEN new[fl] ELSE @[fl]]]

(* Of the low byte, by CPOP or by folding it three times.                  *)
updateParity(res) == as!Bool(as!CPOP(zext(res, 8)) % 2 = 0)
updateZero(res, w) == as!SEQZ(zext(res, w))
updateSign(res, w) == Bit(res, w - 1)
ResultFlags(res, w) ==
    [pf |-> updateParity(res), zf |-> updateZero(res, w), sf |-> updateSign(res, w)]

TopBitsDiffer(x, w) == as!Bool((w - 1 \in x) # (w - 2 \in x))
updateOverflowAdd(lhs, rhs, res, w) ==
    TopBitsDiffer(as!OR(as!AND(as!NOT(res), as!OR(lhs, rhs)), as!AND(lhs, rhs)), w)
updateOverflowSub(lhs, rhs, res, w) ==
    TopBitsDiffer(as!OR(as!AND(res, as!OR(as!NOT(lhs), rhs)), as!AND(as!NOT(lhs), rhs)), w)

Nibble(x) == zext(x, 4)
updateAuxiliaryAdd(lhs, res) == as!SLTU(Nibble(res), Nibble(lhs))
updateAuxiliarySub(lhs, rhs) == as!SLTU(Nibble(lhs), Nibble(rhs))
updateAuxiliaryAdc(lhs, res, cf, res2) ==
    as!OR(updateAuxiliaryAdd(lhs, res), as!SLTU(Nibble(res2), cf))
updateAuxiliarySbb(lhs, rhs, res, cf) ==
    as!OR(updateAuxiliarySub(lhs, rhs), as!SLTU(Nibble(res), cf))

updateCarryAdd(lhs, res, w) == as!SLTU(zext(res, w), lhs)
updateCarrySub(lhs, rhs) == as!SLTU(lhs, rhs)

AddFlags(lhs, rhs, res, w) ==
    ResultFlags(res, w) @@
    [cf |-> updateCarryAdd(lhs, res, w), af |-> updateAuxiliaryAdd(lhs, res),
     of |-> updateOverflowAdd(lhs, rhs, res, w)]

(* A slip: the carry of the second addition is forgotten.                  *)
updateCarryOnce(lhs, res, res2, w, cf) == updateCarryAdd(lhs, res, w)

updateCarryAdc(lhs, res, res2, w, cf) ==
    as!OR(updateCarryAdd(lhs, res, w), as!SLTU(zext(res2, w), cf))

(* The flags of dst - src.  An immediate was sign extended: the borrow     *)
(* needs it in the width of the operation.                                 *)
Subtrahend(i, src) ==
    IF i.o[2].k = "imm" /\ i.o[1].w # 64 THEN zext(src, i.o[1].w) ELSE src
SetCmpFlags(s, e, dst, src, res, w, test) ==
    Emit(s, e, ResultFlags(res, w) @@
               [cf |-> updateCarrySub(dst, test), af |-> updateAuxiliarySub(dst, src),
                of |-> updateOverflowSub(dst, src, res, w)])

-----------------------------------------------------------------------------
(* Addition, subtraction and logic.                                        *)

(* Without flags an operation on part of a register is done at the top of  *)
(* the rotated register, where its carry is lost.                          *)
OP_noflags_destreg(s, i, F64(_, _), F32(_, _)) ==
    LET d == i.o[1]
        o == i.o[2]
        dst == s.g[d.r]
        src == IF o.k = "reg" THEN s.g[o.r] ELSE getGPR(s, o)
        AtTop(w, turn, x) == as!RORI(F64(as!RORI(dst, turn), as!SLLI(x, 64 - w)), 64 - turn)
        Low8 == IF o.k = "reg" /\ o.hi THEN as!SRLI(src, 8) ELSE src
    IN [s EXCEPT !.g[d.r] =
          CASE i.w = 8 -> AtTop(8, IF d.hi THEN 16 ELSE 8, Low8)
            [] i.w = 16 -> AtTop(16, 16, src)
            [] i.w = 32 -> zext(F32(dst, src), 32)
            [] i.w = 64 -> F64(dst, src)]
NoFlags(e, i, flags) == e.B /\ e.opts /\ e.emit \cap flags = {} /\ i.o[1].k = "reg"

(* What a LOCK form leaves in the register that holds the old value: the   *)
(* atomic operations extend the sign.  ADD reuses the register of the      *)
(* address for the shifted operand before it shifts the old value back.    *)
Atomic(i) == i.lock /\ i.o[1].k = "mem"
OldValue(i, dst) ==
    IF Atomic(i) /\ i.o[1].w \in {32, 64} THEN as!Sext(dst, i.o[1].w) ELSE dst
OldValueAdd(s, i, dst, src, a) ==
    LET d == i.o[1]
        word == as!Sext(readMemory(s, as!ANDN(a, as!Bits(2)), 32), 32)
        back == as!SRLW(word, as!SLLW(src, as!SLLI(a, 3)))
    IN IF ~Atomic(i) \/ d.w \in {32, 64} THEN OldValue(i, dst)
       ELSE IF d.w = 8 THEN zext(back, 8) ELSE as!Sext(back, 16)

ADD(s, i, e, dst, src) ==
    LET d == i.o[1]
        old == OldValueAdd(s, i, dst, src, lea(s, d))
    IN IF NoFlags(e, i, Flags) THEN OP_noflags_destreg(s, i, as!ADD, as!ADDW)
       ELSE setGPR(Emit(s, e, AddFlags(old, src, as!ADD(old, src), d.w)), e, d, as!ADD(dst, src))

SUB(s, i, e, dst, src) ==
    LET d == i.o[1]
        old == OldValue(i, dst)
        res == as!SUB(old, src)
    IN IF NoFlags(e, i, Flags) THEN OP_noflags_destreg(s, i, as!SUB, as!SUBW)
       ELSE setGPR(SetCmpFlags(s, e, old, src, res, d.w, Subtrahend(i, src)), e, d, res)

CMP(s, i, e, dst, src) ==
    SetCmpFlags(s, e, dst, src, as!SUB(dst, src), i.o[1].w, Subtrahend(i, src))

ADC(s, i, e, dst, src) ==
    LET d == i.o[1]
        cf == s.f.cf
        res == as!ADD(dst, src)
        res2 == as!ADD(res, cf)
        new == ResultFlags(res2, d.w) @@
               [cf |-> updateCarryAdc(dst, res, res2, d.w, cf),
                af |-> updateAuxiliaryAdc(dst, res, cf, res2),
                of |-> updateOverflowAdd(dst, src, res2, d.w)]
    IN setGPR(Emit(s, e, new), e, d, res2)

SBB(s, i, e, dst, src) ==
    LET d == i.o[1]
        cf == s.f.cf
        res == as!SUB(dst, src)
        res2 == as!SUB(res, cf)
        over(x, y) == Bit(as!AND(x, y), d.w - 1)
        new == ResultFlags(res2, d.w) @@
               [cf |-> as!OR(as!SLTU(zext(res, d.w), cf), as!SLTU(dst, Subtrahend(i, src))),
                af |-> updateAuxiliarySbb(dst, src, res, cf),
                of |-> as!OR(over(as!XOR(dst, src), as!XOR(dst, res)),
                             over(as!XOR(res, cf), as!XOR(res, res2)))]
    IN setGPR(Emit(s, e, new), e, d, res2)

(* AF is undefined after a logical operation, and left alone.              *)
LogicFlags(res, w) == ResultFlags(res, w) @@ [cf |-> as!Zero, of |-> as!Zero]
Logic(s, i, e, dst, src, F(_, _)) ==
    LET res == F(OldValue(i, dst), src)
    IN setGPR(Emit(s, e, LogicFlags(res, i.o[1].w)), e, i.o[1], res)
OR(s, i, e, dst, src) ==
    IF NoFlags(e, i, Flags \ {"af"}) THEN OP_noflags_destreg(s, i, as!OR, as!OR)
    ELSE Logic(s, i, e, dst, src, as!OR)
XOR(s, i, e, dst, src) ==
    IF i.o[1] = i.o[2] /\ i.o[1].w \in {32, 64}
    THEN setGPRRef(Emit(s, e, LogicFlags(as!Zero, 64)), i.o[1].r, 64, as!Zero)
    ELSE IF NoFlags(e, i, Flags \ {"af"}) THEN OP_noflags_destreg(s, i, as!XOR, as!XOR)
    ELSE Logic(s, i, e, dst, src, as!XOR)
AND(s, i, e, dst, src) == Logic(s, i, e, dst, src, as!AND)

(* TEST asks for the liveness of OF to clear CF, and the other way round.  *)
TEST(s, i, e, dst, src) ==
    LET swap == [cf |-> "of", of |-> "cf"]
        asked == {fl \in Flags : (IF fl \in DOMAIN swap THEN swap[fl] ELSE fl) \in e.emit}
    IN Emit(s, [e EXCEPT !.emit = asked], LogicFlags(as!AND(dst, src), i.o[1].w))

INC(s, i, e, dst) ==
    LET d == i.o[1]
        old == OldValue(i, dst)
        res == as!ADD(old, as!One)
        others == [e EXCEPT !.emit = @ \ {"cf"}]
    IN setGPR(Emit(s, others, AddFlags(old, as!One, res, d.w)), e, d, res)
DEC(s, i, e, dst) ==
    LET d == i.o[1]
        old == OldValue(i, dst)
        res == as!ADD(old, as!Ones)
        others == [e EXCEPT !.emit = @ \ {"cf"}]
    IN setGPR(SetCmpFlags(s, others, old, as!One, res, d.w, as!One), e, d, res)

NOT(s, i, e, dst) == setGPR(s, e, i.o[1], as!NOT(dst))
NEG(s, i, e, dst) ==
    LET d == i.o[1]
        res == as!NEG(as!Sext(dst, d.w))
        new == ResultFlags(res, d.w) @@
               [cf |-> as!SNEZ(dst), af |-> as!SNEZ(Nibble(dst)),
                of |-> updateOverflowSub(as!Zero, dst, res, d.w)]
    IN setGPR(Emit(s, e, new), e, d, res)

-----------------------------------------------------------------------------
(* Shifts and rotations.                                                   *)

(* The count is taken modulo 32 or 64; k is it as a number.                *)
CountMask(w) == IF w = 64 THEN as!Bits(6) ELSE as!Bits(5)
Count(i, src) == as!AND(src, CountMask(i.w))

SHIFT_noflags(s, i, e, left, F64(_, _), F32(_, _)) ==
    LET d == i.o[1]
        whole == IF d.hi THEN as!SRLI(s.g[d.r], 8) ELSE s.g[d.r]
        dst == IF d.k = "reg" /\ (d.w \in {32, 64} \/ left) THEN whole ELSE getGPR(s, d)
        shift == s.g["rcx"]
    IN setGPR(s, e, d, IF i.w = 64 THEN F64(dst, shift) ELSE F32(dst, shift))

(* By an immediate of 0 only the upper half of a register is cleared.      *)
ZeroShift(s, i, dst) ==
    LET d == i.o[1] IN IF d.w = 32 /\ d.k = "reg" THEN setGPRRef(s, d.r, 64, dst) ELSE s
By(x, n) == as!SRL(x, n)
SHL_imm(s, i, e, dst, shift) ==
    LET d == i.o[1]
        w == d.w
        res == as!SLL(dst, shift)
        lost == Bit(By(dst, as!SUB(as!Word(w, 8), shift)), 0)
        cf == IF "cf" \in e.emit THEN lost ELSE s.f.cf
        new == ResultFlags(res, w) @@ [cf |-> lost] @@
               (IF shift = as!One THEN [of |-> as!XOR(Bit(dst, w - 1), cf)] ELSE <<>>)
    IN IF shift = as!Zero THEN ZeroShift(s, i, dst) ELSE setGPR(Emit(s, e, new), e, d, res)
SHR_imm(s, i, e, dst, shift) ==
    LET d == i.o[1]
        res == as!SRL(dst, shift)
        new == ResultFlags(res, d.w) @@ [cf |-> Bit(By(dst, as!SUB(shift, as!One)), 0)] @@
               (IF shift = as!One THEN [of |-> Bit(dst, d.w - 1)] ELSE <<>>)
    IN IF shift = as!Zero THEN ZeroShift(s, i, dst) ELSE setGPR(Emit(s, e, new), e, d, res)
Arithmetic(dst, w, shift) == as!SRA(as!Sext(dst, w), shift)
SAR_imm(s, i, e, dst, shift) ==
    LET d == i.o[1]
        res == Arithmetic(dst, d.w, shift)
        new == ResultFlags(res, d.w) @@
               [cf |-> Bit(By(dst, as!SUB(shift, as!One)), 0), of |-> as!Zero]
    IN IF shift = as!Zero THEN ZeroShift(s, i, dst) ELSE setGPR(Emit(s, e, new), e, d, res)

(* By cl: with a count of 0 the flags are jumped over, the result is not.  *)
Shifted(s, i, e, count, new, res) ==
    setGPR(IF count = as!Zero THEN s ELSE Emit(s, e, new), e, i.o[1], res)
SHL(s, i, e, dst, count) ==
    LET w == i.o[1].w
        res == as!SLL(dst, count)
        lost == Bit(By(dst, as!SUB(as!Word(w, 8), count)), 0)
        cf == IF "cf" \in e.emit THEN lost ELSE s.f.cf
        new == ResultFlags(res, w) @@ [cf |-> lost, of |-> as!XOR(Bit(res, w - 1), cf)]
    IN IF i.o[2].k = "imm" THEN SHL_imm(s, i, e, dst, count)
       ELSE IF e.opts /\ e.emit \ {"af"} = {} THEN SHIFT_noflags(s, i, e, TRUE, as!SLL, as!SLLW)
       ELSE Shifted(s, i, e, count, new, res)
SHR(s, i, e, dst, count) ==
    LET w == i.o[1].w
        res == as!SRL(dst, count)
        new == ResultFlags(res, w) @@
               [cf |-> Bit(By(dst, as!SUB(count, as!One)), 0), of |-> Bit(dst, w - 1)]
    IN IF i.o[2].k = "imm" THEN SHR_imm(s, i, e, dst, count)
       ELSE IF e.opts /\ e.emit \ {"af"} = {} THEN SHIFT_noflags(s, i, e, FALSE, as!SRL, as!SRLW)
       ELSE Shifted(s, i, e, count, new, res)
SAR(s, i, e, dst, count) ==
    LET w == i.o[1].w
        res == Arithmetic(dst, w, count)
        new == ResultFlags(res, w) @@
               [cf |-> Bit(By(dst, as!SUB(count, as!One)), 0), of |-> as!Zero]
    IN IF i.o[2].k = "imm" THEN SAR_imm(s, i, e, dst, count) ELSE Shifted(s, i, e, count, new, res)

(* The rotations write CF and OF whether they are live or not, and with a  *)
(* count of 0 nothing at all.                                              *)
WithFlags(s, new) == [s EXCEPT !.f = new @@ @]
Rotated(s, i, e, count, res, cf, of) ==
    IF count = as!Zero THEN s
    ELSE setGPR(WithFlags(s, [cf |-> cf, of |-> of]), e, i.o[1], res)
Negated(count, w) == as!AND(as!NEG(count), as!Word(w - 1, 8))
ROL(s, i, e, dst, count) ==
    LET d == i.o[1]
        neg == Negated(count, d.w)
        quick == e.opts /\ d.w \in {32, 64} /\ i.o[2].k = "imm" /\ e.emit \cap {"cf", "of"} = {}
        res == as!OR(as!SLL(dst, count), as!SRL(dst, neg))
        cf == Bit(res, 0)
    IN IF quick
       THEN setGPR(s, e, d, IF d.w = 32 THEN as!RORW(dst, neg) ELSE as!ROR(dst, neg))
       ELSE Rotated(s, i, e, count, res, cf, as!XOR(as!SRLI(res, d.w - 1), cf))
ROR(s, i, e, dst, count) ==
    LET d == i.o[1]
        res == as!OR(as!SRL(dst, count), as!SLL(dst, Negated(count, d.w)))
        cf == Bit(res, d.w - 1)
    IN Rotated(s, i, e, count, res, cf, as!XOR(Bit(res, d.w - 2), cf))

(* Through the carry, one place at a time.                                 *)
CarryCount(i, count) ==
    LET k == as!Num(count)
    IN IF i.w \in {8, 16} THEN k % (i.w + 1) ELSE k
RCLSteps[x \in as!Words, cf \in as!Words, w \in Nat, k \in Nat] ==
    IF k = 0 THEN [x |-> x, cf |-> cf]
    ELSE RCLSteps[as!OR(as!SLLI(x, 1), cf), Bit(x, w - 1), w, k - 1]
RCRSteps[x \in as!Words, cf \in as!Words, w \in Nat, k \in Nat] ==
    IF k = 0 THEN [x |-> x, cf |-> cf]
    ELSE RCRSteps[as!OR(as!SRLI(x, 1), as!SLLI(cf, w - 1)), Bit(x, 0), w, k - 1]
RCL(s, i, e, dst, count) ==
    LET d == i.o[1]
        r == RCLSteps[dst, s.f.cf, i.w, CarryCount(i, count)]
        of == [of |-> as!XOR(Bit(r.x, i.w - 1), r.cf)]
    IN setGPR(Emit(WithFlags(s, [cf |-> r.cf]), e, of), e, d, r.x)
RCR(s, i, e, dst, count) ==
    LET d == i.o[1]
        r == RCRSteps[dst, s.f.cf, i.w, CarryCount(i, count)]
        of == [of |-> as!XOR(Bit(dst, i.w - 1), s.f.cf)]
    IN setGPR(Emit(WithFlags(s, [cf |-> r.cf]), e, of), e, d, r.x)

SHLD(s, i, e, dst, src, count) ==
    LET w == i.w
        rest == as!SUB(as!Word(w, 8), count)
        res == IF w = 64 THEN as!OR(as!SLL(dst, count), as!SRL(src, rest))
               ELSE as!OR(as!SLLW(dst, count), as!SRLW(src, rest))
        new == ResultFlags(res, w) @@
               [cf |-> Bit(By(dst, rest), 0), of |-> Bit(as!XOR(res, dst), w - 1)]
    IN Shifted(s, i, e, count, new, IF count = as!Zero THEN dst ELSE res)
SHRD(s, i, e, dst, src, count) ==
    LET w == i.w
        rest == as!SUB(as!Word(w, 8), count)
        res == IF w = 64 THEN as!OR(as!SRL(dst, count), as!SLL(src, rest))
               ELSE as!OR(as!SRLW(dst, count), as!SLLW(src, rest))
        new == ResultFlags(res, w) @@
               [cf |-> Bit(By(dst, as!SUB(count, as!One)), 0), of |-> Bit(as!XOR(res, dst), w - 1)]
    IN Shifted(s, i, e, count, new, IF count = as!Zero THEN dst ELSE res)

-----------------------------------------------------------------------------
(* Moves, the stack and the flags register.                                *)

MOV(s, i, e) ==
    LET d == i.o[1]
        o == i.o[2]
        whole == IF o.k = "reg" /\ o.hi THEN as!SRLI(s.g[o.r], 8) ELSE s.g[o.r]
        unmasked == o.k = "reg" /\ (d.k = "mem" \/ d.r # o.r)
    IN IF d.k = "reg" /\ o.k = "mem" /\ d.w \in {32, 64}
       THEN setGPRRef(s, d.r, 64, readMemory(s, lea(s, o), d.w))
       ELSE setGPR(s, e, d, IF unmasked THEN whole ELSE getGPR(s, o))

MOVZX(s, i, e) ==
    LET d == i.o[1]
    IN [s EXCEPT !.g[d.r] = IF d.w = 16 THEN as!OR(as!ANDN(@, as!Bits(16)), getGPR(s, i.o[2]))
                            ELSE getGPR(s, i.o[2])]
MOVSX(s, i, e) == setGPR(s, e, i.o[1], as!Sext(getGPR(s, i.o[2]), i.o[2].w))
MOVSXD(s, i, e) == setGPR(s, e, i.o[1], as!Sext(getGPR(s, i.o[2]), 32))
LEA(s, i, e) == setGPR(s, e, i.o[1], lea(s, i.o[2]))
CMOV(s, i, e, cond) ==
    LET d == i.o[1]
        o == i.o[2]
        src == IF o.k = "reg" THEN s.g[o.r] ELSE getGPR(s, o)
    IN setGPR(s, e, d, IF cond # as!Zero THEN src ELSE s.g[d.r])

XCHG_lock(s, i, e, dst, src) ==
    setGPR(setGPR(s, e, i.o[1], src), e, i.o[2], OldValue([i EXCEPT !.lock = TRUE], dst))
XCHG(s, i, e, dst, src) ==
    IF i.o[1].k = "mem" THEN XCHG_lock(s, i, e, dst, src)
    ELSE setGPR(setGPR(s, e, i.o[2], dst), e, i.o[1], src)

CBW(s, i, e) == setGPRRef(s, "rax", 16, as!Sext(s.g["rax"], 8))
CWDE(s, i, e) == setGPRRef(s, "rax", 32, as!Sext(s.g["rax"], 16))
CDQE(s, i, e) == setGPRRef(s, "rax", 64, as!Sext(s.g["rax"], 32))
CWD(s, i, e) == setGPRRef(s, "rdx", 16, as!SRLI(as!Sext(s.g["rax"], 16), 16))
CDQ(s, i, e) == setGPRRef(s, "rdx", 32, as!SRAI(as!Sext(s.g["rax"], 32), 31))
CQO(s, i, e) == setGPRRef(s, "rdx", 64, as!SRAI(s.g["rax"], 63))

(* PUSH stores below the stack pointer before it moves it; POP writes its  *)
(* operand before it moves the stack pointer.                              *)
Stack(s) == s.g["rsp"]
Bytes(w) == as!Word(w \div 8, 8)
Push(s, x, w) ==
    LET a == as!SUB(Stack(s), Bytes(w)) IN setGPRRef(writeMemory(s, a, x, w), "rsp", 64, a)
PUSH(s, i, e) == Push(s, getGPR(s, i.o[1]), i.w)
POP(s, i, e) ==
    LET x == readMemory(s, Stack(s), i.w)
        t == setGPR(s, e, i.o[1], x)
    IN setGPRRef(t, "rsp", 64, IF i.o[1].k = "reg" /\ i.o[1].r = "rsp" THEN x
                               ELSE as!ADD(Stack(t), Bytes(i.w)))
LEAVE(s, i, e) ==
    LET rbp == s.g["rbp"]
    IN setGPRRef(setGPRRef(s, "rsp", 64, as!ADD(rbp, Bytes(64))), "rbp", 64, readMemory(s, rbp, 64))

(* Where each flag is in the flags register; bits 1 and 9 are always set.  *)
Position == [cf |-> 0, pf |-> 2, af |-> 4, zf |-> 6, sf |-> 7, of |-> 11]
getFlags(s) ==
    UNION {as!SLLI(s.f[fl], Position[fl]) : fl \in Flags}
      \cup as!SLLI(s.df, 10) \cup as!SLLI(s.id, 21) \cup as!SLLI(s.ac, 18) \cup {1, 9}
setFlags(s, x) ==
    [s EXCEPT !.f = [fl \in Flags |-> Bit(x, Position[fl])],
              !.df = Bit(x, 10), !.id = Bit(x, 21), !.ac = Bit(x, 18)]
PUSHFQ(s, i, e) == Push(s, getFlags(s), 64)
POPFQ(s, i, e) ==
    setFlags(setGPRRef(s, "rsp", 64, as!ADD(Stack(s), Bytes(64))), readMemory(s, Stack(s), 64))
LAHF(s, i, e) ==
    LET x == UNION {as!SLLI(s.f[fl], Position[fl]) : fl \in Flags \ {"of"}} \cup {1}
    IN [s EXCEPT !.g["rax"] = HighByte(e, @, x)]
SAHF(s, i, e) ==
    WithFlags(s, [fl \in Flags \ {"of"} |-> Bit(s.g["rax"], 8 + Position[fl])])
CLC(s, i, e) == WithFlags(s, [cf |-> as!Zero])
STC(s, i, e) == WithFlags(s, [cf |-> as!One])
CMC(s, i, e) == WithFlags(s, [cf |-> as!XOR(s.f.cf, as!One)])
CLD(s, i, e) == [s EXCEPT !.df = as!Zero]
STD(s, i, e) == [s EXCEPT !.df = as!One]

-----------------------------------------------------------------------------
(* Conditions and jumps.  The register of rip holds the address of the     *)
(* block e.block until a jump adds the distance to its target.             *)

getCond(s, c) ==
    LET f == s.f
        less == as!XOR(f.sf, f.of)
        even == CASE c \div 2 = 0 -> f.of
                  [] c \div 2 = 1 -> f.cf
                  [] c \div 2 = 2 -> f.zf
                  [] c \div 2 = 3 -> as!OR(f.cf, f.zf)
                  [] c \div 2 = 4 -> f.sf
                  [] c \div 2 = 5 -> f.pf
                  [] c \div 2 = 6 -> less
                  [] c \div 2 = 7 -> as!OR(less, f.zf)
    IN IF c % 2 = 1 THEN as!XOR(even, as!One) ELSE even

Goto(s, e, target) == [s EXCEPT !.rip = as!ADD(@, as!SUB(target, e.block))]
JCC(s, i, e, cond) == Goto(s, e, IF cond # as!Zero THEN i.target ELSE i.next)
SETCC(s, i, e, cond) == setGPR(s, e, i.o[1], cond)
JRCXZ(s, i, e, w) == JCC(s, i, e, as!SEQZ(getGPRRef(s, "rcx", w)))
Loop(s, i, e, wanted) ==
    LET rcx == as!SUB(s.g["rcx"], as!One)
    IN JCC(setGPRRef(s, "rcx", 64, rcx), i, e, as!AND(as!SNEZ(rcx), wanted))
LOOP(s, i, e) == Loop(s, i, e, as!One)
LOOPE(s, i, e) == Loop(s, i, e, s.f.zf)
LOOPNE(s, i, e) == Loop(s, i, e, as!XOR(s.f.zf, as!One))

JMP(s, i, e) ==
    IF i.o[1].k = "imm" THEN Goto(s, e, i.target) ELSE [s EXCEPT !.rip = getGPR(s, i.o[1])]
CALL(s, i, e) ==
    IF i.o[1].k = "imm"
    THEN Goto(Push(s, as!ADD(s.rip, as!SUB(i.next, e.block)), 64), e, i.target)
    ELSE Push([s EXCEPT !.rip = getGPR(s, i.o[1])], i.next, 64)
RET(s, i, e) ==
    LET extra == IF i.o = <<>> THEN as!Zero ELSE i.o[1].v
    IN [setGPRRef(s, "rsp", 64, as!ADD(Stack(s), as!ADD(Bytes(64), extra)))
          EXCEPT !.rip = readMemory(s, Stack(s), 64)]

-----------------------------------------------------------------------------
(* Multiplication and division.                                            *)

BothFlags(s, x) == WithFlags(s, [cf |-> x, of |-> x])
BothIfLive(s, e, x) == IF e.emit \cap {"cf", "of"} = {} THEN s ELSE BothFlags(s, x)
Overflows(res, w) == as!SNEZ(as!XOR(as!Sext(res, w), res))

IMUL_noflags(s, i, e, x, y) ==
    setGPR(s, e, i.o[1], IF i.o[1].w = 64 THEN as!MUL(x, y) ELSE as!MULW(x, y))
IMUL_one(s, i, e, src) ==
    LET w == i.o[1].w
        ax == as!Sext(s.g["rax"], w)
        small == as!MULW(ax, IF w = 8 THEN src ELSE as!Sext(src, w))
        wide == as!MUL(ax, as!Sext(src, 32))
        high == as!MULH(ax, src)
        both == as!MUL(ax, src)
    IN CASE w = 8 -> BothIfLive(setGPRRef(s, "rax", 16, small), e, Overflows(small, 8))
         [] w = 16 -> BothIfLive(setGPRRef(setGPRRef(s, "rax", 16, small), "rdx", 16, as!SRAI(small, 16)),
                                 e, Overflows(small, 16))
         [] w = 32 -> BothIfLive(setGPRRef(setGPRRef(s, "rax", 32, wide), "rdx", 32, as!SRLI(wide, 32)),
                                 e, Overflows(wide, 32))
         [] w = 64 -> BothIfLive(setGPRRef(setGPRRef(s, "rax", 64, both), "rdx", 64, high),
                                 e, as!SNEZ(as!XOR(as!SRAI(both, 63), high)))
IMUL_two(s, i, e, x, y) ==
    LET w == i.o[1].w
        res == IF w = 16 THEN as!MULW(x, y) ELSE as!MUL(x, y)
        over == IF w = 64 THEN as!SNEZ(as!XOR(as!SRAI(res, 63), as!MULH(x, y))) ELSE Overflows(res, w)
    IN IF e.opts /\ e.emit \cap {"cf", "of"} = {} THEN IMUL_noflags(s, i, e, x, y)
       ELSE BothFlags(setGPR(s, e, i.o[1], res), over)
IMUL(s, i, e, dst, src) ==
    LET extend(x) == as!Sext(x, i.o[1].w)
    IN CASE Len(i.o) = 1 -> IMUL_one(s, i, e, dst)
         [] Len(i.o) = 2 -> IMUL_two(s, i, e, extend(dst), extend(src))
         [] Len(i.o) = 3 -> IMUL_two(s, i, e, extend(src), extend(i.o[3].v))
MUL(s, i, e, src) ==
    LET w == i.o[1].w
        ax == getGPRRef(s, "rax", w)
        res == IF w <= 16 THEN as!MULW(ax, src) ELSE as!MUL(ax, src)
        high == IF w = 64 THEN as!MULHU(ax, src) ELSE as!SRLI(zext(res, 2 * w), w)
    IN IF w = 8 THEN BothIfLive(setGPRRef(s, "rax", 16, res), e, as!SNEZ(high))
       ELSE BothIfLive(setGPRRef(setGPRRef(s, "rax", w, res), "rdx", w, high), e, as!SNEZ(high))

(* Nothing raises #DE.  A 64-bit quotient by a 128-bit dividend is left to *)
(* a function unless rdx only extends rax.                                 *)
QuotientAndRemainder(s, w, q, r) ==
    IF w = 8 THEN setGPRRef(s, "rax", 16, as!OR(zext(q, 8), as!SLLI(zext(r, 8), 8)))
    ELSE setGPRRef(setGPRRef(s, "rax", w, q), "rdx", w, r)
Dividend(s, w) ==
    IF w = 8 THEN getGPRRef(s, "rax", 16)
    ELSE as!OR(as!SLLI(getGPRRef(s, "rdx", w), w), getGPRRef(s, "rax", w))
OnlyExtended(s) == s.g["rdx"] = as!SRAI(s.g["rax"], 63)
Wide(s) == as!Up(s.g["rdx"], 64) \cup s.g["rax"]
felix86_divu128(s, src) ==
    LET d == as!LongDivision(Wide(s), src) IN QuotientAndRemainder(s, 64, zext(d.q, 64), d.r)
felix86_div128(s, src) ==
    LET negate(x) == as!Minus({}, x) \cap as!Bits(128)
        d == as!LongDivision(IF 127 \in Wide(s) THEN negate(Wide(s)) ELSE Wide(s), as!Magnitude(src))
    IN QuotientAndRemainder(s, 64, IF (127 \in Wide(s)) # (63 \in src) THEN as!NEG(d.q) ELSE d.q,
                                   IF 127 \in Wide(s) THEN as!NEG(d.r) ELSE d.r)
DIV(s, i, e, src) ==
    LET w == i.o[1].w
        x == Dividend(s, w)
        rax == s.g["rax"]
    IN CASE w < 32 -> QuotientAndRemainder(s, w, as!DIVUW(x, src), as!REMUW(x, src))
         [] w = 32 -> QuotientAndRemainder(s, w, as!DIVU(x, src), as!REMU(x, src))
         [] w = 64 -> IF OnlyExtended(s) THEN QuotientAndRemainder(s, w, as!DIVU(rax, src), as!REMU(rax, src))
                      ELSE felix86_divu128(s, src)
IDIV(s, i, e, src) ==
    LET w == i.o[1].w
        x == IF w = 8 THEN as!Sext(Dividend(s, w), 16) ELSE Dividend(s, w)
        rax == s.g["rax"]
    IN CASE w < 32 -> QuotientAndRemainder(s, w, as!DIVW(x, src), as!REMW(x, src))
         [] w = 32 -> QuotientAndRemainder(s, w, as!DIV(x, src), as!REM(x, src))
         [] w = 64 -> IF OnlyExtended(s) THEN QuotientAndRemainder(s, w, as!DIV(rax, src), as!REM(rax, src))
                      ELSE felix86_div128(s, src)

-----------------------------------------------------------------------------
(* Bits.                                                                   *)

CTZ(src) == as!Word(as!CTZ(src), 8)
BSF(s, i, e, src) ==
    LET t == WithFlags(s, [zf |-> as!SEQZ(src)])
    IN IF src = as!Zero THEN t ELSE setGPR(t, e, i.o[1], CTZ(src))
BSR(s, i, e, src) ==
    LET t == WithFlags(s, [zf |-> as!SEQZ(src)])
    IN IF src = as!Zero THEN t ELSE setGPR(t, e, i.o[1], as!Word(63 - as!CLZ(src), 8))
TZCNT(s, i, e, src) ==
    LET res == IF src = as!Zero THEN as!Word(i.w, 8) ELSE CTZ(src)
    IN WithFlags(setGPR(s, e, i.o[1], res), [cf |-> as!SEQZ(src), zf |-> as!SEQZ(res)])
BSWAP(s, i, e, dst) ==
    LET res == as!REV8(dst)
    IN setGPR(s, e, i.o[1], IF i.o[1].w = 32 THEN as!SRLI(res, 32) ELSE res)

(* F is what the instruction does to a word and a mask of one bit.  In     *)
(* memory the bit may be far from the operand: a function finds its byte,  *)
(* and goes one further down for a negative offset.                        *)
BitString(s, a, bit, F(_, _)) ==
    LET old == readMemory(s, a, 8)
    IN WithFlags(writeMemory(s, a, F(old, as!SLL(as!One, bit)), 8), [cf |-> Bit(as!SRL(old, bit), 0)])
BITSTRING_func(s, i, offset, F(_, _)) ==
    LET bit == as!AND(offset, as!Bits(3))
        correction == as!Bool(63 \in offset /\ bit # as!Zero)
    IN BitString(s, as!SUB(as!ADD(lea(s, i.o[1]), as!SRAI(offset, 3)), correction), bit, F)
BitOp(s, i, e, dst, src, always, F(_, _)) ==
    LET d == i.o[1]
        shift == as!AND(src, as!Word(d.w - 1, 8))
        cf == [cf |-> Bit(as!SRL(dst, shift), 0)]
        t == IF always THEN WithFlags(s, cf) ELSE Emit(s, e, cf)
    IN IF d.k = "mem" /\ i.o[2].k = "reg" THEN BITSTRING_func(s, i, as!Sext(src, i.o[2].w), F)
       ELSE setGPR(t, e, d, F(dst, as!SLL(as!One, shift)))
Keep(x, mask) == x
BT(s, i, e, dst, src) ==
    IF i.o[1].k = "mem" /\ i.o[2].k = "reg" THEN BITSTRING_func(s, i, as!Sext(src, i.o[2].w), Keep)
    ELSE WithFlags(s, [cf |-> Bit(as!SRL(dst, as!AND(src, as!Word(i.o[1].w - 1, 8))), 0)])
BTC(s, i, e, dst, src) == BitOp(s, i, e, dst, src, TRUE, as!XOR)
BTR(s, i, e, dst, src) == BitOp(s, i, e, dst, src, TRUE, as!ANDN)
BTS(s, i, e, dst, src) == BitOp(s, i, e, dst, src, FALSE, as!OR)

-----------------------------------------------------------------------------
(* Exchange and add, compare and exchange.                                 *)

XADD(s, i, e, dst, src) ==
    LET d == i.o[1]
        res == as!ADD(dst, src)
        t == Emit(s, e, [af |-> updateAuxiliaryAdd(dst, src)] @@ AddFlags(dst, src, res, d.w))
    IN IF Atomic(i) /\ d.w \in {32, 64}
       THEN setGPRRef(writeMemory(t, lea(s, d), res, d.w), i.o[2].r, 64, dst)
       ELSE setGPR(setGPR(t, e, i.o[2], dst), e, d, res)

(* The byte and word forms use the registers of flags as scratch.          *)
CMPXCHG_lock(s, i, e, dst, src, a) ==
    LET w == i.w
        shift == as!SLLI(a, 3)
        rax == getGPRRef(s, "rax", w)
        used == [cf |-> as!SLLW(rax, shift), zf |-> as!SLLW(src, shift)] @@
                (IF w = 16 THEN [sf |-> as!SLLW(as!Bits(16), shift)] ELSE <<>>)
        t == IF w < 32 THEN WithFlags(s, used) ELSE s
        u == SetCmpFlags(t, e, rax, dst, as!SUB(rax, dst), w, dst)
    IN IF rax = dst THEN writeMemory(u, a, src, w) ELSE setGPRRef(u, "rax", w, dst)
CMPXCHG(s, i, e, dst, src) ==
    LET rax == getGPRRef(s, "rax", i.w)
        t == SetCmpFlags(s, e, rax, dst, as!SUB(rax, dst), i.w, dst)
    IN IF i.o[1].k = "mem" THEN CMPXCHG_lock(s, i, e, dst, src, lea(s, i.o[1]))
       ELSE IF dst = rax THEN setGPR(t, e, i.o[1], src)
       ELSE setGPRRef(t, "rax", i.w, dst)
CMPXCHG16B(s, i, e, a) ==
    LET mem0 == readMemory(s, a, 64)
        mem1 == readMemory(s, as!ADD(a, Bytes(64)), 64)
        equal == mem0 = s.g["rax"] /\ mem1 = s.g["rdx"]
        t == IF equal THEN writeMemory(writeMemory(s, a, s.g["rbx"], 64), as!ADD(a, Bytes(64)), s.g["rcx"], 64)
             ELSE s
    IN WithFlags(setGPRRef(setGPRRef(t, "rax", 64, mem0), "rdx", 64, mem1), [zf |-> as!Bool(equal)])
CMPXCHG8B(s, i, e, a) ==
    LET pair(high, low) == as!OR(as!SLLI(s.g[high], 32), s.g[low])
        mem == readMemory(s, a, 64)
    IN IF mem = pair("rdx", "rax")
       THEN WithFlags(writeMemory(s, a, pair("rcx", "rbx"), 64), [zf |-> as!One])
       ELSE WithFlags(setGPRRef(setGPRRef(s, "rax", 32, mem), "rdx", 32, as!SRLI(mem, 32)),
                      [zf |-> as!Zero])

-----------------------------------------------------------------------------
(* String instructions: one round each, and the loop around them.          *)

Stride(s, i) == IF s.df # as!Zero THEN as!NEG(Bytes(i.w)) ELSE Bytes(i.w)
Advance(s, i, r) == setGPRRef(s, r, 64, as!ADD(s.g[r], Stride(s, i)))
At(s, i, r) == readMemory(s, s.g[r], i.w)
MOVSB(s, i, e) ==
    Advance(Advance(writeMemory(s, s.g["rdi"], At(s, i, "rsi"), i.w), i, "rdi"), i, "rsi")
CMPSB(s, i, e) ==
    LET x == At(s, i, "rsi")
        y == At(s, i, "rdi")
    IN Advance(Advance(SetCmpFlags(s, e, x, y, as!SUB(x, y), i.w, y), i, "rdi"), i, "rsi")
SCASB(s, i, e) ==
    LET rax == getGPRRef(s, "rax", i.w)
        y == At(s, i, "rdi")
    IN Advance(SetCmpFlags(s, e, rax, y, as!SUB(rax, y), i.w, y), i, "rdi")
LODSB(s, i, e) == Advance(setGPRRef(s, "rax", i.w, At(s, i, "rsi")), i, "rsi")
STOSB(s, i, e) == Advance(writeMemory(s, s.g["rdi"], getGPRRef(s, "rax", i.w), i.w), i, "rdi")
Round(s, i, e) ==
    CASE i.op = "movs" -> MOVSB(s, i, e)
      [] i.op = "cmps" -> CMPSB(s, i, e)
      [] i.op = "scas" -> SCASB(s, i, e)
      [] i.op = "lods" -> LODSB(s, i, e)
      [] i.op = "stos" -> STOSB(s, i, e)

RECURSIVE Repeat(_, _, _)
CountDown(s) == setGPRRef(s, "rcx", 64, as!SUB(s.g["rcx"], as!One))
Again(s, i) ==
    /\ s.g["rcx"] # as!Zero
    /\ i.op \in {"cmps", "scas"} => (s.f.zf # as!Zero) = (i.rep = "repz")
OrStop(s, i, e) == IF Again(s, i) THEN Repeat(s, i, e) ELSE s
Repeat(s, i, e) == OrStop(CountDown(Round(s, i, [e EXCEPT !.emit = Flags])), i, e)
String(s, i, e) ==
    IF i.rep = "none" THEN Round(s, i, e)
    ELSE IF s.g["rcx"] = as!Zero THEN s
    ELSE Repeat(s, i, e)

-----------------------------------------------------------------------------
(* compileInstruction: the handler of an instruction.  Most handlers start *)
(* by reading their operands.                                              *)

Handle(s, i, e) ==
    LET dst == getGPR(s, i.o[1])
        src == getGPR(s, i.o[2])
    IN CASE i.op = "add" -> ADD(s, i, e, dst, src)
         [] i.op = "sub" -> SUB(s, i, e, dst, src)
         [] i.op = "adc" -> ADC(s, i, e, dst, src)
         [] i.op = "sbb" -> SBB(s, i, e, dst, src)
         [] i.op = "cmp" -> CMP(s, i, e, dst, src)
         [] i.op = "or" -> OR(s, i, e, dst, src)
         [] i.op = "xor" -> XOR(s, i, e, dst, src)
         [] i.op = "and" -> AND(s, i, e, dst, src)
         [] i.op = "test" -> TEST(s, i, e, dst, src)
         [] i.op = "inc" -> INC(s, i, e, dst)
         [] i.op = "dec" -> DEC(s, i, e, dst)
         [] i.op = "not" -> NOT(s, i, e, dst)
         [] i.op = "neg" -> NEG(s, i, e, dst)
         [] i.op = "shl" -> SHL(s, i, e, dst, Count(i, src))
         [] i.op = "shr" -> SHR(s, i, e, dst, Count(i, src))
         [] i.op = "sar" -> SAR(s, i, e, dst, Count(i, src))
         [] i.op = "rol" -> ROL(s, i, e, dst, Count(i, src))
         [] i.op = "ror" -> ROR(s, i, e, dst, Count(i, src))
         [] i.op = "rcl" -> RCL(s, i, e, dst, Count(i, src))
         [] i.op = "rcr" -> RCR(s, i, e, dst, Count(i, src))
         [] i.op = "shld" -> SHLD(s, i, e, dst, src, Count(i, getGPR(s, i.o[3])))
         [] i.op = "shrd" -> SHRD(s, i, e, dst, src, Count(i, getGPR(s, i.o[3])))
         [] i.op = "mov" -> MOV(s, i, e)
         [] i.op = "movzx" -> MOVZX(s, i, e)
         [] i.op = "movsx" -> MOVSX(s, i, e)
         [] i.op = "movsxd" -> MOVSXD(s, i, e)
         [] i.op = "lea" -> LEA(s, i, e)
         [] i.op = "cmov" -> CMOV(s, i, e, getCond(s, i.cond))
         [] i.op = "setcc" -> SETCC(s, i, e, getCond(s, i.cond))
         [] i.op = "xchg" -> XCHG(s, i, e, dst, src)
         [] i.op = "cbw" -> CBW(s, i, e)
         [] i.op = "cwde" -> CWDE(s, i, e)
         [] i.op = "cdqe" -> CDQE(s, i, e)
         [] i.op = "cwd" -> CWD(s, i, e)
         [] i.op = "cdq" -> CDQ(s, i, e)
         [] i.op = "cqo" -> CQO(s, i, e)
         [] i.op = "push" -> PUSH(s, i, e)
         [] i.op = "pop" -> POP(s, i, e)
         [] i.op = "leave" -> LEAVE(s, i, e)
         [] i.op = "pushf" -> PUSHFQ(s, i, e)
         [] i.op = "popf" -> POPFQ(s, i, e)
         [] i.op = "lahf" -> LAHF(s, i, e)
         [] i.op = "sahf" -> SAHF(s, i, e)
         [] i.op = "clc" -> CLC(s, i, e)
         [] i.op = "stc" -> STC(s, i, e)
         [] i.op = "cmc" -> CMC(s, i, e)
         [] i.op = "cld" -> CLD(s, i, e)
         [] i.op = "std" -> STD(s, i, e)
         [] i.op = "mul" -> MUL(s, i, e, dst)
         [] i.op = "imul" -> IMUL(s, i, e, dst, src)
         [] i.op = "div" -> DIV(s, i, e, dst)
         [] i.op = "idiv" -> IDIV(s, i, e, as!Sext(dst, i.o[1].w))
         [] i.op = "bsf" -> BSF(s, i, e, src)
         [] i.op = "bsr" -> BSR(s, i, e, src)
         [] i.op = "tzcnt" -> TZCNT(s, i, e, src)
         [] i.op = "bswap" -> BSWAP(s, i, e, dst)
         [] i.op = "bt" -> BT(s, i, e, dst, src)
         [] i.op = "btc" -> BTC(s, i, e, dst, src)
         [] i.op = "btr" -> BTR(s, i, e, dst, src)
         [] i.op = "bts" -> BTS(s, i, e, dst, src)
         [] i.op = "xadd" -> XADD(s, i, e, dst, src)
         [] i.op = "cmpxchg" -> CMPXCHG(s, i, e, dst, src)
         [] i.op = "cmpxchg8b" -> CMPXCHG8B(s, i, e, lea(s, i.o[1]))
         [] i.op = "cmpxchg16b" -> CMPXCHG16B(s, i, e, lea(s, i.o[1]))
         [] i.op \in {"movs", "cmps", "scas", "lods", "stos"} -> String(s, i, e)
         [] i.op = "jcc" -> JCC(s, i, e, getCond(s, i.cond))
         [] i.op = "jrcxz" -> JRCXZ(s, i, e, i.w)
         [] i.op = "loop" -> LOOP(s, i, e)
         [] i.op = "loope" -> LOOPE(s, i, e)
         [] i.op = "loopne" -> LOOPNE(s, i, e)
         [] i.op = "jmp" -> JMP(s, i, e)
         [] i.op = "call" -> CALL(s, i, e)
         [] i.op = "ret" -> RET(s, i, e)

=============================================================================
