-------------------------------- MODULE Rv64 --------------------------------
(***************************************************************************)
(* The instructions of the host (RV64IMA with Zba, Zbb and Zicond) that    *)
(* the handlers emit, as functions on words.  A word of any width is the   *)
(* set of the positions of its 1 bits, so that the real widths of 8 to 64  *)
(* bits stay within TLC's integers.  Registers hold sets of 0..63.         *)
(***************************************************************************)
EXTENDS Integers, FiniteSetsExt

XLEN == 64
Bits(w) == 0 .. (w - 1)
Ones == Bits(XLEN)

(* 0 and 1, and the word of a condition.                                   *)
Zero == {}
One == {0}
Bool(c) == IF c THEN One ELSE Zero

(* The low w bits, and the same with bit w-1 repeated above them.          *)
Low(x, w) == x \cap Bits(w)
Sext(x, w) == Low(x, w) \cup (IF w - 1 \in x THEN w .. (XLEN - 1) ELSE {})

(* Moving every bit by k places, without and with a bound of w bits.       *)
Up(x, k) == {b + k : b \in x}
Down(x, k) == {b - k : b \in {c \in x : c >= k}}

AND(x, y) == x \cap y
OR(x, y) == x \cup y
NOT(x) == Ones \ x
XOR(x, y) == (x \ y) \cup (y \ x)
ANDN(x, y) == x \ y

(* The sum of two words of up to 256 bits.  g are the bits known to carry, *)
(* p the bits that pass a carry on; every step doubles the reach of both.  *)
Reach(c, k) == [g |-> c.g \cup (c.p \cap Up(c.g, k)), p |-> c.p \cap Up(c.p, k)]
RECURSIVE Carries(_, _)
Carries(c, k) == IF c.g = {} \/ c.p = {} \/ k > 128 THEN c.g ELSE Carries(Reach(c, k), 2 * k)
Sum(x, y) == XOR(XOR(x, y), Up(Carries([g |-> x \cap y, p |-> XOR(x, y)], 1), 1))

ADD(x, y) == Low(Sum(x, y), XLEN)
SUB(x, y) == NOT(ADD(NOT(x), y))
NEG(x) == SUB(Zero, x)
ADDW(x, y) == Sext(ADD(x, y), 32)
SUBW(x, y) == Sext(SUB(x, y), 32)

(* Comparisons: the highest bit in which two words differ decides.         *)
Less(x, y) == \E b \in y \ x : \A c \in x \ y : c < b
SLTU(x, y) == Bool(Less(x, y))
SLT(x, y) == Bool(Less(XOR(x, {63}), XOR(y, {63})))
SEQZ(x) == Bool(x = {})
SNEZ(x) == Bool(x # {})

(* The number a short word stands for, and the word of a number.           *)
Num(x) == SumSet({2^b : b \in x})
Word(n, w) == {b \in Bits(w) : b < 31 /\ (n \div 2^b) % 2 = 1}

SLLI(x, k) == Low(Up(x, k), XLEN)
SRLI(x, k) == Down(x, k)
SRAI(x, k) == Down(x, k) \cup (IF 63 \in x THEN (XLEN - k) .. (XLEN - 1) ELSE {})
RORI(x, k) == Down(x, k) \cup Low(Up(x, XLEN - k), XLEN)

(* Shifts by a register use its low 6 bits, the W forms its low 5.         *)
Amount(y) == Num(Low(y, 6))
AmountW(y) == Num(Low(y, 5))
SLL(x, y) == SLLI(x, Amount(y))
SRL(x, y) == SRLI(x, Amount(y))
SRA(x, y) == SRAI(x, Amount(y))
SLLW(x, y) == Sext(Up(x, AmountW(y)), 32)
SRLW(x, y) == Sext(Down(Low(x, 32), AmountW(y)), 32)
SRAW(x, y) == SRAI(Sext(x, 32), AmountW(y))
ROR(x, y) == RORI(x, Amount(y))
RORW(x, y) == LET l == Low(x, 32) k == AmountW(y)
              IN Sext(Down(l, k) \cup Low(Up(l, 32 - k), 32), 32)

(* Products of x with the low n bits of y, n a power of two, by halves.    *)
Words == SUBSET Nat
TimesBits[x \in Words, y \in Words, n \in Nat] ==
    IF y = {} THEN {}
    ELSE IF n = 1 THEN x
    ELSE LET h == n \div 2
         IN Sum(TimesBits[x, Low(y, h), h], Up(TimesBits[x, Down(y, h), h], h))
Times(x, y) == TimesBits[x, y, 128]
MUL(x, y) == Low(Times(x, y), XLEN)
MULHU(x, y) == Down(Times(x, y), XLEN)
MULH(x, y) ==
    LET wide(v) == v \cup (IF 63 \in v THEN 64 .. 127 ELSE {})
    IN Low(Down(Times(wide(x), wide(y)), XLEN), XLEN)
MULW(x, y) == Sext(Times(Low(x, 32), Low(y, 32)), 32)

(* Long division by y: the bits lo .. lo+n-1 of the quotient q, highest    *)
(* first, and what is left of the dividend in r.                           *)
Minus(x, y) == Bits(256) \ Sum(Bits(256) \ x, y)
Divide[d \in [q : Words, r : Words], y \in Words, lo \in Nat, n \in Nat] ==
    IF n = 1
    THEN LET t == Up(y, lo)
         IN IF Less(d.r, t) THEN d ELSE [q |-> d.q \cup {lo}, r |-> Minus(d.r, t)]
    ELSE LET h == n \div 2 IN Divide[Divide[d, y, lo + h, h], y, lo, h]
LongDivision(x, y) == Divide[[q |-> {}, r |-> x], y, 0, XLEN]

(* Division by zero yields all ones and the dividend, as the host does.    *)
DIVU(x, y) == IF y = {} THEN Ones ELSE LongDivision(x, y).q
REMU(x, y) == IF y = {} THEN x ELSE LongDivision(x, y).r
Magnitude(x) == IF 63 \in x THEN NEG(x) ELSE x
DIV(x, y) == IF y = {} THEN Ones
             ELSE LET q == DIVU(Magnitude(x), Magnitude(y))
                  IN IF (63 \in x) # (63 \in y) THEN NEG(q) ELSE q
REM(x, y) == IF y = {} THEN x
             ELSE LET r == REMU(Magnitude(x), Magnitude(y))
                  IN IF 63 \in x THEN NEG(r) ELSE r
DIVUW(x, y) == Sext(DIVU(Low(x, 32), Low(y, 32)), 32)
REMUW(x, y) == Sext(REMU(Low(x, 32), Low(y, 32)), 32)
DIVW(x, y) == Sext(DIV(Sext(x, 32), Sext(y, 32)), 32)
REMW(x, y) == Sext(REM(Sext(x, 32), Sext(y, 32)), 32)

(* Zbb: counting zeros and ones, and the order of the bytes.               *)
CTZ(x) == IF x = {} THEN XLEN ELSE Min(x)
CLZ(x) == IF x = {} THEN XLEN ELSE XLEN - 1 - Max(x)
CPOP(x) == Cardinality(x)
REV8(x) == {8 * (7 - (b \div 8)) + (b % 8) : b \in x}

=============================================================================
