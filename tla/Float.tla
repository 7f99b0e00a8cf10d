-------------------------------- MODULE Float -------------------------------
(***************************************************************************)
(* Floating-point numbers of 32 and 64 bits as words (sets of positions of *)
(* 1 bits, as in Rv64), and what host and guest agree on about them: the   *)
(* order of numbers, and conversions to and from integers.  Arithmetic     *)
(* that rounds is the parameter Fp: two computations yield the same number *)
(* if they apply the same operation to the same numbers in the same        *)
(* rounding mode.  Rounding modes are named as on the host: "rne", "rtz",  *)
(* "rdn", "rup".                                                           *)
(***************************************************************************)
EXTENDS Integers, FiniteSetsExt

CONSTANT Fp(_, _, _, _)     \* Fp(op, numbers, width, rounding mode)

LOCAL n == INSTANCE Rv64

(* Parts of a number of w bits.                                            *)
FracBits(w) == IF w = 32 THEN 23 ELSE 52
Bias(w) == IF w = 32 THEN 127 ELSE 1023
SignBit(w) == {w - 1}
ExpBits(w) == FracBits(w) .. (w - 2)
Exponent(a, w) == n!Num(n!Down(a \cap ExpBits(w), FracBits(w)))
Negative(a, w) == w - 1 \in a
Size(a, w) == a \ SignBit(w)
IsNaN(a, w) == ExpBits(w) \subseteq a /\ n!Low(a, FracBits(w)) # {}
IsInf(a, w) == Size(a, w) = ExpBits(w)
IsZero(a, w) == Size(a, w) = {}
Ordered(a, b, w) == ~IsNaN(a, w) /\ ~IsNaN(b, w)

(* Comparisons: false if a number is not one, and -0 = +0.                 *)
FEq(a, b, w) == Ordered(a, b, w) /\ (a = b \/ (IsZero(a, w) /\ IsZero(b, w)))
FLess(a, b, w) ==
    /\ Ordered(a, b, w) /\ ~FEq(a, b, w)
    /\ IF Negative(a, w) /\ Negative(b, w) THEN n!Less(Size(b, w), Size(a, w))
       ELSE Negative(a, w) \/ (~Negative(b, w) /\ n!Less(a, b))
FLe(a, b, w) == FLess(a, b, w) \/ FEq(a, b, w)

(* The host's minimum and maximum: a number rather than NaN, and -0 < +0.  *)
Canonical(w) == ExpBits(w) \cup {FracBits(w) - 1}
Below(a, b, w) == FLess(a, b, w) \/ (FEq(a, b, w) /\ Negative(a, w))
FMin(a, b, w) ==
    IF IsNaN(a, w) THEN (IF IsNaN(b, w) THEN Canonical(w) ELSE b)
    ELSE IF IsNaN(b, w) \/ Below(a, b, w) THEN a ELSE b
FMax(a, b, w) ==
    IF IsNaN(a, w) THEN (IF IsNaN(b, w) THEN Canonical(w) ELSE b)
    ELSE IF IsNaN(b, w) \/ Below(b, a, w) THEN a ELSE b

FNeg(a, w) == n!XOR(a, SignBit(w))
FAbs(a, w) == a \ SignBit(w)

(* Sums with a zero are exact; x - y is x + (-y).                          *)
FAdd(a, b, w, rm) ==
    IF IsZero(a, w) /\ IsZero(b, w)
    THEN IF a = b THEN a ELSE IF rm = "rdn" THEN SignBit(w) ELSE {}
    ELSE IF IsZero(a, w) THEN b
    ELSE IF IsZero(b, w) THEN a
    ELSE Fp("add", <<a, b>>, w, rm)
FSub(a, b, w, rm) == FAdd(a, FNeg(b, w), w, rm)
FMul(a, b, w, rm) == Fp("mul", <<a, b>>, w, rm)
FDiv(a, b, w, rm) == Fp("div", <<a, b>>, w, rm)
FSqrt(a, w, rm) == Fp("sqrt", <<a>>, w, rm)
Widen(a) == Fp("widen", <<a>>, 64, "rne")
Narrow(a, rm) == Fp("narrow", <<a>>, 32, rm)
One(w) == n!Up(n!Word(Bias(w), 12), FracBits(w))

-----------------------------------------------------------------------------
(* Integers.  The magnitude of a number is rounded at the weight of 1: sig *)
(* is its significand, moved by e - FracBits places.                       *)

Significand(a, w) ==
    n!Low(a, FracBits(w)) \cup (IF Exponent(a, w) = 0 THEN {} ELSE {FracBits(w)})
Moved(x, k) == IF k >= 0 THEN n!Up(x, k) ELSE n!Down(x, -k)
RoundsUp(odd, half, more, neg, rm) ==
    CASE rm = "rtz" -> FALSE
      [] rm = "rdn" -> neg /\ (half \/ more)
      [] rm = "rup" -> ~neg /\ (half \/ more)
      [] rm = "rne" -> half /\ (more \/ odd)
Increment(x, up) == IF up THEN n!Sum(x, {0}) ELSE x
(* sig / 2^k rounded to an integer, k > 0.                                 *)
RoundAt(sig, k, neg, rm) ==
    Increment(n!Down(sig, k),
              RoundsUp(k \in sig, k - 1 \in sig, \E b \in sig : b < k - 1, neg, rm))
Shift_(a, w) == FracBits(w) + Bias(w) - (IF Exponent(a, w) = 0 THEN 1 ELSE Exponent(a, w))
Magnitude(a, w, rm) ==
    IF Shift_(a, w) > 0 THEN RoundAt(Significand(a, w), Shift_(a, w), Negative(a, w), rm)
    ELSE IF Shift_(a, w) < -80 THEN {100}
    ELSE n!Up(Significand(a, w), -Shift_(a, w))

(* The integer a number rounds to, if it has one of iw bits.               *)
FitsMagnitude(m, neg, iw) == (\A b \in m : b < iw - 1) \/ (neg /\ m = {iw - 1})
Fits(a, w, iw, rm) ==
    ~IsNaN(a, w) /\ ~IsInf(a, w) /\ FitsMagnitude(Magnitude(a, w, rm), Negative(a, w), iw)
Opposite(m, iw) == n!Low(n!Minus({}, m), iw)
ToInt(a, w, iw, rm) ==
    IF Negative(a, w) THEN Opposite(Magnitude(a, w, rm), iw) ELSE Magnitude(a, w, rm)
(* The host saturates where the guest expects the indefinite integer.      *)
FCVT(a, w, iw, rm) ==
    IF Fits(a, w, iw, rm) THEN ToInt(a, w, iw, rm)
    ELSE IF IsNaN(a, w) \/ ~Negative(a, w) THEN n!Bits(iw - 1) ELSE {iw - 1}

(* The number nearest to the magnitude m with the given sign.              *)
Normal(m, top, w, neg) ==
    n!Sum(n!Low(Moved(m, FracBits(w) - top), FracBits(w)),
          n!Up(n!Word(Bias(w) + top, 12), FracBits(w))) \cup (IF neg THEN SignBit(w) ELSE {})
Encode(m, w, neg, rm) ==
    IF m = {} THEN (IF neg THEN SignBit(w) ELSE {})
    ELSE IF Max(m) <= FracBits(w) THEN Normal(m, Max(m), w, neg)
    ELSE LET k == Max(m) - FracBits(w)
             r == RoundAt(m, k, neg, rm)
         IN Normal(n!Up(r, k), Max(r) + k, w, neg)
FromInt(x, iw, w, rm) ==
    IF iw - 1 \in x THEN Encode(Opposite(x, iw), w, TRUE, rm) ELSE Encode(x, w, FALSE, rm)

(* Rounding to an integer that stays a number, with its sign.              *)
FRound(a, w, rm) ==
    IF Shift_(a, w) <= 0 THEN a ELSE Encode(Magnitude(a, w, rm), w, Negative(a, w), rm)

=============================================================================
