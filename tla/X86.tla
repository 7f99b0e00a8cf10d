-------------------------------- MODULE X86 ---------------------------------
(***************************************************************************)
(* The reference for Handlers: what the processor's manual says of the     *)
(* same instructions, in the same terms (states, instructions, operands)   *)
(* but defined directly, for operands of any width at once.  A state has   *)
(* one component more, x.u: the flags that are undefined after the last    *)
(* instruction that changed them.                                          *)
(***************************************************************************)
EXTENDS Integers, Sequences, FiniteSets, TLC

n == INSTANCE Rv64

AllFlags == {"cf", "pf", "af", "zf", "sf", "of"}

-----------------------------------------------------------------------------
(* Operands.                                                               *)

Truth(c) == n!Bool(c)
Plus(a, b, w) == n!Low(n!Sum(a, b), w)
Less(a, b) == n!Less(a, b)
Signed(a, w, wide) == n!Low(a, w) \cup (IF w - 1 \in a THEN w .. (wide - 1) ELSE {})

Address(x, o) ==
    LET part(r) == IF r = "none" THEN {} ELSE x.g[r]
    IN Plus(Plus(part(o.base), n!Up(part(o.index), o.scale), 64), o.disp, 64)
Load(x, a, w) == {b \in n!Bits(w) : 8 * n!Num(a) + b \in x.m}
Store(x, a, v, w) ==
    LET at == 8 * n!Num(a)
    IN [x EXCEPT !.m = {b \in @ : b < at \/ b >= at + w} \cup {at + b : b \in n!Low(v, w)}]
Register(x, r, w) == n!Low(x.g[r], w)
Assign(x, r, w, v) ==
    [x EXCEPT !.g[r] = (IF w >= 32 THEN {} ELSE {b \in @ : b >= w}) \cup n!Low(v, w)]
Read(x, o) ==
    CASE o.k = "imm" -> n!Low(o.v, o.w)
      [] o.k = "mem" -> Load(x, Address(x, o), o.w)
      [] o.k = "reg" -> IF o.hi THEN {b \in n!Bits(8) : b + 8 \in x.g[o.r]} ELSE Register(x, o.r, o.w)
Write(x, o, v) ==
    CASE o.k = "mem" -> Store(x, Address(x, o), v, o.w)
      [] o.k = "reg" -> IF o.hi THEN [x EXCEPT !.g[o.r] = (@ \ (8 .. 15)) \cup n!Up(n!Low(v, 8), 8)]
                        ELSE Assign(x, o.r, o.w, v)

(* Flags that become known, and flags that become undefined.               *)
Know(x, new) ==
    [x EXCEPT !.f = [fl \in DOMAIN new |-> Truth(new[fl])] @@ @, !.u = @ \ DOMAIN new]
Lose(x, flags) == [x EXCEPT !.u = @ \cup flags]
Result(v, w) ==
    [pf |-> Cardinality(v \cap n!Bits(8)) % 2 = 0, zf |-> v \cap n!Bits(w) = {}, sf |-> w - 1 \in v]
Set(x, fl) == x.f[fl] # {}

-----------------------------------------------------------------------------
(* Sums and differences: the exact result decides about carry, overflow    *)
(* and the carry out of the low four bits.                                 *)

SumOf(a, b, c, w) ==
    LET exact(p, q) == n!Sum(n!Sum(p, q), c)
        v == exact(a, b)
        z == exact(Signed(a, w, w + 2), Signed(b, w, w + 2))
    IN [v |-> n!Low(v, w),
        f |-> Result(v, w) @@ [cf |-> w \in v, of |-> (w \in z) # (w - 1 \in z),
                               af |-> 4 \in exact(n!Low(a, 4), n!Low(b, 4))]]
DifferenceOf(a, b, c, w) ==
    LET sub(y) == n!Sum(y, c)
        v == n!Low(n!Minus(a, sub(b)), w)
        z == n!Minus(Signed(a, w, w + 2), sub(Signed(b, w, w + 2)))
    IN [v |-> v,
        f |-> Result(v, w) @@ [cf |-> Less(a, sub(b)), of |-> (w \in z) # (w - 1 \in z),
                               af |-> Less(n!Low(a, 4), sub(n!Low(b, 4)))]]

Arithmetic(x, i) ==
    LET d == i.o[1]
        a == IF i.op = "neg" THEN {} ELSE Read(x, d)
        b == CASE i.op \in {"inc", "dec"} -> {0} [] i.op = "neg" -> Read(x, d) [] OTHER -> Read(x, i.o[2])
        c == IF i.op \in {"adc", "sbb"} THEN x.f.cf ELSE {}
        r == IF i.op \in {"add", "adc", "inc", "xadd"} THEN SumOf(a, b, c, d.w) ELSE DifferenceOf(a, b, c, d.w)
        keep == IF i.op \in {"inc", "dec"} THEN {"cf"} ELSE {}
        y == Know(x, [fl \in AllFlags \ keep |-> r.f[fl]])
    IN CASE i.op = "cmp" -> y
         [] i.op = "xadd" -> IF d.k = "mem" THEN Store(Write(y, i.o[2], a), Address(x, d), r.v, d.w)
                             ELSE Write(Write(y, i.o[2], a), d, r.v)
         [] OTHER -> Write(y, d, r.v)

Logical(x, i) ==
    LET d == i.o[1]
        a == Read(x, d)
        b == Read(x, i.o[2])
        v == CASE i.op = "or" -> a \cup b [] i.op = "xor" -> (a \cup b) \ (a \cap b) [] OTHER -> a \cap b
        y == Lose(Know(x, Result(v, d.w) @@ [cf |-> FALSE, of |-> FALSE]), {"af"})
    IN IF i.op = "test" THEN y ELSE Write(y, d, v)

-----------------------------------------------------------------------------
(* Shifts and rotations.  k is the masked count; a count of 0 changes no   *)
(* flag, and only a count of 1 defines OF.                                 *)

Times(x, i, o) == n!Num(n!Low(Read(x, o), IF i.w = 64 THEN 6 ELSE 5))
OnlyOnce(k, y) == IF k = 1 THEN y ELSE Lose(y, {"of"})
Shift(x, i, a, k) ==
    LET d == i.o[1]
        w == d.w
        v == CASE i.op = "shl" -> n!Low(n!Up(a, k), w)
               [] i.op = "shr" -> n!Down(a, k)
               [] i.op = "sar" -> n!Low(n!Down(Signed(a, w, 128), k), w)
        last == CASE i.op = "shl" -> w - k \in a
                  [] i.op = "shr" -> k - 1 \in a
                  [] i.op = "sar" -> k - 1 \in Signed(a, w, 128)
        of == CASE i.op = "shl" -> (w - 1 \in v) # last [] i.op = "shr" -> w - 1 \in a [] i.op = "sar" -> FALSE
        y == Lose(Know(x, Result(v, w) @@ [cf |-> last, of |-> of]), {"af"})
        z == IF i.op # "sar" /\ k >= w THEN Lose(y, {"cf"}) ELSE y
    IN Write(IF k = 0 THEN x ELSE OnlyOnce(k, z), d, v)
Rotate(x, i, a, k) ==
    LET d == i.o[1]
        w == d.w
        left == IF i.op = "rol" THEN k % w ELSE (w - (k % w)) % w
        v == {(b + left) % w : b \in a}
        cf == IF i.op = "rol" THEN 0 \in v ELSE w - 1 \in v
        of == (w - 1 \in v) # (IF i.op = "rol" THEN cf ELSE w - 2 \in v)
    IN Write(IF k = 0 THEN x ELSE OnlyOnce(k, Know(x, [cf |-> cf, of |-> of])), d, v)
RotateCarry(x, i) ==
    LET d == i.o[1]
        w == d.w
        k == Times(x, i, i.o[2])
        a == Read(x, d) \cup (IF Set(x, "cf") THEN {w} ELSE {})
        left == IF i.op = "rcl" THEN k % (w + 1) ELSE (w + 1 - (k % (w + 1))) % (w + 1)
        v == {(b + left) % (w + 1) : b \in a}
        of == (w - 1 \in v) # (IF i.op = "rcl" THEN w \in v ELSE w - 2 \in v)
    IN Write(IF k = 0 THEN x ELSE OnlyOnce(k, Know(x, [cf |-> w \in v, of |-> of])), d, v)
Double(x, i) ==
    LET d == i.o[1]
        w == d.w
        k == Times(x, i, i.o[3])
        a == Read(x, d)
        b == Read(x, i.o[2])
        v == IF i.op = "shld" THEN n!Low(n!Down(n!Up(a, w) \cup b, w - k), w)
             ELSE n!Low(n!Down(a \cup n!Up(b, w), k), w)
        cf == IF i.op = "shld" THEN w - k \in a ELSE k - 1 \in a
        y == Lose(Know(x, Result(v, w) @@ [cf |-> cf, of |-> (w - 1 \in v) # (w - 1 \in a)]), {"af"})
    IN Write(IF k = 0 THEN x ELSE OnlyOnce(k, y), d, v)

-----------------------------------------------------------------------------
(* Products and quotients of double width, in ax or in the two halves rax  *)
(* and rdx.                                                                *)

Pair(x, w) == IF w = 8 THEN Register(x, "rax", 16) ELSE Register(x, "rax", w) \cup n!Up(Register(x, "rdx", w), w)
SetPair(x, w, low, high) ==
    IF w = 8 THEN Assign(x, "rax", 16, low \cup n!Up(high, 8)) ELSE Assign(Assign(x, "rax", w, low), "rdx", w, high)
Opposite(v, w) == n!Low(n!Minus({}, v), w)
Absolute(v, w) == IF w - 1 \in v THEN Opposite(v, w) ELSE v

SignedTimes(a, b, w) ==
    LET m == n!Times(Absolute(a, w), Absolute(b, w))
    IN IF (w - 1 \in a) # (w - 1 \in b) THEN Opposite(m, 2 * w) ELSE m
SetProduct(x, i, v, w) ==
    LET low == n!Low(v, w)
        over == v # (IF i.op = "mul" THEN low ELSE Signed(low, w, 2 * w))
        y == Lose(Know(x, [cf |-> over, of |-> over]), {"pf", "af", "zf", "sf"})
    IN IF Len(i.o) = 1 THEN SetPair(y, w, low, n!Down(v, w)) ELSE Write(y, i.o[1], low)
Product(x, i) ==
    LET w == i.o[1].w
        a == CASE Len(i.o) = 1 -> Register(x, "rax", w)
               [] Len(i.o) = 2 -> Read(x, i.o[1])
               [] Len(i.o) = 3 -> Read(x, i.o[3])
        b == Read(x, i.o[IF Len(i.o) = 1 THEN 1 ELSE 2])
    IN SetProduct(x, i, IF i.op = "mul" THEN n!Times(a, b) ELSE SignedTimes(a, b, w), w)

(* The divisor is zero or the quotient too large: the processor faults.    *)
Quotient(x, i) ==
    LET w == i.o[1].w
        a == Pair(x, w)
        b == Read(x, i.o[1])
        q(p) == n!LongDivision(p[1], p[2]).q
        r(p) == n!LongDivision(p[1], p[2]).r
        mag == IF i.op = "div" THEN <<a, b>> ELSE <<Absolute(a, 2 * w), Absolute(b, w)>>
        negq == i.op = "idiv" /\ (2 * w - 1 \in a) # (w - 1 \in b)
        negr == i.op = "idiv" /\ 2 * w - 1 \in a
    IN SetPair(Lose(x, AllFlags), w, IF negq THEN Opposite(q(mag), w) ELSE q(mag),
                                     IF negr THEN Opposite(r(mag), w) ELSE r(mag))
Faults(x, i) ==
    LET w == i.o[1].w
        a == Pair(x, w)
        b == Read(x, i.o[1])
        mag == IF i.op = "div" THEN <<a, b>> ELSE <<Absolute(a, 2 * w), Absolute(b, w)>>
        q == n!LongDivision(mag[1], mag[2]).q
        negative == (2 * w - 1 \in a) # (w - 1 \in b)
    IN /\ i.op \in {"div", "idiv"}
       /\ \/ b = {}
          \/ ~Less(n!Down(mag[1], w), mag[2])
          \/ i.op = "idiv" /\ w - 1 \in q /\ ~(negative /\ q = {w - 1})

-----------------------------------------------------------------------------
(* Bits.                                                                   *)

Scan(x, i) ==
    LET w == i.o[1].w
        b == Read(x, i.o[2])
        first == IF i.op = "bsr" THEN CHOOSE p \in b : \A q \in b : q <= p
                 ELSE CHOOSE p \in b : \A q \in b : q >= p
        number == n!Word(IF b = {} THEN w ELSE first, 8)
        y == Lose(Know(x, [zf |-> b = {}]), AllFlags \ {"zf"})
    IN IF i.op = "tzcnt"
       THEN Write(Lose(Know(x, [cf |-> b = {}, zf |-> number = {}]), AllFlags \ {"zf", "cf"}), i.o[1], number)
       ELSE IF b = {} THEN y ELSE Write(y, i.o[1], number)
SwapBytes(x, i) ==
    LET w == i.o[1].w
    IN Write(x, i.o[1], {w - 8 - 8 * (b \div 8) + (b % 8) : b \in Read(x, i.o[1])})
(* The bit offset is taken modulo the width of a register, but addresses   *)
(* bits on both sides of an operand in memory.                             *)
TestBit(x, i) ==
    LET d == i.o[1]
        far == d.k = "mem" /\ i.o[2].k = "reg"
        offset == Signed(Read(x, i.o[2]), i.o[2].w, 64)
        bit == n!Num(offset \cap n!Bits(IF far THEN 3 ELSE CASE d.w = 16 -> 4 [] d.w = 32 -> 5 [] d.w = 64 -> 6))
        byte == Plus(Address(x, d), n!Low(n!Down(Signed(offset, 64, 67), 3), 64), 64)
        a == IF far THEN Load(x, byte, 8) ELSE Read(x, d)
        v == CASE i.op = "bts" -> a \cup {bit}
               [] i.op = "btr" -> a \ {bit}
               [] i.op = "btc" -> (a \cup {bit}) \ (a \cap {bit})
               [] i.op = "bt" -> a
        y == Lose(Know(x, [cf |-> bit \in a]), {"of", "sf", "af", "pf"})
    IN IF far THEN Store(y, byte, v, 8) ELSE IF i.op = "bt" THEN y ELSE Write(y, d, v)

-----------------------------------------------------------------------------
(* Compare and exchange.                                                   *)

CompareExchange(x, i) ==
    LET w == i.o[1].w
        a == Read(x, i.o[1])
        y == Know(x, DifferenceOf(Register(x, "rax", w), a, {}, w).f)
    IN IF Register(x, "rax", w) = a THEN Write(y, i.o[1], Read(x, i.o[2])) ELSE Assign(y, "rax", w, a)
CompareExchangePair(x, i) ==
    LET w == IF i.op = "cmpxchg16b" THEN 64 ELSE 32
        at == Address(x, i.o[1])
        a == Load(x, at, 2 * w)
        equal == a = Pair(x, w)
        y == Know(x, [zf |-> equal])
    IN IF equal THEN Store(y, at, Register(x, "rbx", w) \cup n!Up(Register(x, "rcx", w), w), 2 * w)
       ELSE SetPair(y, w, a, n!Down(a, w))

-----------------------------------------------------------------------------
(* Moves, the stack and the flags register.                                *)

Number(k) == n!Word(k, 8)
Minus(a, k) == n!Low(n!Minus(a, Number(k)), 64)
Extend(x, i) == Write(x, i.o[1], IF i.op = "movzx" THEN Read(x, i.o[2])
                                 ELSE Signed(Read(x, i.o[2]), i.o[2].w, i.o[1].w))
Exchange(x, i) ==
    LET a == Read(x, i.o[1])
    IN IF i.o[1].k = "mem" THEN Write(Store(x, Address(x, i.o[1]), Read(x, i.o[2]), i.o[1].w), i.o[2], a)
       ELSE Write(Write(x, i.o[2], a), i.o[1], Read(x, i.o[2]))
Widen(x, i) ==
    LET half(r, from, to) == Assign(x, r, to, Signed(Register(x, "rax", from), from, to))
        top(w) == Assign(x, "rdx", w, IF w - 1 \in x.g["rax"] THEN n!Bits(w) ELSE {})
    IN CASE i.op = "cbw" -> half("rax", 8, 16)
         [] i.op = "cwde" -> half("rax", 16, 32)
         [] i.op = "cdqe" -> half("rax", 32, 64)
         [] i.op = "cwd" -> top(16)
         [] i.op = "cdq" -> top(32)
         [] i.op = "cqo" -> top(64)

PushWord(x, v, w) ==
    LET top == Minus(x.g["rsp"], w \div 8) IN Assign(Store(x, top, v, w), "rsp", 64, top)
Popped(x, w) == Assign(x, "rsp", 64, Plus(x.g["rsp"], Number(w \div 8), 64))
Pop(x, i) == Write(Popped(x, i.w), i.o[1], Load(x, x.g["rsp"], i.w))
Leave(x) == Assign(Popped(Assign(x, "rsp", 64, x.g["rbp"]), 64), "rbp", 64, Load(x, x.g["rbp"], 64))

Place == [cf |-> 0, pf |-> 2, af |-> 4, zf |-> 6, sf |-> 7, of |-> 11]
(* Bit 1 is fixed, and interrupts are enabled in a user's process.         *)
FlagsImage(x) ==
    {Place[fl] : fl \in {g \in AllFlags : Set(x, g)}} \cup n!Up(x.df, 10) \cup n!Up(x.ac, 18)
      \cup n!Up(x.id, 21) \cup {1, 9}
LoadFlags(x, v) ==
    [Know(x, [fl \in AllFlags |-> Place[fl] \in v]) EXCEPT
       !.df = Truth(10 \in v), !.ac = Truth(18 \in v), !.id = Truth(21 \in v)]
AhFlags == AllFlags \ {"of"}

-----------------------------------------------------------------------------
(* Conditions and jumps.                                                   *)

Holds(x, c) ==
    LET even == CASE c \div 2 = 0 -> Set(x, "of")
                  [] c \div 2 = 1 -> Set(x, "cf")
                  [] c \div 2 = 2 -> Set(x, "zf")
                  [] c \div 2 = 3 -> Set(x, "cf") \/ Set(x, "zf")
                  [] c \div 2 = 4 -> Set(x, "sf")
                  [] c \div 2 = 5 -> Set(x, "pf")
                  [] c \div 2 = 6 -> Set(x, "sf") # Set(x, "of")
                  [] c \div 2 = 7 -> Set(x, "zf") \/ Set(x, "sf") # Set(x, "of")
    IN even # (c % 2 = 1)
Jump(x, to) == [x EXCEPT !.rip = to]
Branch(x, i, taken) == IF taken THEN Jump(x, i.target) ELSE x
CountDown(x, i) ==
    LET left == Minus(x.g["rcx"], 1)
        wanted == CASE i.op = "loop" -> TRUE [] i.op = "loope" -> Set(x, "zf") [] i.op = "loopne" -> ~Set(x, "zf")
    IN Branch(Assign(x, "rcx", 64, left), i, left # {} /\ wanted)
Destination(x, i) == IF i.o[1].k = "imm" THEN i.target ELSE Read(x, i.o[1])
Return(x, i) ==
    LET extra == IF i.o = <<>> THEN {} ELSE i.o[1].v
        y == Popped(x, 64)
    IN Jump(Assign(y, "rsp", 64, Plus(y.g["rsp"], extra, 64)), Load(x, x.g["rsp"], 64))

-----------------------------------------------------------------------------
(* String instructions.                                                    *)

Along(x, i, r) ==
    Assign(x, r, 64, IF x.df = {} THEN Plus(x.g[r], Number(i.w \div 8), 64) ELSE Minus(x.g[r], i.w \div 8))
Element(x, i) ==
    LET from == Load(x, x.g["rsi"], i.w)
        to == Load(x, x.g["rdi"], i.w)
        a == Register(x, "rax", i.w)
    IN CASE i.op = "movs" -> Along(Along(Store(x, x.g["rdi"], from, i.w), i, "rdi"), i, "rsi")
         [] i.op = "stos" -> Along(Store(x, x.g["rdi"], a, i.w), i, "rdi")
         [] i.op = "lods" -> Along(Assign(x, "rax", i.w, from), i, "rsi")
         [] i.op = "cmps" -> Along(Along(Know(x, DifferenceOf(from, to, {}, i.w).f), i, "rdi"), i, "rsi")
         [] i.op = "scas" -> Along(Know(x, DifferenceOf(a, to, {}, i.w).f), i, "rdi")
RECURSIVE Elements(_, _)
Elements(x, i) ==
    LET y == Element(x, i)
        z == Assign(y, "rcx", 64, Minus(y.g["rcx"], 1))
    IN IF x.g["rcx"] = {} THEN x
       ELSE IF i.op \in {"cmps", "scas"} /\ Set(z, "zf") # (i.rep = "repz") THEN z
       ELSE Elements(z, i)

-----------------------------------------------------------------------------
(* One instruction.                                                        *)

Families ==
    [arithmetic |-> {"add", "adc", "sub", "sbb", "cmp", "inc", "dec", "neg", "xadd"},
     logical |-> {"and", "or", "xor", "test"},
     shift |-> {"shl", "shr", "sar"},
     double |-> {"shld", "shrd"},
     rotate |-> {"rol", "ror"},
     carry |-> {"rcl", "rcr"},
     product |-> {"mul", "imul"},
     quotient |-> {"div", "idiv"},
     scan |-> {"bsf", "bsr", "tzcnt"},
     bit |-> {"bt", "bts", "btr", "btc"},
     extend |-> {"movzx", "movsx", "movsxd"},
     widen |-> {"cbw", "cwde", "cdqe", "cwd", "cdq", "cqo"},
     pair |-> {"cmpxchg8b", "cmpxchg16b"},
     countdown |-> {"loop", "loope", "loopne"},
     string |-> {"movs", "cmps", "scas", "lods", "stos"}]
Family(i) ==
    IF \E k \in DOMAIN Families : i.op \in Families[k]
    THEN CHOOSE k \in DOMAIN Families : i.op \in Families[k]
    ELSE i.op

Execute(s, i) ==
    LET x == [s EXCEPT !.rip = i.next]
        fam == Family(i)
    IN CASE fam = "arithmetic" -> Arithmetic(x, i)
         [] fam = "logical" -> Logical(x, i)
         [] fam = "shift" -> Shift(x, i, Read(x, i.o[1]), Times(x, i, i.o[2]))
         [] fam = "double" -> Double(x, i)
         [] fam = "rotate" -> Rotate(x, i, Read(x, i.o[1]), Times(x, i, i.o[2]))
         [] fam = "carry" -> RotateCarry(x, i)
         [] fam = "product" -> Product(x, i)
         [] fam = "quotient" -> Quotient(x, i)
         [] fam = "scan" -> Scan(x, i)
         [] fam = "bit" -> TestBit(x, i)
         [] fam = "extend" -> Extend(x, i)
         [] fam = "widen" -> Widen(x, i)
         [] fam = "pair" -> CompareExchangePair(x, i)
         [] fam = "countdown" -> CountDown(x, i)
         [] fam = "string" -> IF i.rep = "none" THEN Element(x, i) ELSE Elements(x, i)
         [] fam = "not" -> Write(x, i.o[1], n!Bits(i.o[1].w) \ Read(x, i.o[1]))
         [] fam = "bswap" -> SwapBytes(x, i)
         [] fam = "cmpxchg" -> CompareExchange(x, i)
         [] fam = "mov" -> Write(x, i.o[1], Read(x, i.o[2]))
         [] fam = "lea" -> Write(x, i.o[1], Address(x, i.o[2]))
         [] fam = "xchg" -> Exchange(x, i)
         [] fam = "cmov" -> Write(x, i.o[1], Read(x, IF Holds(x, i.cond) THEN i.o[2] ELSE i.o[1]))
         [] fam = "setcc" -> Write(x, i.o[1], Truth(Holds(x, i.cond)))
         [] fam = "push" -> PushWord(x, Signed(Read(x, i.o[1]), i.o[1].w, 64), i.w)
         [] fam = "pop" -> Pop(x, i)
         [] fam = "leave" -> Leave(x)
         [] fam = "pushf" -> PushWord(x, FlagsImage(x), 64)
         [] fam = "popf" -> LoadFlags(Popped(x, 64), Load(x, x.g["rsp"], 64))
         [] fam = "lahf" -> [x EXCEPT !.g["rax"] = (@ \ (8 .. 15)) \cup
                               {8 + Place[fl] : fl \in {h \in AhFlags : Set(x, h)}} \cup {9}]
         [] fam = "sahf" -> Know(x, [fl \in AhFlags |-> 8 + Place[fl] \in x.g["rax"]])
         [] fam = "clc" -> Know(x, [cf |-> FALSE])
         [] fam = "stc" -> Know(x, [cf |-> TRUE])
         [] fam = "cmc" -> Know(x, [cf |-> ~Set(x, "cf")])
         [] fam = "cld" -> [x EXCEPT !.df = {}]
         [] fam = "std" -> [x EXCEPT !.df = {0}]
         [] fam = "jcc" -> Branch(x, i, Holds(x, i.cond))
         [] fam = "jrcxz" -> Branch(x, i, Register(x, "rcx", i.w) = {})
         [] fam = "jmp" -> Jump(x, Destination(x, i))
         [] fam = "call" -> Jump(PushWord(x, i.next, 64), Destination(x, i))
         [] fam = "ret" -> Return(x, i)

(* The decoder's table of the flags an instruction may read and change.    *)
CondFlags(c) ==
    LET k == c \div 2
    IN CASE k = 0 -> {"of"} [] k = 1 -> {"cf"} [] k = 2 -> {"zf"} [] k = 3 -> {"cf", "zf"}
         [] k = 4 -> {"sf"} [] k = 5 -> {"pf"} [] k = 6 -> {"sf", "of"} [] k = 7 -> {"sf", "of", "zf"}
Tested(i) ==
    CASE i.op \in {"adc", "sbb", "rcl", "rcr", "cmc"} -> {"cf"}
      [] i.op \in {"jcc", "setcc", "cmov"} -> CondFlags(i.cond)
      [] i.op = "pushf" -> AllFlags
      [] i.op = "lahf" -> AhFlags
      [] i.op \in {"loope", "loopne"} -> {"zf"}
      [] i.op \in {"cmps", "scas"} /\ i.rep # "none" -> {"zf"}
      [] OTHER -> {}
Changed(i) ==
    CASE Family(i) \in {"arithmetic", "logical", "shift", "double", "product", "quotient", "scan"}
           -> AllFlags \ (IF i.op \in {"inc", "dec"} THEN {"cf"} ELSE {})
      [] i.op \in {"cmpxchg", "cmps", "scas", "popf"} -> AllFlags
      [] Family(i) \in {"rotate", "carry"} -> {"cf", "of"}
      [] Family(i) = "bit" -> AllFlags \ {"zf"}
      [] Family(i) = "pair" -> {"zf"}
      [] i.op = "sahf" -> AhFlags
      [] i.op \in {"clc", "stc", "cmc"} -> {"cf"}
      [] OTHER -> {}
EndsBlock(i) == i.op \in {"jcc", "jrcxz", "loop", "loope", "loopne", "jmp", "call", "ret"}

=============================================================================
