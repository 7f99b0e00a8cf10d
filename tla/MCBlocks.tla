------------------------------ MODULE MCBlocks ------------------------------
(***************************************************************************)
(* Programs and inputs for Blocks.  A program of one instruction and a     *)
(* jump needs every flag at its end; programs of several instructions let  *)
(* the translator leave flags out, or run through more than one block.     *)
(***************************************************************************)
EXTENDS Blocks

W(k) == as!Word(k, 16)
Operand == [k |-> "none", w |-> 64, r |-> "none", hi |-> FALSE, base |-> "none",
            index |-> "none", scale |-> 0, disp |-> {}, v |-> {}]
Reg(r, w) == [Operand EXCEPT !.k = "reg", !.r = r, !.w = w]
High(r) == [Operand EXCEPT !.k = "reg", !.r = r, !.w = 8, !.hi = TRUE]
Mem(base, w) == [Operand EXCEPT !.k = "mem", !.base = base, !.w = w]
Indexed(base, index, scale, disp, w) ==
    [Operand EXCEPT !.k = "mem", !.base = base, !.index = index, !.scale = scale, !.disp = disp, !.w = w]
Imm(v, w) == [Operand EXCEPT !.k = "imm", !.v = v, !.w = w]

I(op, operands, w) == [op |-> op, o |-> operands, w |-> w, lock |-> FALSE, rep |-> "none",
                       cond |-> 0, target |-> W(99)]
Lock(i) == [i EXCEPT !.lock = TRUE]
If(i, c) == [i EXCEPT !.cond = c]
To(i, k) == [i EXCEPT !.target = W(k)]
Leave_ == I("jmp", <<Imm({}, 32)>>, 64)
Single(i) == <<i, Leave_>>
Singles(S) == {Single(i) : i \in S}

-----------------------------------------------------------------------------
(* Single instructions in the forms their operands have.                   *)

Widths == {8, 16, 32, 64}
Parts == {16, 32, 64}
A(w) == Reg("rax", w)
B(w) == Reg("rbx", w)
M(w) == Mem("rsi", w)
MinusTwo == as!NEG({1})

Sources(w) == {<<A(w), B(w)>>, <<M(w), B(w)>>, <<B(w), M(w)>>, <<A(w), Imm(MinusTwo, w)>>}
              \cup (IF w = 8 THEN {<<High("rax"), B(8)>>, <<B(8), High("rax")>>} ELSE {})
Targets(w) == {A(w), M(w)} \cup (IF w = 8 THEN {High("rax")} ELSE {})

Binary == {"add", "sub", "adc", "sbb", "cmp", "or", "xor", "and", "test", "mov"}
Unary == {"inc", "dec", "not", "neg"}
Lockable == {"add", "sub", "or", "xor", "and", "xadd", "cmpxchg"}
Arithmetic_ ==
    UNION {{I(op, o, w) : op \in Binary, o \in Sources(w)} \cup {I(op, <<o>>, w) : op \in Unary, o \in Targets(w)}
           : w \in Widths}
      \cup {I("xor", <<A(w), A(w)>>, w) : w \in Widths}
Exchanges ==
    UNION {{I(op, <<o, B(w)>>, w) : op \in {"xadd", "cmpxchg", "xchg"}, o \in {A(w), M(w), Reg("rdx", w)}} : w \in Widths}
      \cup UNION {{Lock(I(op, <<M(w), B(w)>>, w)) : op \in Lockable} : w \in Widths}
      \cup UNION {{Lock(I(op, <<M(w)>>, w)) : op \in {"inc", "dec"}} : w \in Widths}
      \cup {I("cmpxchg8b", <<M(64)>>, 64), I("cmpxchg16b", <<M(64)>>, 64)}

C8 == Reg("rcx", 8)
Shifts ==
    UNION {{I(op, <<o, c>>, w) : op \in {"shl", "shr", "sar", "rol", "ror", "rcl", "rcr"}, o \in Targets(w),
              c \in {C8} \cup {Imm(W(k), 8) : k \in {0, 1, 3}}} : w \in Widths}
      \cup UNION {{I(op, <<o, B(w), c>>, w) : op \in {"shld", "shrd"}, o \in {A(w), M(w)}, c \in {C8, Imm(W(3), 8)}}
                  : w \in Parts}

Moves ==
    UNION {{I(op, <<A(w), o>>, w) : op \in {"movzx", "movsx"}, o \in {B(8), M(8), High("rbx")} \cup
              (IF w = 16 THEN {} ELSE {B(16)})} : w \in Parts}
      \cup {I("movsxd", <<A(64), B(32)>>, 64)}
      \cup UNION {{I("lea", <<A(w), Indexed("rsi", "rbx", 2, MinusTwo, w)>>, w), I("bswap", <<A(w)>>, w)} : w \in {32, 64}}
      \cup {If(I("cmov", <<A(w), B(w)>>, w), c) : w \in Parts, c \in 0 .. 15}
      \cup {If(I("setcc", <<o>>, 8), c) : c \in 0 .. 15, o \in {A(8), High("rax")}}
      \cup {I(op, <<>>, 64) : op \in {"cbw", "cwde", "cdqe", "cwd", "cdq", "cqo"}}
Stack_ ==
    {I("push", <<o>>, o.w) : o \in {A(64), A(16), M(64), Reg("rsp", 64)}}
      \cup {I("push", <<Imm(MinusTwo, 8)>>, 64)}
      \cup {I("pop", <<o>>, o.w) : o \in {A(64), A(16), M(64), Reg("rsp", 64)}}
      \cup {I(op, <<>>, 64) : op \in {"leave", "pushf", "popf", "lahf", "sahf", "clc", "stc", "cmc", "cld", "std"}}
Products ==
    UNION {{I(op, <<o>>, w) : op \in {"mul", "imul", "div", "idiv"}, o \in {B(w), M(w)}} : w \in Widths}
      \cup UNION {{I("imul", <<A(w), B(w)>>, w), I("imul", <<A(w), B(w), Imm(MinusTwo, w)>>, w)} : w \in Parts}
BitOps ==
    UNION {{I(op, <<A(w), B(w)>>, w) : op \in {"bsf", "bsr", "tzcnt"}}
           \cup {I(op, <<o, s>>, w) : op \in {"bt", "bts", "btr", "btc"}, o \in {A(w), M(w)}, s \in {B(w), Imm(W(17), 8)}}
           : w \in Parts}
Strings ==
    {[I(op, <<>>, w) EXCEPT !.rep = rep] : op \in {"movs", "stos"}, w \in Widths, rep \in {"none", "rep"}}
      \cup {[I(op, <<>>, w) EXCEPT !.rep = rep] : op \in {"cmps", "scas"}, w \in Widths, rep \in {"none", "repz", "repnz"}}
      \cup {I("lods", <<>>, w) : w \in Widths}

(* Jumps end a block themselves; the call's target is the return.          *)
Jumps ==
    {<<To(If(I("jcc", <<Imm({}, 32)>>, 64), c), 3), I("clc", <<>>, 64), Leave_>> : c \in 0 .. 15}
      \cup {<<To(I(op, <<Imm({}, 8)>>, 64), 3), I("clc", <<>>, 64), Leave_>> : op \in {"loop", "loope", "loopne"}}
      \cup {<<To(I("jrcxz", <<Imm({}, 8)>>, w), 3), I("clc", <<>>, 64), Leave_>> : w \in {32, 64}}
      \cup {<<To(I("call", <<Imm({}, 32)>>, 64), 3), Leave_, I("stc", <<>>, 64), r>>
            : r \in {I("ret", <<>>, 64), I("ret", <<Imm(W(8), 16)>>, 64)}}
      \cup {<<I("mov", <<Reg("rdx", 32), Imm(W(4), 32)>>, 32), I("call", <<Reg("rdx", 64)>>, 64), Leave_,
              I("cmc", <<>>, 64), I("ret", <<>>, 64)>>,
            <<I("mov", <<Reg("rdx", 32), Imm(W(4), 32)>>, 32), I("jmp", <<Reg("rdx", 64)>>, 64), Leave_,
              I("inc", <<A(64)>>, 64), Leave_>>}

-----------------------------------------------------------------------------
(* Programs in which flags are left out: by the next instruction all are   *)
(* changed, or some are read, changed or left alone.                       *)

Quick ==
    UNION {{I(op, o, w) : op \in {"add", "sub", "or", "xor"}, o \in Sources(w)} : w \in Widths}
      \cup UNION {{I(op, <<o, C8>>, w) : op \in {"shl", "shr"}, o \in Targets(w)} : w \in Widths}
      \cup UNION {{I("imul", <<A(w), B(w)>>, w), I("imul", <<A(w), M(w), Imm(MinusTwo, w)>>, w)} : w \in Parts}
      \cup UNION {{I("rol", <<A(w), Imm(W(3), 8)>>, w)} : w \in {32, 64}}
      \cup UNION {{I("cmpxchg", <<M(w), B(w)>>, w)} : w \in Widths}
Hidden == {<<i, I("cmp", <<Reg("rcx", 64), Reg("rdx", 64)>>, 64), Leave_>> : i \in Quick}

Producers ==
    {I("add", <<A(8), B(8)>>, 8), I("adc", <<A(32), B(32)>>, 32), I("cmp", <<A(64), B(64)>>, 64), I("inc", <<A(8)>>, 8),
     I("test", <<A(16), B(16)>>, 16), I("shl", <<A(32), C8>>, 32), I("ror", <<A(64), Imm(W(3), 8)>>, 64),
     I("imul", <<A(32), B(32)>>, 32), I("bts", <<A(32), B(32)>>, 32), I("cmpxchg", <<M(8), B(8)>>, 8),
     I("xadd", <<A(16), B(16)>>, 16), I("clc", <<>>, 64)}
Consumers ==
    {I("adc", <<A(8), B(8)>>, 8), I("sub", <<A(8), B(8)>>, 8), I("dec", <<M(16)>>, 16), I("test", <<B(8), B(8)>>, 8),
     I("shl", <<B(64), C8>>, 64), I("sar", <<A(16), Imm(W(1), 8)>>, 16), I("rol", <<A(64), C8>>, 64),
     I("rcl", <<A(32), C8>>, 32), I("shrd", <<A(32), B(32), C8>>, 32), I("mul", <<B(16)>>, 16), I("bsf", <<A(32), B(32)>>, 32),
     I("bt", <<A(32), B(32)>>, 32), I("lahf", <<>>, 64), I("sahf", <<>>, 64), I("pushf", <<>>, 64), I("popf", <<>>, 64),
     I("cmc", <<>>, 64), I("not", <<A(8)>>, 8), I("scas", <<>>, 8), [I("cmps", <<>>, 16) EXCEPT !.rep = "repz"],
     I("cmpxchg16b", <<M(64)>>, 64)}
      \cup {If(I("setcc", <<A(8)>>, 8), c) : c \in {0, 2, 7, 10, 15}}
Followed == {<<i, j, Leave_>> : i \in Producers, j \in Consumers}
      \cup {<<i, j, If(I("cmov", <<B(64), A(64)>>, 64), c), To(I("loope", <<Imm({}, 8)>>, 64), 1), Leave_>>
            : i \in {I("add", <<A(8), B(8)>>, 8), I("dec", <<M(16)>>, 16)},
              j \in {I("clc", <<>>, 64), I("shr", <<B(64), C8>>, 64), I("sbb", <<A(8), B(8)>>, 8)}, c \in {2, 4, 12}}

-----------------------------------------------------------------------------
(* Inputs: the edges of the width, below other bits of the register.       *)

Edges(w) == {{}, {0}, as!Bits(w - 1), {w - 1}, as!Bits(w)}
Others(w) == {{0}, {w - 1}, as!Bits(w), {3, 4}}
Junk == {9, 17, 40, 63}
Fill(a, w) == a \cup (IF w = 8 THEN as!Up(a, 8) ELSE {}) \cup (Junk \ as!Bits(IF w = 8 THEN 16 ELSE w))

State(a, b, c, d, f, w) ==
    [g |-> [rax |-> Fill(a, w), rbx |-> Fill(b, w), rcx |-> c, rdx |-> d, rsi |-> W(64), rdi |-> W(81),
            rsp |-> W(120), rbp |-> W(112)],
     m |-> as!Up(as!Low(a, w), 8 * 64) \cup as!Up(as!Low(b, w), 8 * 82) \cup as!Up({1, 7, 8, 11}, 8 * 62) \cup as!Up({0, 6, 11, 32}, 8 * 112) \cup as!Up({2, 7, 33}, 8 * 120),
     f |-> [fl \in Flags |-> as!Bool(fl \in f)], df |-> {}, id |-> {}, ac |-> {}, rip |-> {}]

NoneOrAll == {{}, Flags}
Counts(w) == {W(k) : k \in {0, 1, 2, w - 1, w, w + 1, 63}}
Registers(i) == \A k \in 1 .. Len(i.o) : i.o[k].k = "reg" /\ ~i.o[k].hi
MCInputs(p) ==
    LET i == p[1]
        w == i.w
        fam == ref!Family(i)
        as_ == IF Registers(i) THEN Edges(w) ELSE {as!Bits(w - 1), {w - 1}}
    IN CASE i.op \in {"jcc", "setcc", "cmov"}
              -> {State({}, as!Bits(w), W(1), {}, f, w) : f \in SUBSET {"cf", "zf", "sf", "of", "pf"}}
         [] Len(p) > 2 /\ fam \in {"arithmetic", "logical", "shift", "rotate", "product", "bit", "cmpxchg", "clc"}
              -> {State(a, b, c, {}, {"cf", "sf"}, w) : a \in {as!Bits(w - 1), {w - 1}}, b \in {{0}, {w - 1}}, c \in {{}, {1}}}
         [] fam \in {"shift", "rotate", "carry", "double"}
              -> {State(a, {0, 2, w - 1}, c, {}, f, w) : a \in as_,
                     c \in (IF i.o[Len(i.o)].k = "reg" THEN Counts(w) ELSE {{}}), f \in NoneOrAll}
         [] fam \in {"product", "quotient"}
              -> {State(a, b, {}, d, Flags, w) : a \in Edges(w) \ {{}}, b \in Others(w), d \in {{}, {0}, as!Ones}}
         [] fam = "string"
              -> {[State(a, b, c, {}, {"cf"}, w) EXCEPT !.df = d] :
                     a \in {{}, {9}}, b \in {{0, 17}}, c \in {W(k) : k \in 0 .. 3}, d \in {{}, {0}}}
         [] fam = "bit"
              -> {State(a, b, {}, {}, f, 64) : a \in {{1, 17}, as!Bits(w)}, f \in NoneOrAll,
                     b \in {W(1), W(17), as!NEG(W(1)), as!NEG(W(8)), as!NEG(W(14))}}
         [] fam \in {"countdown", "jrcxz"}
              -> {State({}, {}, c, {}, f, w) : c \in {{}, {0}, {1}, {40}}, f \in NoneOrAll}
         [] fam = "pair"
              -> {State(a, b, c, d, f, w) : a \in {{}, {3}, {32}}, b \in {{0}}, c \in {{}, {1}}, d \in {{}, {0}}, f \in NoneOrAll}
         [] OTHER
              -> {State(a, b, W(2), {5}, f, w) : a \in as_, b \in Others(w), f \in NoneOrAll}
(* A host without B merges high bytes differently.                         *)
MCHosts(p) == {[B |-> b, opts |-> TRUE, unsafe |-> u] :
                 b \in (IF Len(p) = 2 /\ p[1].w = 8 THEN BOOLEAN ELSE {TRUE}),
                 u \in (IF \E k \in 1 .. Len(p) : p[k].op \in {"call", "ret"} THEN BOOLEAN ELSE {FALSE})}

MCPrograms ==
    Singles(Arithmetic_ \cup Exchanges \cup Shifts \cup Moves \cup Stack_ \cup Products \cup BitOps \cup Strings)
      \cup Jumps \cup Hidden \cup Followed

=============================================================================
