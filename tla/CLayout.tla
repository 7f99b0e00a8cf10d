------------------------------ MODULE CLayout ------------------------------
(***************************************************************************)
(* Structures of C in memory.  A byte of the model holds one bit, so that  *)
(* a number of w bytes is a subset of 0..w-1, memory is the set of the     *)
(* offsets of the bytes that hold a 1, and what matters of a conversion -  *)
(* where a field is, how wide it is and what becomes of the upper half of  *)
(* a wider number - is still there.                                        *)
(***************************************************************************)
EXTENDS Integers, SequencesExt, FiniteSetsExt

Low(v, w) == v \cap 0..(w - 1)
SignExtend(v, w) == IF w - 1 \in v THEN v \cup w..7 ELSE v
ShiftLeft(v, n) == {b + n : b \in v}
ShiftRight(v, n) == {b - n : b \in {x \in v : x >= n}}
Join(low, high) == low \cup ShiftLeft(high, 4)
RoundUp(n, a) == ((n + a - 1) \div a) * a
Number(v) == MapThenSumSet(LAMBDA b : 2 ^ b, v)

(***************************************************************************)
(* A field: the field of the host's structure that it is filled from and   *)
(* that is filled from it, its width and alignment in bytes, the bit of    *)
(* the number it starts at, and whether it is signed.  A field without a   *)
(* name is left alone, one with the name "zero" is cleared.                *)
(***************************************************************************)
F(of, width) == [of |-> of, width |-> width, align |-> width, from |-> 0, signed |-> FALSE]
S(of, width) == [F(of, width) EXCEPT !.signed = TRUE]
High(of) == [F(of, 4) EXCEPT !.from = 4]
Gap(width) == F("", width)
Bytes(n) == [F("", n) EXCEPT !.align = 1]
Words(names) == [n \in DOMAIN names |-> F(names[n], 4)]

\* A structure: its fields, where they are, which of them have a name, the bytes
\* of those and the names.
Laid(fields, at, size, named) ==
    [fields |-> fields, at |-> at, size |-> size, named |-> named,
     bytes |-> UNION {at[i]..(at[i] + fields[i].width - 1) : i \in named},
     names |-> {fields[i].of : i \in named} \ {"zero"}]
\* Every field at the next multiple of its alignment, or of `most`.
Struct(fields, most) ==
    LET align(i) == IF fields[i].align < most THEN fields[i].align ELSE most
        end[i \in 0..Len(fields)] == IF i = 0 THEN 0 ELSE RoundUp(end[i - 1], align(i)) + fields[i].width
    IN  Laid(fields, [i \in DOMAIN fields |-> RoundUp(end[i - 1], align(i))],
             RoundUp(end[Len(fields)], Max({align(i) : i \in DOMAIN fields})), {i \in DOMAIN fields : fields[i].of # ""})

Natural(fields) == Struct(fields, 8)        \* the compiler of the host
Packed(fields) == Struct(fields, 1)
I386(fields) == Struct(fields, 4)

BytesOf(s, i) == s.at[i]..(s.at[i] + s.fields[i].width - 1)

\* The number a field contributes, and what its bytes become.
Part(s, i, mem) ==
    LET f == s.fields[i]
        v == {b - s.at[i] : b \in mem \cap BytesOf(s, i)}
    IN  IF f.signed THEN SignExtend(v, f.width) ELSE ShiftLeft(v, f.from)
Image(s, i, host) ==
    LET f == s.fields[i]
    IN  IF f.of = "zero" THEN {} ELSE ShiftLeft(Low(ShiftRight(host[f.of], f.from), f.width), s.at[i])

\* What is read from memory, and what becomes of memory when the fields with
\* a name are assigned and the other bytes of the structure get those of junk.
Loaded(s, mem) == [n \in s.names |-> UNION {Part(s, i, mem) : i \in {j \in s.named : s.fields[j].of = n}}]
Padding(s) == 0..(s.size - 1) \ s.bytes
Assigned(s, mem, host) == (mem \ s.bytes) \cup UNION {Image(s, i, host) : i \in s.named}
Copied(s, mem, host, junk) == (Assigned(s, mem, host) \ Padding(s)) \cup (junk \cap Padding(s))

\* The structures of an array.
Window(s, mem, n) == {b - (n - 1) * s.size : b \in mem \cap ((n - 1) * s.size)..(n * s.size - 1)}
LoadedAll(s, mem, count) == [n \in 1..count |-> Loaded(s, Window(s, mem, n))]
AssignedAll(s, mem, hosts) ==
    {b \in mem : b >= Len(hosts) * s.size}
        \cup UNION {ShiftLeft(Assigned(s, Window(s, mem, n), hosts[n]), (n - 1) * s.size) : n \in DOMAIN hosts}

-----------------------------------------------------------------------------
(* What a call comes to: the memory it leaves, what the kernel is told, the *)
(* result, and what is remembered.                                          *)

Nothing == [n \in {} |-> {}]
Reply(mem, told, result, state) == [mem |-> mem, told |-> told, result |-> result, kept |-> state, loose |-> {}]
Result(c) == IF c.ok THEN "done" ELSE "fails"
Only(r, names) == [n \in DOMAIN r \cap names |-> r[n]]
=============================================================================
