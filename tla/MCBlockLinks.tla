---------------------------- MODULE MCBlockLinks ----------------------------
(***************************************************************************)
(* Guest programs for BlockLinks.  Host code of a block is given word by   *)
(* word; the two words of a link are jumpAndLink's.                        *)
(***************************************************************************)
EXTENDS BlockLinks, TLC

CONSTANTS a, b, c, p, q

Goto(r) == <<<<"addi", r>>, <<"link", r>>, <<"pad", r>>>>
Again(r) == <<<<"link", r>>, <<"pad", r>>>>
Return == <<<<"ret", 0>>, <<"back1", 0>>, <<"back2", 0>>>>
Op == <<<<"op", 0>>>>
StoreTo(page) == <<<<"store", page>>>>

\* a runs into b, b branches to a or c, c writes to the page of b and itself and
\* returns to any of them.
MCProg == a :> (Op \o Op \o StoreTo(q) \o Goto(b))
       @@ b :> (Op \o <<<<"bnez", 3>>>> \o Goto(a) \o Goto(c))
       @@ c :> (Op \o Op \o StoreTo(q) \o Return)

\* Blocks that do not write to code.
MCProgPure == a :> (Op \o Op \o Goto(b))
           @@ b :> (Op \o <<<<"bnez", 3>>>> \o Goto(a) \o Goto(c))
           @@ c :> (Op \o Op \o Return)

\* A guest that writes to its own code, and one whose code other threads change.
MCGuests == "own" :> [prog |-> MCProg, remote |-> FALSE]
         @@ "others" :> [prog |-> MCProgPure, remote |-> TRUE]

\* Guests for which the properties do not hold: "x: jmp x" and a block after it,
\* "x: jmp y" of three words, and blocks whose first or second word is a store to
\* their own page.
Later == b :> (Op \o Op \o Goto(a)) @@ c :> (Op \o Op \o Goto(a))
MCSelfJump == "self" :> [prog |-> a :> Again(a) @@ Later, remote |-> TRUE]
MCShort == "short" :> [prog |-> a :> Goto(b) @@ Later, remote |-> TRUE]
MCFirst == "first" :> [prog |-> a :> (StoreTo(p) \o Op \o Goto(b)) @@ Later, remote |-> FALSE]
MCSecond == "second" :> [prog |-> a :> (Op \o StoreTo(p) \o Goto(b)) @@ Later, remote |-> FALSE]

MCPageOf == a :> p @@ b :> q @@ c :> q

\* a and b share a slot of the address cache.
MCSlot == a :> 1 @@ b :> 1 @@ c :> 2

=============================================================================
