------------------------------ MODULE FileTree ------------------------------
(***************************************************************************)
(* The kernel's side of the calls on names of files, as far as felix86     *)
(* relies on it (external).  A tree is a function from paths, sequences of *)
(* names below the root of the tree, to nodes.  The text a program writes  *)
(* for a name is a record of its names and of whether it starts with a     *)
(* slash.  The same operators serve the tree of the host, on which felix86 *)
(* works, and the tree a guest program believes to see.                    *)
(***************************************************************************)
EXTENDS Integers, SequencesExt, FiniteSetsExt

CONSTANT
    Mounts      \* names of the root directory where other file systems start

Closed == <<"closed">>       \* what a descriptor that is not open refers to
MaxLinks == 5                \* links followed before ELOOP (40 in Linux)

Absolute(names) == [abs |-> TRUE, names |-> names]
Relative(names) == [abs |-> FALSE, names |-> names]
Dir(id) == [kind |-> "dir", id |-> id, mode |-> 0, to |-> Relative(<<>>)]
File(id) == [Dir(id) EXCEPT !.kind = "file"]
Link(id, text) == [Dir(id) EXCEPT !.kind = "link", !.to = text]

Device(p) == IF p # <<>> /\ p[1] \in Mounts THEN p[1] ELSE "disk"
IsTop(p) == p = <<>> \/ (Len(p) = 1 /\ p[1] \in Mounts)
Parent(p) == IF p = <<>> THEN p ELSE Front(p)
Inside(p, q) == IsPrefix(p, q)
Plus(tree, p, node) == [q \in DOMAIN tree \cup {p} |-> IF q = p THEN node ELSE tree[q]]
Minus(tree, ps) == [q \in DOMAIN tree \ ps |-> tree[q]]

(***************************************************************************)
(* The walk over names that starts in directory `at`.  The last name may   *)
(* be missing (found is FALSE then); if follow is FALSE a link in the last *)
(* place is not followed.  `up` tells that .. was taken at the top of a    *)
(* file system, `via` which links were followed.                           *)
(***************************************************************************)
RECURSIVE Steps(_, _, _, _, _)
Steps(tree, names, follow, links, w) ==
    IF names = <<>> \/ w.err # "ok" THEN w
    ELSE LET rest == Tail(names)
             p == Append(w.path, names[1])
             on == [w EXCEPT !.path = p]
             Stop(err) == [w EXCEPT !.err = err, !.found = FALSE]
         IN  CASE w.path \notin DOMAIN tree -> Stop("ENOENT")
               [] tree[w.path].kind # "dir" -> Stop("ENOTDIR")
               [] names[1] = "." -> Steps(tree, rest, follow, links, w)
               [] names[1] = ".." -> Steps(tree, rest, follow, links,
                      [w EXCEPT !.path = Parent(@), !.up = @ \/ IsTop(w.path)])
               [] p \notin DOMAIN tree ->
                      IF rest = <<>> THEN [on EXCEPT !.found = FALSE] ELSE Stop("ENOENT")
               [] tree[p].kind = "link" /\ (follow \/ rest # <<>>) ->
                      IF links = 0 THEN Stop("ELOOP")
                      ELSE Steps(tree, tree[p].to.names \o rest, follow, links - 1,
                             [w EXCEPT !.path = IF tree[p].to.abs THEN <<>> ELSE @,
                                       !.via = @ \cup {p}])
               [] OTHER -> Steps(tree, rest, follow, links, on)

Walk(tree, at, text, follow) ==
    Steps(tree, text.names, follow, MaxLinks,
          [err |-> IF ~text.abs /\ at = Closed THEN "EBADF" ELSE "ok",
           path |-> IF text.abs THEN <<>> ELSE at,
           found |-> TRUE, up |-> FALSE, via |-> {}])

(***************************************************************************)
(* The calls.  A call is a record: op, the directories and texts of its    *)
(* one or two names (at, text, at2, text2), whether a link in the last     *)
(* place of the name is followed, and the size of a buffer.  The outcome   *)
(* is the new tree, the directories the process holds, and the answer.     *)
(***************************************************************************)
NoText == Relative(<<>>)
Answer(err, id, text) == [err |-> err, id |-> id, text |-> text]
Outcome(tree, dirs, answer) == [tree |-> tree, dirs |-> dirs, answer |-> answer]
Fails(tree, dirs, err) == Outcome(tree, dirs, Answer(err, 0, NoText))
Done(tree, dirs) == Outcome(tree, dirs, Answer("ok", 0, NoText))
Found(w) == IF w.err # "ok" THEN w.err ELSE IF w.found THEN "ok" ELSE "ENOENT"
Free(w) == IF w.err # "ok" THEN w.err ELSE IF w.found THEN "EEXIST" ELSE "ok"
Cut(text, size) == [text EXCEPT !.names = SubSeq(@, 1, Min({Len(@), size}))]

\* Calls that find a file and tell what it is, or change its attributes.
Look(tree, dirs, w) ==
    IF Found(w) # "ok" THEN Fails(tree, dirs, Found(w))
    ELSE Outcome(tree, dirs, Answer("ok", tree[w.path].id, NoText))
Touch(tree, dirs, w) ==
    IF Found(w) # "ok" THEN Fails(tree, dirs, Found(w))
    ELSE Done([p \in DOMAIN tree |->
                 IF tree[p].id = tree[w.path].id
                 THEN [tree[p] EXCEPT !.mode = 1 - @] ELSE tree[p]], dirs)

\* openat; a directory that was opened is kept as "fd".  `new` is the identity of
\* a file that is created.
Open(tree, dirs, w, create, new) ==
    LET node == tree[w.path]
    IN  CASE w.err # "ok" -> Fails(tree, dirs, w.err)
          [] ~w.found /\ ~create -> Fails(tree, dirs, "ENOENT")
          [] ~w.found -> Outcome(Plus(tree, w.path, File(new)), dirs,
                                 Answer("ok", new, NoText))
          [] node.kind = "link" -> Fails(tree, dirs, "ELOOP")
          [] node.kind = "dir" /\ create -> Fails(tree, dirs, "EISDIR")
          [] OTHER -> Outcome(tree,
                 [dirs EXCEPT !["fd"] = IF node.kind = "dir" THEN w.path ELSE @],
                 Answer("ok", node.id, NoText))

\* mkdirat, mknodat, symlinkat: the name must be free.
Make(tree, dirs, w, node) ==
    IF Free(w) # "ok" THEN Fails(tree, dirs, Free(w))
    ELSE Done(Plus(tree, w.path, node), dirs)

HardLink(tree, dirs, v, w) ==
    CASE Found(v) # "ok" -> Fails(tree, dirs, Found(v))
      [] Free(w) # "ok" -> Fails(tree, dirs, Free(w))
      [] Device(v.path) # Device(w.path) -> Fails(tree, dirs, "EXDEV")
      [] tree[v.path].kind = "dir" -> Fails(tree, dirs, "EPERM")
      [] OTHER -> Done(Plus(tree, w.path, tree[v.path]), dirs)

Below(tree, p) == {q \in DOMAIN tree : Inside(p, q) /\ q # p}

Unlink(tree, dirs, w) ==
    CASE Found(w) # "ok" -> Fails(tree, dirs, Found(w))
      [] tree[w.path].kind = "dir" -> Fails(tree, dirs, "EISDIR")
      [] OTHER -> Done(Minus(tree, {w.path}), dirs)

RemoveDir(tree, dirs, w) ==
    CASE Found(w) # "ok" -> Fails(tree, dirs, Found(w))
      [] tree[w.path].kind # "dir" -> Fails(tree, dirs, "ENOTDIR")
      [] IsTop(w.path) -> Fails(tree, dirs, "EBUSY")
      [] Below(tree, w.path) # {} -> Fails(tree, dirs, "ENOTEMPTY")
      [] OTHER -> Done(Minus(tree, {w.path}), dirs)

\* What was found below directory p is below q afterwards.
Moved(r, p, q) == IF r # Closed /\ Inside(p, r) THEN q \o SubSeq(r, Len(p) + 1, Len(r)) ELSE r

Rename(tree, dirs, v, w) ==
    LET p == v.path
        q == w.path
        moving == {r \in DOMAIN tree : Inside(p, r)}
        kept == Minus(tree, moving \cup {q})
        there == {Moved(r, p, q) : r \in moving}
        back(r) == Moved(r, q, p)
        Both == w.found /\ Found(v) = "ok"
    IN  CASE Found(v) # "ok" -> Fails(tree, dirs, Found(v))
          [] w.err # "ok" -> Fails(tree, dirs, w.err)
          [] IsTop(p) \/ IsTop(q) -> Fails(tree, dirs, "EBUSY")
          [] Device(p) # Device(q) -> Fails(tree, dirs, "EXDEV")
          [] Inside(p, q) /\ p # q -> Fails(tree, dirs, "EINVAL")
          [] Both /\ Inside(q, p) /\ p # q -> Fails(tree, dirs, "ENOTEMPTY")
          [] Both /\ tree[p].id = tree[q].id -> Done(tree, dirs)
          [] Both /\ tree[p].kind = "dir" /\ tree[q].kind # "dir" -> Fails(tree, dirs, "ENOTDIR")
          [] Both /\ tree[p].kind # "dir" /\ tree[q].kind = "dir" -> Fails(tree, dirs, "EISDIR")
          [] Both /\ Below(tree, q) # {} -> Fails(tree, dirs, "ENOTEMPTY")
          [] OTHER -> Done([r \in DOMAIN kept \cup there |->
                               IF r \in there THEN tree[back(r)] ELSE kept[r]],
                           [d \in DOMAIN dirs |-> Moved(dirs[d], p, q)])

ReadLink(tree, dirs, w, size) ==
    CASE Found(w) # "ok" -> Fails(tree, dirs, Found(w))
      [] tree[w.path].kind # "link" -> Fails(tree, dirs, "EINVAL")
      [] OTHER -> Outcome(tree, dirs, Answer("ok", 0, Cut(tree[w.path].to, size)))

ChangeDir(tree, dirs, w) ==
    CASE Found(w) # "ok" -> Fails(tree, dirs, Found(w))
      [] tree[w.path].kind # "dir" -> Fails(tree, dirs, "ENOTDIR")
      [] OTHER -> Done(tree, [dirs EXCEPT !["cwd"] = w.path])

WorkingDir(tree, dirs, size) ==
    CASE dirs["cwd"] \notin DOMAIN tree -> Fails(tree, dirs, "ENOENT")
      [] Len(dirs["cwd"]) > size -> Fails(tree, dirs, "ERANGE")
      [] OTHER -> Outcome(tree, dirs, Answer("ok", 0, Absolute(dirs["cwd"])))

\* Which file execve starts.
Execute(tree, dirs, w) ==
    CASE Found(w) # "ok" -> Fails(tree, dirs, Found(w))
      [] tree[w.path].kind # "file" -> Fails(tree, dirs, "EACCES")
      [] OTHER -> Outcome(tree, dirs, Answer("ok", tree[w.path].id, NoText))
=============================================================================
