------------------------------- MODULE Chroot -------------------------------
(***************************************************************************)
(* What the calls on names of files promise to a guest program: they work  *)
(* as in a process whose root directory is the root file system given to   *)
(* felix86, with the host's /proc, /run, /sys and /dev mounted below it.   *)
(* Two things differ by design: opening one of the emulated files opens    *)
(* its replacement, and a library with an overlay is replaced by it.       *)
(***************************************************************************)
EXTENDS FileTree

CONSTANTS
    Calls,          \* Calls[n] are the calls a program may make as its n-th
    Replaced,       \* files of /proc that are replaced when they are opened
    Overlaid        \* names of libraries for which there is an overlay

VARIABLES
    tree,           \* all files below the root the program sees
    dirs,           \* its working directory and the directory it has opened
    call,           \* the last call
    answer,         \* and what it returned
    excused,        \* the call is one of the named departures
    made            \* number of calls so far

vars == <<tree, dirs, call, answer, excused, made>>

New == 100 + made           \* the identity of a file that is created

Replacement == 0
Looks == {"faccessat", "newfstatat", "lstat", "statx", "statfs", "getxattr", "lgetxattr",
          "listxattr", "inotify_add_watch"}
Touches == {"chmod", "fchmodat", "chown", "lchown", "fchownat", "setxattr", "lsetxattr",
            "removexattr", "lremovexattr", "utimensat"}
NoFollow == {"lstat", "lgetxattr", "lchown", "lsetxattr", "lremovexattr", "readlinkat",
             "unlinkat", "rmdir", "mkdirat", "mknodat", "link", "linkat", "rename",
             "renameat2", "symlinkat", "open_nofollow"}
TwoNames == {"link", "linkat", "rename", "renameat2", "symlinkat"}

Name(c) == Walk(tree, dirs[c.at], c.text, c.op \notin NoFollow)
Name2(c) == Walk(tree, dirs[c.at2], c.text2, FALSE)

IsOverlaid(c) == /\ c.op \in {"openat", "open_creat", "open_nofollow"}
                 /\ c.at = "cwd" /\ c.text.abs /\ c.text.names # <<>>
                 /\ Last(c.text.names) \in Overlaid

Opened(c) ==
    LET k == Open(tree, dirs, Name(c), c.op \in {"open_creat", "creat"}, New)
    IN  IF IsOverlaid(c) THEN Outcome(tree, dirs, Answer("ok", Replacement, NoText))
        ELSE IF k.answer.id \in Replaced THEN [k EXCEPT !.answer.id = Replacement] ELSE k

\* execve; the reason for which a file cannot be started is not told.
Started(c) ==
    LET k == Execute(tree, dirs, Name(c))
    IN  IF k.answer.err = "ok" THEN k ELSE Fails(tree, dirs, "ENOENT")

Effect(c) ==
    CASE c.op \in Looks -> Look(tree, dirs, Name(c))
      [] c.op \in Touches -> Touch(tree, dirs, Name(c))
      [] c.op \in {"openat", "open_creat", "open_nofollow", "creat"} -> Opened(c)
      [] c.op = "mkdirat" -> Make(tree, dirs, Name(c), Dir(New))
      [] c.op = "mknodat" -> Make(tree, dirs, Name(c), File(New))
      [] c.op = "symlinkat" -> Make(tree, dirs, Name2(c), Link(New, c.text))
      [] c.op \in {"link", "linkat"} -> HardLink(tree, dirs, Name(c), Name2(c))
      [] c.op = "unlinkat" -> Unlink(tree, dirs, Name(c))
      [] c.op = "rmdir" -> RemoveDir(tree, dirs, Name(c))
      [] c.op \in {"rename", "renameat2"} -> Rename(tree, dirs, Name(c), Name2(c))
      [] c.op = "readlinkat" -> ReadLink(tree, dirs, Name(c), c.size)
      [] c.op = "chdir" -> ChangeDir(tree, dirs, Name(c))
      [] c.op = "fchdir" -> ChangeDir(tree, dirs, Walk(tree, dirs["fd"], NoText, TRUE))
      [] c.op = "getcwd" -> WorkingDir(tree, dirs, c.size)
      [] c.op = "execve" -> Started(c)

Do(c) == [tree |-> tree', dirs |-> dirs', answer |-> answer'] = Effect(c)

Next == /\ made < Len(Calls) /\ call' \in Calls[made + 1] /\ made' = made + 1
        /\ excused' \/ Do(call')

Spec == [][Next]_vars
=============================================================================
