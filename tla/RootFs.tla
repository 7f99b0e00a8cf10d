------------------------------- MODULE RootFs -------------------------------
(***************************************************************************)
(* Filesystem (hle/filesystem.cpp): felix86 does not change its root       *)
(* directory, it rewrites the names a guest program passes to the kernel.  *)
(* `tree` is the tree of the host.  The root file system is a directory of *)
(* it; felix86 has put symbolic links to /proc, /run, /sys and /dev there. *)
(* A call is one action: the name is rewritten, the kernel does the rest   *)
(* (FileTree), and what comes back is rewritten again.                     *)
(***************************************************************************)
EXTENDS FileTree

CONSTANTS
    Root,           \* rootfs_path, as a path of the host
    Exe,            \* executable_path, as a path of the host
    Calls, Replaced, Overlaid,      \* as in Chroot
    Starts          \* pairs of a tree and a working directory with which a guest may start

VARIABLES tree, dirs, call, answer, excused, made

fsVars == <<tree, dirs, call, answer, excused, made>>

None == "none"
New == 100 + made           \* the identity of a file that is created
StringAt(text) == [dir |-> dirs["cwd"], text |-> text]
WalkAt(r, follow) == Walk(tree, r.dir, r.text, follow)

isProcSelfExe(text) == text = Absolute(<<"proc", "self", "exe">>)

\* statx of the name, links followed, has the inode of one of the links
isOurSymlinks(r) ==
    LET w == WalkAt(r, TRUE)
    IN  IF Found(w) = "ok" /\ Len(w.path) = 1 /\ w.path[1] \in Mounts THEN w.path[1] ELSE None

resolveInner(at, text) ==
    CASE isProcSelfExe(text) -> StringAt(Absolute(Exe))
      [] text.abs /\ text.names = <<>> -> [dir |-> Root, text |-> Relative(<<".">>)]
      [] text.abs /\ text.names # <<>> -> [dir |-> Root, text |-> Relative(text.names)]
      [] ~text.abs /\ text.names = <<"..">> /\ at = Root -> [dir |-> at, text |-> Relative(<<".">>)]
      [] OTHER -> [dir |-> at, text |-> text]

resolve(at, text) ==
    LET r == resolveInner(at, text)
        m == isOurSymlinks(r)
    IN  IF m = None THEN r ELSE StringAt(Absolute(<<m>>))

\* The other resolve, for calls without a directory; it asks for the name
\* as the host sees it.
resolvePath(text) ==
    LET m == isOurSymlinks(StringAt(text))
    IN  CASE isProcSelfExe(text) -> Absolute(Exe)
          [] ~isProcSelfExe(text) /\ text.abs /\ m # None -> Absolute(<<m>>)
          [] ~isProcSelfExe(text) /\ text.abs /\ m = None -> Absolute(Root \o text.names)
          [] OTHER -> text

\* A slip: the guest is shown where its files are on the host.
KeepsRootfsPrefix(text) == text

removeRootfsPrefix(text) ==
    IF text.abs /\ Inside(Root, text.names)
    THEN Absolute(SubSeq(text.names, Len(Root) + 1, Len(text.names))) ELSE text

At(c, follow) == WalkAt(resolve(dirs[c.at], c.text), follow)
At2(c) == WalkAt(resolve(dirs[c.at2], c.text2), FALSE)
Path(text, follow) == WalkAt(StringAt(resolvePath(text)), follow)

---------------------------------------------------------------------------
(* The functions of Filesystem.                                            *)

openatInternal(w, create) ==
    LET k == Open(tree, dirs, w, create, New)
    IN  IF k.answer.err = "ok" /\ k.answer.id \in Replaced
        THEN [k EXCEPT !.answer.id = 0] ELSE k

isOverlay(text) == text.names # <<>> /\ Last(text.names) \in Overlaid

OpenAt(c, follow, create) ==
    IF c.at = "cwd" /\ c.text.abs /\ isOverlay(c.text)
    THEN Outcome(tree, dirs, Answer("ok", 0, NoText))
    ELSE openatInternal(At(c, follow), create)

FAccessAt(c) == Look(tree, dirs, At(c, TRUE))
FStatAt(c, follow) == Look(tree, dirs, At(c, follow))
StatFs(c) == Look(tree, dirs, Path(c.text, TRUE))

ReadlinkAt(c) ==
    LET k == ReadLink(tree, dirs, At(c, FALSE), c.size)
    IN  IF isProcSelfExe(c.text)
        THEN Outcome(tree, dirs, Answer("ok", 0, Cut(removeRootfsPrefix(Absolute(Exe)), c.size)))
        ELSE [k EXCEPT !.answer.text = removeRootfsPrefix(@)]

Getcwd(c) ==
    LET k == WorkingDir(tree, dirs, c.size)
    IN  [k EXCEPT !.answer.text = removeRootfsPrefix(@)]

RenamePath(c) == Rename(tree, dirs, Path(c.text, FALSE), Path(c.text2, FALSE))
SymlinkAt(c) == Make(tree, dirs, At2(c), Link(New, resolvePath(c.text)))
RenameAt2(c) == Rename(tree, dirs, At(c, FALSE), At2(c))
Chmod(c) == Touch(tree, dirs, Path(c.text, TRUE))
Creat(c) == Open(tree, dirs, Path(c.text, TRUE), TRUE, New)
Statx(c) == Look(tree, dirs, At(c, TRUE))
UnlinkAt(c) == Unlink(tree, dirs, At(c, FALSE))
LinkAt(c) == HardLink(tree, dirs, At(c, FALSE), At2(c))
Chown(c) == Touch(tree, dirs, Path(c.text, TRUE))
LChown(c) == Touch(tree, dirs, Path(c.text, FALSE))
Chdir(c) == ChangeDir(tree, dirs, Path(c.text, TRUE))
MkdirAt(c) == Make(tree, dirs, At(c, FALSE), Dir(New))
MknodAt(c) == Make(tree, dirs, At(c, FALSE), File(New))
FChmodAt(c) == Touch(tree, dirs, At(c, TRUE))
LGetXAttr(c) == Look(tree, dirs, Path(c.text, FALSE))
Listxattr(c) == Look(tree, dirs, Path(c.text, TRUE))
GetXAttr(c) == Look(tree, dirs, Path(c.text, TRUE))
LSetXAttr(c) == Touch(tree, dirs, Path(c.text, FALSE))
SetXAttr(c) == Touch(tree, dirs, Path(c.text, TRUE))
RemoveXAttr(c) == Touch(tree, dirs, Path(c.text, TRUE))
LRemoveXAttr(c) == Touch(tree, dirs, Path(c.text, FALSE))
UtimensAt(c) == Touch(tree, dirs, At(c, TRUE))
Rmdir(c) == RemoveDir(tree, dirs, Path(c.text, FALSE))
INotifyAddWatch(c) == Look(tree, dirs, Path(c.text, TRUE))

\* Calls that are forwarded as they are.
fchdir == ChangeDir(tree, dirs, Walk(tree, dirs["fd"], NoText, TRUE))
fchownat(c) == Touch(tree, dirs, WalkAt([dir |-> dirs[c.at], text |-> c.text], TRUE))

---------------------------------------------------------------------------
(* execve: Symlinker::resolve follows the links in the last place itself,  *)
(* so that they stay below the root file system.                           *)

\* One round of its loop.
NextLink(names) ==
    LET to == tree[Walk(tree, <<>>, Absolute(names), FALSE).path].to
    IN  CASE to.abs /\ Inside(Root, to.names) -> to.names
          [] to.abs /\ ~Inside(Root, to.names) -> Root \o to.names
          [] OTHER -> Front(names) \o to.names

RECURSIVE Resolve(_, _)
Resolve(names, links) ==
    LET w == Walk(tree, <<>>, Absolute(names), FALSE)
    IN  CASE w.err = "ELOOP" -> <<"throws">>
          [] Found(w) # "ok" -> names
          [] Found(w) = "ok" /\ tree[w.path].kind # "link" -> names
          [] links = 0 -> <<"diverges">>
          [] OTHER -> Resolve(NextLink(names), links - 1)

Symlinker_resolve(text) ==
    LET current == IF text.abs THEN text.names ELSE dirs["cwd"] \o text.names
    IN  Resolve(IF Inside(Root, current) THEN current ELSE Root \o current, MaxLinks + 1)

execve(c) ==
    LET names == Symlinker_resolve(c.text)
        w == Walk(tree, <<>>, Absolute(names), TRUE)
    IN  CASE names \in {<<"throws">>, <<"diverges">>} -> Fails(tree, dirs, names[1])
          [] Found(w) # "ok" -> Fails(tree, dirs, "ENOENT")
          [] tree[w.path].kind # "file" -> Fails(tree, dirs, "ENOENT")
          [] OTHER -> Outcome(tree, dirs, Answer("ok", tree[w.path].id, NoText))

---------------------------------------------------------------------------
(* What the guest program sees of the tree of the host.                    *)

GuestPath(p) == IF Inside(Root, p) THEN SubSeq(p, Len(Root) + 1, Len(p)) ELSE p
HostPath(g) == IF g # <<>> /\ g[1] \in Mounts THEN g ELSE Root \o g
Visible(p) == \/ p # <<>> /\ p[1] \in Mounts
              \/ Inside(Root, p) /\ (Len(p) # Len(Root) + 1 \/ Last(p) \notin Mounts)
ExeLink == <<"proc", "self", "exe">>
GuestText(g) == IF g = ExeLink THEN Absolute(GuestPath(Exe))
                ELSE removeRootfsPrefix(tree[HostPath(g)].to)
View == [g \in {GuestPath(p) : p \in {q \in DOMAIN tree : Visible(q)}} |->
            [tree[HostPath(g)] EXCEPT !.to = GuestText(g)]]

Guest == INSTANCE Chroot WITH
            tree <- View,
            dirs <- [d \in DOMAIN dirs |-> GuestPath(dirs[d])]

---------------------------------------------------------------------------
(* The departures, as conditions on a call before it is made.              *)

Names(c) ==     \* what the guest's names mean, and the directories they start from
    (IF c.op \in {"symlinkat", "getcwd", "fchdir"} THEN {} ELSE {<<c.at, c.text, Guest!Name(c)>>})
      \cup IF c.op \in Guest!TwoNames THEN {<<c.at2, c.text2, Guest!Name2(c)>>} ELSE {}
ByPath == {"statfs", "rename", "chmod", "creat", "chown", "lchown", "chdir", "getxattr", "lgetxattr",
           "listxattr", "setxattr", "lsetxattr", "removexattr", "lremovexattr", "rmdir",
           "inotify_add_watch"}
ByDir == {"faccessat", "newfstatat", "lstat", "statx", "fchmodat", "utimensat", "openat",
          "open_creat", "open_nofollow", "mkdirat", "mknodat", "symlinkat", "link", "linkat",
          "unlinkat", "renameat2", "readlinkat"}

\* .. at the root is only handled as a whole name relative to a directory.
Leaves(c) == \E n \in Names(c) :
    n[3].up /\ ~(c.op \in ByDir /\ n[2] = Relative(<<"..">>) /\ dirs[n[1]] = Root)
\* A link of the image with an absolute text means a file of the host.
Foreign(g) == LET to == tree[HostPath(g)].to
              IN  to.abs /\ ~Inside(Root, to.names) /\ (to.names = <<>> \/ to.names[1] \notin Mounts)
PassesForeign(c) == \E n \in Names(c) :
    (c.op = "execve" \/ ~isProcSelfExe(n[2])) /\ \E g \in n[3].via : Foreign(g)
\* The executable is found by its name in /proc also where the link is meant.
MeansExeLink(c) ==
    \/ c.op = "symlinkat" /\ isProcSelfExe(c.text)
    \/ \E n \in Names(c) : isProcSelfExe(n[2]) /\ c.op \in Guest!NoFollow \ {"readlinkat"}
\* A link to /proc, and not /proc, is meant.
MeansLinkToOurs(c) == \E n \in Names(c) :
    /\ c.op \in ByDir \cap Guest!NoFollow
    /\ Found(n[3]) = "ok" /\ View[n[3].path].kind = "link"
    /\ isOurSymlinks(resolveInner(dirs[n[1]], n[2])) # None
\* /proc is meant, and the link to it is what the relative name names.
MeansOursByPath(c) == \E n \in Names(c) :
    /\ c.op \in ByPath \cap Guest!NoFollow /\ ~n[2].abs
    /\ n[3].path # <<>> /\ IsTop(n[3].path)
\* The host has a link to /proc of that name, the root file system has not.
HostHasLink(c) == \E n \in Names(c) \cup {<<c.at, c.text, Guest!Name(c)>>} :
    /\ c.op \in ByPath \cup {"symlinkat"} /\ n[2].abs /\ ~isProcSelfExe(n[2])
    /\ isOurSymlinks(StringAt(n[2])) # None
    /\ n[3].path # <<isOurSymlinks(StringAt(n[2]))>>
\* Buffers that the host's text does not fit.
TooLong(c) == \/ /\ c.op = "readlinkat"
                 /\ LET w == At(c, FALSE)
                    IN  Found(w) = "ok" /\ Len(tree[w.path].to.names) > c.size
              \/ c.op = "getcwd" /\ Len(dirs["cwd"]) > c.size
\* Errors of calls on the root directory itself.
OnRoot(c) == /\ c.op \in {"rmdir", "rename", "renameat2"}
             /\ \E n \in Names(c) : n[3].path = <<>>
\* A loop of links in the last place is followed for ever, one before it throws;
\* the link to /proc is such a loop, as its text is taken for a guest's.
Loops(c) == LET w == Guest!Name(c)
            IN  c.op = "execve" /\ (w.err = "ELOOP" \/ (w.path # <<>> /\ IsTop(w.path)))
\* link makes a symbolic link; fchownat passes absolute names on; creat does not replace.
Unlike(c) == \/ c.op = "link"
             \/ c.op = "fchownat" /\ c.text.abs
             \/ c.op = "creat" /\ Found(Guest!Name(c)) = "ok" /\ View[Guest!Name(c).path].id \in Replaced
\* Consequences of an earlier departure.
Outside == \/ \E d \in DOMAIN dirs : dirs[d] # Closed /\ ~Visible(dirs[d])
           \/ \E m \in Mounts : Append(Root, m) \notin DOMAIN tree

Departs(c) == \/ Leaves(c) \/ PassesForeign(c) \/ MeansExeLink(c) \/ MeansLinkToOurs(c)
              \/ MeansOursByPath(c) \/ HostHasLink(c) \/ TooLong(c) \/ OnRoot(c)
              \/ Loops(c) \/ Unlike(c) \/ Outside

---------------------------------------------------------------------------
(* The calls as the switches of hle/syscall.cpp hand them on.              *)

Effect(c) ==
    CASE c.op = "faccessat" -> FAccessAt(c)
      [] c.op = "newfstatat" -> FStatAt(c, TRUE)
      [] c.op = "lstat" -> FStatAt(c, FALSE)
      [] c.op = "statx" -> Statx(c)
      [] c.op = "statfs" -> StatFs(c)
      [] c.op = "getxattr" -> GetXAttr(c)
      [] c.op = "lgetxattr" -> LGetXAttr(c)
      [] c.op = "listxattr" -> Listxattr(c)
      [] c.op = "inotify_add_watch" -> INotifyAddWatch(c)
      [] c.op = "chmod" -> Chmod(c)
      [] c.op = "fchmodat" -> FChmodAt(c)
      [] c.op = "chown" -> Chown(c)
      [] c.op = "lchown" -> LChown(c)
      [] c.op = "fchownat" -> fchownat(c)
      [] c.op = "setxattr" -> SetXAttr(c)
      [] c.op = "lsetxattr" -> LSetXAttr(c)
      [] c.op = "removexattr" -> RemoveXAttr(c)
      [] c.op = "lremovexattr" -> LRemoveXAttr(c)
      [] c.op = "utimensat" -> UtimensAt(c)
      [] c.op = "openat" -> OpenAt(c, TRUE, FALSE)
      [] c.op = "open_creat" -> OpenAt(c, TRUE, TRUE)
      [] c.op = "open_nofollow" -> OpenAt(c, FALSE, FALSE)
      [] c.op = "creat" -> Creat(c)
      [] c.op = "mkdirat" -> MkdirAt(c)
      [] c.op = "mknodat" -> MknodAt(c)
      [] c.op \in {"symlinkat", "link"} -> SymlinkAt(c)
      [] c.op = "linkat" -> LinkAt(c)
      [] c.op = "unlinkat" -> UnlinkAt(c)
      [] c.op = "rmdir" -> Rmdir(c)
      [] c.op = "rename" -> RenamePath(c)
      [] c.op = "renameat2" -> RenameAt2(c)
      [] c.op = "readlinkat" -> ReadlinkAt(c)
      [] c.op = "chdir" -> Chdir(c)
      [] c.op = "fchdir" -> fchdir
      [] c.op = "getcwd" -> Getcwd(c)
      [] c.op = "execve" -> execve(c)

Start == [op |-> "start", at |-> "cwd", text |-> NoText, at2 |-> "cwd", text2 |-> NoText, size |-> 0]

FsInit == /\ \E s \in Starts : tree = s[1] /\ dirs = [cwd |-> s[2], fd |-> Closed]
          /\ call = Start /\ answer = Answer("ok", 0, NoText)
          /\ excused = FALSE /\ made = 0

FsCall(c) == /\ \E k \in {Effect(c)} : tree' = k.tree /\ dirs' = k.dirs /\ answer' = k.answer
             /\ call' = c /\ excused' = Departs(c) /\ made' = made + 1

FsNext == made < Len(Calls) /\ \E c \in Calls[made + 1] : FsCall(c)

(***************************************************************************)
(* Every call on names of files (OpenAt to INotifyAddWatch, execve) does   *)
(* to the files a guest program can see, and answers, what it would in a   *)
(* process whose root directory is the root file system, up to the named   *)
(* departures: resolve, removeRootfsPrefix and Symlinker::resolve together *)
(* hide that the root directory is not the guest's.                        *)
(***************************************************************************)
LikeChroot == Guest!Spec
=============================================================================
