------------------------------- MODULE MCHost -------------------------------
(***************************************************************************)
(* The images, names, requests and heaps with which Host is checked.  The  *)
(* requests are every call and command, with every field of every          *)
(* structure and every byte of it once set and once not, and for what is   *)
(* remembered the sequences of calls on it.                                *)
(***************************************************************************)
EXTENDS Host

-----------------------------------------------------------------------------
(* Files: the host's tree with the root file system in it, and three images *)
(* with links of every kind.                                                *)

Plainest ==
    <<>> :> Dir(1) @@ <<"proc">> :> Dir(2) @@ <<"proc", "self">> :> Dir(3)
    @@ <<"proc", "self", "exe">> :> Link(4, Absolute(<<"emu">>)) @@ <<"proc", "cpuinfo">> :> File(5)
    @@ <<"run">> :> Dir(6) @@ <<"emu">> :> File(7) @@ <<"h">> :> Link(8, Absolute(<<"run">>)) @@ <<"d">> :> Dir(9)
    @@ <<"root">> :> Dir(10) @@ <<"root", "proc">> :> Link(11, Absolute(<<"proc">>))
    @@ <<"root", "run">> :> Link(12, Absolute(<<"run">>)) @@ <<"root", "d">> :> Dir(13)
    @@ <<"root", "d", "f">> :> File(14) @@ <<"root", "x">> :> File(15)
WithLinks ==
    Plainest @@ <<"root", "l">> :> Link(16, Absolute(<<"root", "d">>)) @@ <<"root", "d", "m">> :> Link(17, Relative(<<"..", "x">>))
WithHostLinks ==
    Plainest @@ <<"root", "l">> :> Link(16, Absolute(<<"proc">>)) @@ <<"root", "d", "m">> :> Link(17, Absolute(<<"x">>))
WithLoop == Plainest @@ <<"root", "l">> :> Link(16, Relative(<<"l">>)) @@ <<"root", "h">> :> Dir(17)

MCRoot == <<"root">>
MCExe == <<"root", "x">>
MCStarts ==
    {<<Plainest, MCRoot>>, <<WithLinks, MCRoot>>, <<WithLinks, <<"root", "d">>>>,
     <<WithHostLinks, MCRoot>>, <<WithHostLinks, <<"proc">>>>, <<WithLoop, MCRoot>>}

SomeNames ==
    {Absolute(s) : s \in {<<>>, <<"proc">>, <<"proc", "cpuinfo">>, <<"proc", "self", "exe">>, <<"l">>, <<"l", "f">>,
                          <<"d", "m">>, <<"h">>, <<"n">>, <<"lib">>}}
    \cup {Relative(s) : s \in {<<"..">>, <<"f">>, <<"proc">>, <<"n">>, <<"..", "x">>}}
FewNames ==
    {Absolute(s) : s \in {<<>>, <<"proc">>, <<"proc", "self", "exe">>, <<"l">>, <<"x">>, <<"n">>}}
    \cup {Relative(<<"n">>), Relative(<<"d">>)}

\* Calls with one name, relative to the directory `from`, and with two.
OneName(ops, from, texts, size) ==
    {[op |-> o, at |-> from, text |-> t, at2 |-> "cwd", text2 |-> NoText, size |-> size] : o \in ops, t \in texts}
TwoNames(ops, texts, others) ==
    {[op |-> o, at |-> "cwd", text |-> t, at2 |-> "cwd", text2 |-> u, size |-> 9] : o \in ops, t \in texts, u \in others}
WithTwo == {"link", "linkat", "rename", "renameat2", "symlinkat"}
WithOne == (ByPath \cup ByDir \cup {"fchownat", "execve"}) \ WithTwo

\* One call that changes the tree or a directory, then any call.
FirstCall ==
    UNION {OneName({"getcwd"}, "cwd", {NoText}, 9),
           OneName({"chdir", "openat"}, "cwd", {Absolute(<<"d">>), Absolute(<<"proc">>)}, 9),
           OneName({"unlinkat"}, "cwd", {Absolute(<<"l">>), Absolute(<<"x">>)}, 9),
           OneName({"mkdirat"}, "cwd", {Absolute(<<"n">>), Absolute(<<"h">>)}, 9),
           TwoNames({"symlinkat"}, {Absolute(<<"d">>), Absolute(<<"proc">>), Relative(<<"d", "f">>), Absolute(<<"n">>)},
                    {Absolute(<<"n">>)}),
           TwoNames({"rename"}, {Absolute(<<"d">>), Absolute(<<"x">>)}, {Absolute(<<"n">>)})}
SecondCall ==
    UNION {OneName(WithOne, "cwd", SomeNames, 9),
           OneName(WithOne \cap ByDir, "fd", {Relative(<<"f">>), Relative(<<"..">>), Relative(<<"self">>), Absolute(<<"x">>)}, 9),
           TwoNames(WithTwo, FewNames, FewNames),
           OneName({"getcwd", "fchdir"}, "cwd", {NoText}, 9), OneName({"getcwd"}, "cwd", {NoText}, 0),
           OneName({"getcwd"}, "cwd", {NoText}, 1), OneName({"readlinkat"}, "cwd", SomeNames, 1)}
MCFileCalls == <<FirstCall, SecondCall>>

-----------------------------------------------------------------------------
(* Heap: with all addresses free, with a page in the way, and with no room. *)

MCImages == {{}, {2}, {1, 3, 5}}

-----------------------------------------------------------------------------
(* Calls.                                                                  *)

Linux == INSTANCE KernelTypes

Ordinary ==
    [bits |-> 32, op |-> "call", cmd |-> "", args |-> <<{0}, {1}, {2}, {0, 1}, {0, 2}, {1, 2}>>, mem |-> {}, back |-> {},
     null |-> FALSE, old |-> FALSE, ok |-> TRUE, host |-> Nothing, answers |-> <<>>, junk |-> 0..200, count |-> 0,
     list |-> <<>>, iovs |-> 0, given |-> {}, sp |-> 0, fd |-> 0]

-----------------------------------------------------------------------------
(* One structure: all of it set or clear, one byte that differs, one field *)
(* of the answer that is small, negative or large.                         *)

Patterns == {{0}, {3}, {4}, {7}, 0..7}
Blank(names) == [n \in names |-> {}]
Answers(names) == {Blank(names)} \cup {[Blank(names) EXCEPT ![n] = p] : n \in names, p \in Patterns}
Whole(s) == 0..(s.size + 3)
NearlyAll(s) == {{}, Whole(s)} \cup {{b} : b \in Whole(s)} \cup {Whole(s) \ {b} : b \in Whole(s)}

\* A structure s that the kernel fills or reads as shape says.
On(c, shape) ==
    LET names == shape.layout.names
        base == [c EXCEPT !.host = Blank(names)]
        all == Whole(shape.layout)
    IN  UNION {{[base EXCEPT !.mem = m, !.host = h] : m \in {{}, all}, h \in IF shape.writes THEN Answers(names) ELSE {}},
               {[base EXCEPT !.mem = m] : m \in IF shape.reads = {} THEN {} ELSE NearlyAll(shape.layout)},
               {[base EXCEPT !.mem = m, !.ok = FALSE, !.host = [n \in names |-> {0, 3}]] : m \in {{}, all}}}

Mode(op) == IF op \in {"fstat", "newfstatat", "stat", "lstat", "semctl_set", "semctl_stat"} THEN 64 ELSE 32
MCPlain == UNION {On([Ordinary EXCEPT !.op = op, !.bits = Mode(op), !.count = 84], Linux!Plain[op]) : op \in DOMAIN Linux!Plain}
MCNull ==
    {[Ordinary EXCEPT !.op = op, !.null = TRUE, !.old = old, !.ok = ok] :
        op \in {"clock_gettime32", "clock_settime32", "clock_getres", "clock_nanosleep", "ppoll_time32", "wait4", "getrusage",
                "epoll_ctl", "utimensat"},
        old \in BOOLEAN, ok \in BOOLEAN}
MCLocks == UNION {On([Ordinary EXCEPT !.op = "fcntl", !.cmd = k], Linux!Locks[k]) : k \in DOMAIN Linux!Locks}
MCShared == UNION {On([Ordinary EXCEPT !.op = "ipc", !.cmd = k], Linux!Shared[k]) : k \in DOMAIN Linux!Shared}
MCOptions ==
    UNION {On([Ordinary EXCEPT !.op = "setsockopt", !.cmd = k, !.count = 8], Linux!SocketOptions[k]) : k \in DOMAIN Linux!SocketOptions}
    \cup {[Ordinary EXCEPT !.op = op, !.cmd = k, !.count = n, !.mem = {0, 5}] :
            op \in {"setsockopt", "getsockopt"}, n \in {4, 8, 9},
            k \in {"level", "flag", "newer", "filter", "rcvtimeo", "sndtimeo", "unlisted"}}
MCDrm == UNION {On([Ordinary EXCEPT !.op = "drm", !.cmd = k], Linux!Drm[k]) : k \in DOMAIN Linux!Drm \ {"version"}}
MCVblank ==
    {[Ordinary EXCEPT !.op = "drm", !.cmd = "wait_vblank", !.mem = m, !.ok = ok,
                      !.host = Blank({"type", "sequence", "tval_sec", "tval_usec"})] : m \in {{}, 0..15}, ok \in BOOLEAN}
MCIoctl ==
    {[Ordinary EXCEPT !.op = op, !.cmd = k, !.mem = {1}, !.ok = ok, !.args[3] = a] :
        op \in {"drm"}, k \in {"simple", "unlisted"}, ok \in BOOLEAN, a \in {{0}}}
    \cup {[Ordinary EXCEPT !.op = "ioctl", !.cmd = k, !.mem = {1}, !.ok = ok, !.args[3] = a] :
        k \in {"fs_listed", "fs_other", "fat_listed", "fat_other", "tty_listed", "tty_other", "other"}, ok \in BOOLEAN,
        a \in {{0}, {0, 3}}}

-----------------------------------------------------------------------------
(* Registers. *)

Unlisted32 == {"readv", "unlinkat", "syncfs", "nanosleep"}
MCNames(bits) ==
    IF bits = 32 THEN Common32 \cup DOMAIN Direct32 \cup Unlisted32 \cup DOMAIN Denied
    ELSE DOMAIN Passed \cup DOMAIN Direct64 \cup DOMAIN Denied
\* Calls that change memory, signals or threads, or whose structures differ, are not only forwarded.
Elsewhere ==
    {"brk", "uname", "exit", "exit_group", "set_tid_address", "mmap", "munmap", "execve", "prctl", "rt_sigprocmask",
     "rt_sigsuspend", "mprotect", "epoll_ctl", "epoll_pwait", "epoll_pwait2"}
Registers == {<<{0}, {1}, {2}, {0, 1}, {0, 2}, {1, 2}>>, <<{3}, {0, 3}, {1, 3}, {2, 3}, 0..2, {}>>}
MCForwarded ==
    UNION {{[Ordinary EXCEPT !.bits = bits, !.cmd = k, !.args = a, !.ok = ok] :
              k \in MCNames(bits) \ Elsewhere, a \in Registers, ok \in BOOLEAN} : bits \in {32, 64}}
MCWide ==
    {[Ordinary EXCEPT !.op = "wide", !.cmd = k, !.args = a, !.ok = ok, !.mem = m, !.host = [position |-> p]] :
        k \in DOMAIN Linux!Wide, a \in Registers, ok \in BOOLEAN, m \in {{}, 0..9}, p \in Patterns}
MCIpc ==
    {[Ordinary EXCEPT !.op = "ipc", !.cmd = k, !.args = a, !.ok = ok, !.mem = {1}] :
        k \in {"semop", "semget", "shmget", "msgget", "sem_ignored", "sem_plain", "shm_plain", "semtimedop", "msgsnd"},
        a \in Registers, ok \in BOOLEAN}
    \cup {[Ordinary EXCEPT !.op = "ipc", !.cmd = k, !.mem = {4, 10},
                           !.host = Blank({"key", "uid", "gid", "cuid", "cgid", "mode", "seq", "sem_otime", "sem_ctime", "sem_nsems"})] :
        k \in {"sem_set_old", "sem_set_new", "sem_stat_old", "sem_stat_new"}}
MCFcntl == {[Ordinary EXCEPT !.op = "fcntl", !.cmd = "F_GETFL", !.ok = ok] : ok \in BOOLEAN}
MCSocketcall ==
    {[Ordinary EXCEPT !.op = "socketcall", !.cmd = k, !.mem = m] : m \in {{0, 5, 11, 14, 16, 22}, 0..23},
        k \in {"SOCKET", "BIND", "CONNECT", "LISTEN", "ACCEPT", "GETSOCKNAME", "GETPEERNAME", "SOCKETPAIR", "SEND", "RECV", "SENDTO",
               "RECVFROM", "SHUTDOWN", "SETSOCKOPT", "GETSOCKOPT", "SENDMSG", "RECVMSG", "ACCEPT4", "RECVMMSG", "SENDMMSG"}}

-----------------------------------------------------------------------------
(* Several structures, or two pointers. *)

MCVector == {[Ordinary EXCEPT !.op = "writev", !.mem = m, !.count = n] : m \in NearlyAll([size |-> 16]), n \in 0..2}
Event(p, q) == [events |-> p, data |-> q]
MCEvents ==
    {[Ordinary EXCEPT !.op = op, !.bits = bits, !.mem = m, !.ok = ok, !.count = n, !.answers = list] :
        op \in {"epoll_wait", "epoll_pwait", "epoll_pwait2"}, bits \in {32, 64}, m \in {{}, 0..39}, ok \in BOOLEAN, n \in {2, 32},
        list \in {<<>>} \cup {<<Event(p, q)>> : p, q \in {{}, {0}, 0..3}} \cup {<<Event({1}, p), Event(q, {7})>> : p, q \in {{0}, 0..3}}}
Entry(i, o, r) == [d_ino |-> i, d_off |-> o, d_reclen |-> r, d_type |-> {0}]
MCEntries ==
    {[Ordinary EXCEPT !.op = "getdents64", !.ok = ok, !.mem = m, !.answers = list] : ok \in BOOLEAN, m \in {{}, 0..63},
        list \in {<<>>} \cup {<<Entry(p, {}, {0})>> : p \in Patterns} \cup {<<Entry(p, {}, {1}), Entry(q, {0}, {})>> : p, q \in Patterns}
              \cup {<<Entry({0}, {2}, {0})>>}}
Times ==  {{}, {0}, {4}, {1, 6}, {3}, {7}, 0..2}
MCTimes ==
    {[Ordinary EXCEPT !.op = "utimensat", !.mem = t \cup {b + 8 : b \in u}, !.ok = ok] : t, u \in Times, ok \in BOOLEAN}
    \cup {[Ordinary EXCEPT !.op = "clock_nanosleep", !.mem = t, !.back = m, !.old = old, !.ok = ok, !.host = h] :
            t \in Times, m \in {{}, 0..11}, old, ok \in BOOLEAN, h \in {[tv_sec |-> {}, tv_nsec |-> {1}], [tv_sec |-> {0}, tv_nsec |-> {}]}}
    \cup {[Ordinary EXCEPT !.op = "futex", !.cmd = k, !.mem = t, !.null = null, !.args[4] = a] :
            k \in {"wait", "requeue", "other"}, t \in Times, null \in BOOLEAN, a \in {{}}}
    \cup {[Ordinary EXCEPT !.op = "futex", !.cmd = "requeue", !.mem = t] : t \in Times}
    \cup {[Ordinary EXCEPT !.op = "time32", !.mem = m, !.null = null, !.host = [position |-> p]] :
            m \in {{}, 0..7}, null \in BOOLEAN, p \in Patterns \cup {{}}}
SysinfoFields == x86_sysinfo.names
MCSysinfo ==
    {[Ordinary EXCEPT !.op = "sysinfo", !.mem = m, !.ok = ok, !.host = [mem_unit |-> {0}] @@ h] :
        m \in {{}, 0..67}, ok \in BOOLEAN, h \in Answers(SysinfoFields \ {"mem_unit"})}
    \cup {[Ordinary EXCEPT !.op = "sysinfo", !.host = [mem_unit |-> u, totalram |-> r, uptime |-> {1}] @@ [n \in SysinfoFields |-> v]] :
            u \in {{0}, {1}, {2}, {3}}, r \in {{}, {3}, {4}, {5}}, v \in {{0}, {2}, {4}, {0, 5}}}
Sets == {{}, {0}, {1}, {2}, {0, 1, 2, 3}}
MCSelect ==
    {[Ordinary EXCEPT !.op = "pselect6", !.cmd = k, !.count = n, !.given = g, !.null = TRUE, !.ok = ok,
                      !.host = [read |-> r, write |-> w, except |-> {1}],
                      !.answers = <<[read |-> r \cap {0}, write |-> w \cap {0}, except |-> {}], [tv_sec |-> {}, tv_nsec |-> {}]>>] :
        k \in {"mask", "nomask", "nullmask"}, n \in 0..3, g \in {{}, {"read"}, {"read", "write"}, {"except"}}, ok \in BOOLEAN, r, w \in Sets}
    \cup {[Ordinary EXCEPT !.op = "pselect6", !.cmd = "mask", !.mem = t, !.ok = ok,
                           !.answers = <<Nothing, [tv_sec |-> Low(t, 3), tv_nsec |-> ShiftRight(t, 4)]>>] : t \in Times, ok \in BOOLEAN}
MCMessages ==
    {[Ordinary EXCEPT !.op = op, !.mem = m, !.back = b, !.iovs = n, !.ok = ok, !.count = 48,
                      !.host = [msg_namelen |-> {1}, msg_flags |-> {2}]] :
        op \in {"sendmsg", "recvmsg"}, m \in NearlyAll([size |-> 28]), b \in {{1, 6, 8, 15}}, n \in 0..2, ok \in BOOLEAN}
    \cup {[Ordinary EXCEPT !.op = op, !.list = list, !.count = n, !.host = [msg_namelen |-> {1}, msg_flags |-> {2}]] :
        op \in {"sendmsg", "recvmsg"}, n \in {0, 12, 16, 20, 28, 36, 44, 64},
        list \in {<<>>} \cup {<<d>> : d \in {1, 2, 4, 8, 12}} \cup {<<d, e>> : d, e \in {4, 6, 8, 12, 16}} \cup {<<8, 8, 8>>, <<8, 4, 8>>}}

-----------------------------------------------------------------------------
(* What is remembered. *)

MCInstalled(bits) ==
    {[Ordinary EXCEPT !.op = "rt_sigaction", !.bits = bits, !.cmd = "other", !.mem = m] : m \in NearlyAll([size |-> 28])}
MCActions(bits) ==
    {[Ordinary EXCEPT !.op = "rt_sigaction", !.bits = bits, !.cmd = k, !.null = null, !.old = old, !.mem = {0, 9}, !.back = b] :
        k \in {"zero", "beyond", "kill", "other"}, null, old \in BOOLEAN, b \in {{}, 0..35}}
Stack(bits, at, flags, size) ==
    IF bits = 32 THEN at \cup ShiftLeft(flags, 4) \cup ShiftLeft(size, 8) ELSE at \cup ShiftLeft(flags, 8) \cup ShiftLeft(size, 16)
MCStacks(bits) ==
    {[Ordinary EXCEPT !.op = "sigaltstack", !.bits = bits, !.null = null, !.old = old, !.sp = sp, !.back = {5}, !.mem = Stack(bits, a, f, s)] :
        null, old \in BOOLEAN, sp \in {3, 5, 9, 13}, a \in {{2}, {0}}, f \in {{}, {1}, {2}}, s \in {{1}, {3}}}
MCReplaced(stacks) == {c \in stacks : ~c.null /\ ~c.old}
Index(n) == {b \in 0..3 : (n \div 2^b) % 2 = 1}
Area(i, base, desc) == i \cup ShiftLeft(base, 4) \cup ShiftLeft(desc.limit, 8) \cup ShiftLeft(desc.bits, 12)
NoArea == [limit |-> {}, bits |-> {1}]
MCTaken ==
    {[Ordinary EXCEPT !.op = "set_thread_area", !.mem = Area(i, base, Usual)] :
        i \in {0..3} \cup {Index(n) : n \in 12..14}, base \in {{0}, {1, 3}}}
MCAreas ==
    {[Ordinary EXCEPT !.op = "set_thread_area", !.mem = Area(i, base, d)] :
        i \in {0..3} \cup {Index(n) : n \in 11..14}, base \in {{}, {0}, {1, 3}}, d \in {Usual, NoArea}}
    \cup {[Ordinary EXCEPT !.op = "get_thread_area", !.mem = Index(n) \cup {5, 9, 14}] : n \in 11..14}
MCBases ==
    {[Ordinary EXCEPT !.op = "arch_prctl", !.bits = 64, !.cmd = k, !.args[2] = a, !.mem = {1}] :
        k \in {"SET_GS", "SET_FS", "GET_GS", "GET_FS", "other"}, a \in {{}, {0, 7}}}
Versions == x86_drm_version.names
Opened(name, fd) == [Ordinary EXCEPT !.op = "open", !.cmd = name, !.fd = fd]
Version(fd, ok, name) ==
    [Ordinary EXCEPT !.op = "drm", !.cmd = "version", !.fd = fd, !.ok = ok, !.mem = {16},
                     !.host = [Blank(Versions) EXCEPT !.name = name, !.name_len = {1, 2}]]
MCDevices ==
    UNION {{Opened(n, fd) : n \in {"radeon", "amdgpu"}, fd \in 0..1}, {Version(fd, ok, n) : fd \in 0..1, ok \in BOOLEAN, n \in {{}, {0}}}}
MCCommands == {[Ordinary EXCEPT !.op = "driver", !.cmd = k, !.fd = fd, !.mem = {1}, !.host = Blank({"param", "value"})] :
                 k \in {"simple", "unlisted", "setparam"}, fd \in 0..1}
MCDriver == UNION {On([Ordinary EXCEPT !.op = "driver", !.cmd = k], Linux!Radeon[k]) : k \in DOMAIN Linux!Radeon}

MCVersion == On([Ordinary EXCEPT !.op = "drm", !.cmd = "version"], Linux!Drm.version)
MCOpened == {Opened("radeon", 0)}
MCNamed == {Version(0, TRUE, {0})}
MCInstalled32 == MCInstalled(32)
MCInstalled64 == MCInstalled(64)
MCActions32 == MCActions(32)
MCActions64 == MCActions(64)
MCStacks32 == MCStacks(32)
MCStacks64 == MCStacks(64)
MCReplaced32 == MCReplaced(MCStacks32)
MCReplaced64 == MCReplaced(MCStacks64)

MCRequests ==
    [plain |-> <<MCPlain>>, null |-> <<MCNull>>, locks |-> <<MCLocks>>, shared |-> <<MCShared>>, options |-> <<MCOptions>>,
     drm |-> <<MCDrm>>, vblank |-> <<MCVblank>>, ioctl |-> <<MCIoctl>>, forwarded |-> <<MCForwarded>>, wide |-> <<MCWide>>,
     ipc |-> <<MCIpc>>, fcntl |-> <<MCFcntl>>, socketcall |-> <<MCSocketcall>>, vector |-> <<MCVector>>, events |-> <<MCEvents>>,
     entries |-> <<MCEntries>>, times |-> <<MCTimes>>, sysinfo |-> <<MCSysinfo>>, select |-> <<MCSelect>>,
     messages |-> <<MCMessages>>,
     version |-> <<MCVersion>>,
     action32 |-> <<MCInstalled32, MCActions32>>, action64 |-> <<MCInstalled64, MCActions64>>,
     stack32 |-> <<MCReplaced32, MCStacks32>>, stack64 |-> <<MCReplaced64, MCStacks64>>,
     areas |-> <<MCTaken, MCTaken, MCTaken, MCAreas>>, bases |-> <<MCBases, MCBases>>,
     devices |-> <<MCDevices, MCDevices, MCDevices, MCCommands>>,
     driver |-> <<MCOpened, MCNamed, MCDriver>>]

MCBooted ==
    {[action |-> [handler |-> {}, sa_flags |-> {}, restorer |-> {}, sa_mask |-> {}],
      alt |-> [ss_sp |-> {}, ss_flags |-> {1}, ss_size |-> {}],
      gdt |-> [i \in 0..14 |-> {}], gs |-> gs, gsbase |-> {}, fsbase |-> {}, device |-> [fd \in 0..1 |-> "none"],
      handlers |-> [fd \in 0..1 |-> "none"], asked |-> {}] : gs \in {12}}
MCUsual == [limit |-> 0..3, bits |-> {0, 2}]
=============================================================================
