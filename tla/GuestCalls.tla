----------------------------- MODULE GuestCalls -----------------------------
(***************************************************************************)
(* The system calls of guests that felix86 hands to the kernel of the      *)
(* host, with the structures it converts on the way: felix86_syscall_common *)
(* and the calls only one of the modes has, the calls of 32-bit guests on  *)
(* sockets, System V objects and devices, and what it remembers of them.   *)
(* Each call is shown to do what KernelAbi says Linux for x86 does with    *)
(* the same request, up to the departures collected in Strays.             *)
(***************************************************************************)
EXTENDS GuestTypes, TLC

CONSTANTS Requests, WordBits, PageBit, MinStack, TlsEntries
CONSTANT Booted         \* what felix86 may remember at the start
CONSTANT Usual          \* [limit, bits] of the descriptors felix86 knows

VARIABLES buffer, seen, outcome, request, stray, served, topic,
          saved         \* what felix86 remembers, and the files of the kernel

callVars == <<buffer, seen, outcome, request, stray, served, topic, saved>>

\* What felix86 remembers, as the kernel would: an entry with base 0 is empty,
\* and a disabled stack has no address and size.
Descriptor(base) ==
    IF base = {} THEN [base_addr |-> {}, limit |-> {}, bits |-> {1}] ELSE [base_addr |-> base] @@ Usual
KernelView(s) ==
    [action |-> s.action, gs |-> s.gs, gsbase |-> s.gsbase, fsbase |-> s.fsbase, device |-> s.device,
     gdt |-> [i \in TlsEntries |-> Descriptor(s.gdt[i])],
     alt |-> IF 1 \in s.alt.ss_flags THEN [ss_sp |-> {}, ss_flags |-> {}, ss_size |-> {}] ELSE [s.alt EXCEPT !.ss_flags = {}]]

Kernel == INSTANCE KernelAbi WITH Begun <- {KernelView(s) : s \in Booted}, kept <- KernelView(saved)

Answered(c, mem, told) == Reply(mem, told, Result(c), saved)
Refuse(c, why) == Reply(c.mem, Nothing, why, saved)
Stops(c) == Refuse(c, "exits")                          \* ERROR, ASSERT, UNREACHABLE, or a fault of felix86
Junk(c, s) == [n \in s.names |-> c.junk]            \* a structure that nobody has filled
\* A negative error is stored by Result::operator=, which takes -1 for "look at errno".
Error(c, why) == IF why = "EPERM" THEN Refuse(c, "stale errno") ELSE Refuse(c, why)

-----------------------------------------------------------------------------
(* Calls forwarded with their registers: how many of them are passed on.   *)

Args(n, names) == [x \in names |-> n]

Passed1 ==
    Args(6, {"prlimit64", "getrandom", "close", "shutdown", "shmget", "shmctl", "setpgid", "setpriority", "getpriority"})
    @@ Args(3, {"readv", "close_range", "shmat", "bind"})
    @@ Args(2, {"getrlimit", "setrlimit", "set_robust_list", "getrusage"})
    @@ Args(1, {"personality", "shmdt", "getsid"})
PassedByName == Args(2, {"getcwd"}) @@ Args(3, {"symlinkat"}) @@ Args(5, {"renameat2"})
Passed2 ==
    Args(6, {"socketpair", "setgid", "setsid", "setreuid", "capset", "capget", "setresuid", "setregid", "setresgid", "setgroups",
             "getgroups", "setuid", "umount2", "sched_getscheduler", "sched_setparam", "dup"})
    @@ Args(4, {"accept4"})
    @@ Args(3, {"accept", "getresuid", "getresgid", "dup3"})
    @@ Args(2, {"sched_getparam", "clock_gettime", "clock_getres", "gettimeofday"})
Passed3 ==
    Args(6, {"fsync", "syncfs", "setsockopt", "getsockopt", "fadvise64", "pselect6", "fchown", "fchdir", "ioctl", "write", "writev"})
    @@ Args(5, {"recvmmsg", "statx"}) @@ Args(4, {"sendmmsg"}) @@ Args(3, {"fcntl", "unlinkat"}) @@ Args(1, {"chdir"})
    @@ Args(0, {"sync"})
\* faccessat has no flags, whatever the register holds.
Passed4 ==
    Args(6, {"memfd_create", "ftruncate", "read", "getdents64", "pwrite64", "pread64", "tgkill", "kill"})
    @@ Args(5, {"setxattr", "lsetxattr", "fsetxattr"})
    @@ Args(4, {"faccessat2", "lgetxattr", "getxattr", "fgetxattr", "openat"})
    @@ Args(3, {"faccessat"}) @@ Args(2, {"pipe2", "removexattr", "lremovexattr", "fremovexattr"})
Passed5 ==
    Args(6, {"setitimer", "timer_create", "timer_gettime", "timer_settime", "timer_getoverrun", "timer_delete", "fdatasync",
             "setfsgid", "setfsuid", "socket", "connect", "msync", "sendto", "recvfrom", "lseek", "getcpu"})
    @@ Args(4, {"utimensat"}) @@ Args(2, {"nanosleep"}) @@ Args(1, {"getpgid", "times"})
    @@ Args(0, {"getuid", "geteuid", "getegid", "getgid", "getppid", "getpid", "gettid"})
Passed6 ==
    Args(6, {"timerfd_create", "timerfd_settime", "madvise", "eventfd2", "fchmod", "semget", "semop", "semtimedop"})
    @@ Args(3, {"listxattr", "getsockname", "fchmodat", "recvmsg", "sendmsg"})
    @@ Args(2, {"timerfd_gettime", "statfs", "fstatfs"})
Passed7 == Args(6, {"flock", "clock_nanosleep"})
Passed8 ==
    Args(6, {"rt_sigtimedwait", "get_mempolicy", "set_mempolicy", "membarrier"}) @@ Args(4, {"mknodat"}) @@ Args(0, {"sched_yield"})
Passed9 ==
    Args(6, {"futex", "inotify_init1", "inotify_rm_watch", "fallocate", "sched_getaffinity", "sched_setaffinity",
             "sched_get_priority_min", "sched_get_priority_max", "sched_setscheduler", "mincore", "listen"})
    @@ Args(3, {"inotify_add_watch"})
Passed10 == Args(6, {"wait4", "fchownat", "sync_file_range"}) @@ Args(3, {"mkdirat"})
Passed11 ==
    Args(6, {"umask", "ppoll"}) @@ Args(5, {"linkat"}) @@ Args(4, {"readlinkat"}) @@ Args(3, {"getpeername"})
    @@ Args(1, {"epoll_create1"})
Passed ==
    Passed1 @@ PassedByName @@ Passed2 @@ Passed3 @@ Passed4 @@ Passed5 @@ Passed6 @@ Passed7 @@ Passed8 @@ Passed9
    @@ Passed10 @@ Passed11

\* Calls that are refused whatever their arguments.
Denied == [rseq |-> "ENOSYS", fchmodat2 |-> "ENOSYS", clone3 |-> "ENOSYS", seccomp |-> "EINVAL", ptrace |-> "EPERM"]

\* Calls the RISC-V kernel does not have under the same name.
Direct64 ==
    Args(4, {"renameat"}) @@ Args(3, {"readlink", "poll", "chown", "lchown", "mknod", "open"})
    @@ Args(2, {"link", "rename", "chmod", "creat", "symlink", "dup2", "access", "mkdir"})
    @@ Args(1, {"time", "pipe", "alarm", "unlink", "rmdir"}) @@ Args(0, {"inotify_init", "getpgrp"})
Direct32 ==
    Args(3, {"mknod", "open", "waitpid", "readlink", "poll"})
    @@ Args(2, {"symlink", "chmod", "rename", "mkdir", "access", "link", "dup2"})
    @@ Args(1, {"alarm", "rmdir", "pipe", "unlink"}) @@ Args(0, {"inotify_init", "epoll_create"})

\* The calls of 32-bit guests that are taken for those of 64-bit ones.
Common32 ==
    {"brk", "read", "write", "uname", "exit", "exit_group", "openat", "statx", "close", "set_tid_address", "set_robust_list",
     "rseq", "mmap", "getegid", "geteuid", "getgid", "getpgid", "getpid", "getppid", "getresgid", "getresuid", "gettid",
     "getuid", "getsid", "setfsgid", "setfsuid", "setgid", "setpgid", "setsid", "setuid", "setregid", "setreuid",
     "setresgid", "setresuid", "chdir", "fchdir", "futex", "getrandom", "getcwd", "munmap", "fchmod", "fchmodat", "fchown",
     "fchownat", "mkdirat", "execve", "prctl", "sync", "dup", "dup3", "prlimit64", "rt_sigprocmask", "rt_sigsuspend",
     "readlinkat", "tgkill", "clock_gettime", "clock_settime", "clone3", "socket", "bind", "connect", "listen", "accept4",
     "getsockname", "getpeername", "socketpair", "shutdown", "pipe2", "eventfd2", "epoll_create1", "epoll_ctl",
     "epoll_pwait", "epoll_pwait2", "symlinkat", "linkat", "inotify_init1", "inotify_add_watch", "inotify_rm_watch",
     "sched_getaffinity", "sched_setaffinity", "sched_getparam", "sched_setparam", "sched_getscheduler",
     "sched_setscheduler", "sched_setattr", "sched_getattr", "sched_get_priority_max", "sched_get_priority_min",
     "sched_rr_get_interval", "sched_yield", "memfd_create", "madvise", "getpriority", "setpriority", "flock", "faccessat",
     "faccessat2", "mincore", "msync", "umask", "fsync", "ftruncate", "kill", "mbind", "tkill", "mprotect", "getxattr",
     "fgetxattr", "lgetxattr", "removexattr", "fremovexattr", "lremovexattr", "fsetxattr", "mknodat"}

\* The kernel reads as many registers as the call has; those not passed hold anything.
Told(c, passed) ==
    [args |-> [i \in 1..Kernel!Takes(c.cmd) |->
                 IF i > passed THEN c.junk ELSE IF c.cmd = "personality" THEN c.args[i] \ {3} ELSE c.args[i]]]
\* The kernel of the host knows the list head of 64-bit programs only.
Accepted(c) == IF c.bits = 32 /\ c.cmd = "set_robust_list" THEN "EINVAL" ELSE Result(c)

felix86_syscall_common(c) ==
    CASE c.cmd \in DOMAIN Passed -> Reply(c.mem, Told(c, Passed[c.cmd]), Accepted(c), saved)
      [] c.cmd \in DOMAIN Denied -> Error(c, Denied[c.cmd])
      [] OTHER -> Stops(c)
Called(c) ==
    LET direct == IF c.bits = 32 THEN Direct32 ELSE Direct64
    IN  IF c.cmd \in DOMAIN direct /\ (c.bits = 64 \/ c.cmd \notin Common32)
        THEN Answered(c, c.mem, Told(c, direct[c.cmd]))
        ELSE IF c.bits = 32 /\ c.cmd \notin Common32 THEN Stops(c) ELSE felix86_syscall_common(c)

-----------------------------------------------------------------------------
(* Numbers of 64 bits in two registers. *)

offset == Natural(<<F("position", 8)>>)

llseek(c) ==
    Answered(c, IF c.ok THEN Assigned(offset, c.mem, c.host) ELSE c.mem,
             [args |-> <<c.args[1], Join(c.args[3], c.args[2]), c.args[5]>>])
ia32_fallocate(c) ==
    Answered(c, c.mem, [args |-> <<c.args[1], c.args[2], Join(c.args[3], c.args[4]), Join(c.args[5], c.args[6])>>])
\* posix_fadvise64 returns the error itself, not -1.
Advised(c, told) == Reply(c.mem, told, IF c.ok THEN "done" ELSE "positive error", saved)
ia32_fadvise64(c) == Advised(c, [args |-> <<c.args[1], Join(c.args[2], c.args[3]), c.args[4], c.args[5]>>])
ia32_fadvise64_64(c) == Advised(c, [args |-> <<c.args[1], Join(c.args[2], c.args[3]), Join(c.args[4], c.args[5]), c.args[6]>>])
ia32_pread64(c) == Answered(c, c.mem, [args |-> <<c.args[1], c.args[2], c.args[3], Join(c.args[4], c.args[5])>>])
ia32_pwrite64(c) == Answered(c, c.mem, [args |-> <<c.args[1], c.args[2], c.args[3], Join(c.args[4], c.args[5])>>])
ia32_ftruncate64(c) == Answered(c, c.mem, [args |-> <<c.args[1], Join(c.args[2], c.args[3])>>])
WideCall(c) ==
    CASE c.cmd = "llseek" -> llseek(c)
      [] c.cmd = "fallocate" -> ia32_fallocate(c)
      [] c.cmd = "fadvise64" -> ia32_fadvise64(c)
      [] c.cmd = "fadvise64_64" -> ia32_fadvise64_64(c)
      [] c.cmd = "pread64" -> ia32_pread64(c)
      [] c.cmd = "pwrite64" -> ia32_pwrite64(c)
      [] c.cmd = "ftruncate64" -> ia32_ftruncate64(c)

-----------------------------------------------------------------------------
(* Time. *)

clock_gettime32(c) ==
    IF c.null THEN Error(c, "EFAULT")
    ELSE Answered(c, Copied(x86_timespec, c.mem, IF c.ok THEN c.host ELSE Junk(c, x86_timespec), {}), Nothing)
clock_settime32(c) == IF c.null THEN Error(c, "EFAULT") ELSE Answered(c, c.mem, Loaded(x86_timespec, c.mem))
clock_getres(c) ==
    IF c.null THEN Error(c, "EFAULT")
    ELSE Answered(c, IF c.ok THEN Copied(x86_timespec, c.mem, c.host, {}) ELSE c.mem, Nothing)
clock_nanosleep_time32(c) ==
    IF c.null THEN Error([c EXCEPT !.mem = c.back], "EFAULT")
    ELSE Answered(c, IF c.ok /\ c.old THEN Copied(x86_timespec, c.back, Junk(c, x86_timespec), {}) ELSE c.back,
                  Loaded(x86_timespec, c.mem))
ppoll_time32(c) ==
    IF c.null THEN Answered(c, c.mem, Nothing)
    ELSE Answered(c, Copied(x86_timespec, c.mem, IF c.ok THEN c.host ELSE Loaded(x86_timespec, c.mem), {}),
                  Loaded(x86_timespec, c.mem))
\* The register is taken for a pointer to a time in every operation.
futex_time32(c) ==
    Answered(c, c.mem, CASE c.cmd = "wait" /\ ~c.null -> Loaded(x86_timespec, c.mem)
                         [] c.cmd = "requeue" -> [count |-> IF c.null THEN {} ELSE c.junk]
                         [] OTHER -> Nothing)
utimensat_time32(c) == Answered(c, c.mem, IF c.null THEN Nothing ELSE [times |-> LoadedAll(x86_timespec, c.mem, 2)])
\* Only a time of zero is stored.
time32(c) ==
    IF c.host.position = {} /\ c.null THEN Stops(c)
    ELSE Reply(IF c.host.position = {} THEN Assigned(Natural(<<F("position", 4)>>), c.mem, c.host) ELSE c.mem, Nothing, "done", saved)

\* The sets are converted up to the next whole word, the time is not updated
\* by the C library's function, and its mask is always set.
pselect6_time32(c) ==
    LET nfds == RoundUp(c.count, WordBits)
        given == [n \in c.given |-> c.host[n] \cap 0..(nfds - 1)]
        written(n) == {b \in c.host[n] : b >= nfds} \cup (IF c.ok THEN c.answers[1][n] ELSE given[n])
    IN  IF c.cmd = "nullmask" THEN Stops(c)
        ELSE Answered(c, UNION {{<<n, b>> : b \in written(n)} : n \in c.given}
                             \cup {<<"time", b>> : b \in IF c.null THEN {} ELSE Copied(x86_timespec, c.mem, Loaded(x86_timespec, c.mem), {})},
                      [fds |-> given, mask |-> IF c.cmd = "mask" THEN {c.args[1]} ELSE {{}},
                       time |-> IF c.null THEN Nothing ELSE Loaded(x86_timespec, c.mem)])

-----------------------------------------------------------------------------
(* Files. *)

Filled(c, s) == Answered(c, IF c.ok THEN Copied(s, c.mem, c.host, c.junk) ELSE c.mem, Nothing)
stat64(c) == Filled(c, x86_stat64)
lstat64(c) == Filled(c, x86_stat64)
fstat64(c) == Filled(c, x86_stat64)
fstat(c) == Filled(c, x86_stat)
newfstatat(c) == Filled(c, x86_stat)
stat(c) == Filled(c, x86_stat)
lstat(c) == Filled(c, x86_stat)
statfs64(c) == IF c.count # x86_statfs64.size THEN Stops(c) ELSE Filled(c, x86_statfs64)
fstatfs64(c) == IF c.count # x86_statfs64.size THEN Stops(c) ELSE Filled(c, x86_statfs64)
\* The kernel fills the guest's buffer; the offsets are then replaced by positions.
getdents64(c) ==
    LET entry(n) == [c.answers[n] EXCEPT !.d_off = {b \in 0..7 : ((n - 1) \div 2^b) % 2 = 1}]
    IN  Answered(c, IF c.ok THEN AssignedAll(x86_linux_dirent, c.mem, [n \in DOMAIN c.answers |-> entry(n)]) ELSE c.mem, Nothing)
writev(c) == Answered(c, c.mem, [list |-> LoadedAll(x86_iovec, c.mem, c.count)])

Lock(c, s, writes) == Answered(c, IF writes /\ c.ok THEN Copied(s, c.mem, c.host, {}) ELSE c.mem, Loaded(s, c.mem))
fcntl64(c) ==
    CASE c.cmd \in {"X86_GETLK64", "F_OFD_GETLK"} -> Lock(c, x86_flock64, TRUE)
      [] c.cmd \in {"X86_SETLK64", "X86_SETLKW64", "F_OFD_SETLK", "F_OFD_SETLKW"} -> Lock(c, x86_flock64, FALSE)
      [] c.cmd = "F_GETLK" -> Lock(c, x86_flock, TRUE)
      [] c.cmd \in {"F_SETLK", "F_SETLKW"} -> Lock(c, x86_flock, FALSE)
      [] OTHER -> Answered(c, c.mem, [args |-> SubSeq(c.args, 1, 3)])

\* The buffer for the events has maxevents bytes.
epoll_wait(c) ==
    IF 16 * Len(c.answers) > c.count THEN Stops(c)
    ELSE Answered(c, IF c.ok THEN AssignedAll(x86_epoll_event, c.mem, c.answers) ELSE c.mem, [room |-> c.count])
epoll_pwait(c) == Answered(c, IF c.ok THEN AssignedAll(x86_epoll_event, c.mem, c.answers) ELSE c.mem, [room |-> c.count])
epoll_pwait2(c) == Answered(c, IF c.ok THEN AssignedAll(x86_epoll_event, c.mem, c.answers) ELSE c.mem, [room |-> c.count])
epoll_ctl(c) ==
    IF c.null THEN Answered(c, c.mem, Nothing)
    ELSE LET event == Loaded(x86_epoll_event, c.mem)
         IN  Answered(c, IF c.ok THEN Copied(x86_epoll_event, c.mem, event, {}) ELSE c.mem, event)

-----------------------------------------------------------------------------
(* Processes and threads. *)

getrlimit(c) == Filled(c, x86_rlimit)
\* The guest's structure is read, handed to the kernel, and written back in any case.
Usage(c) ==
    Answered(c, Copied(x86_rusage, c.mem, IF c.ok THEN c.host ELSE Loaded(x86_rusage, c.mem), {}), Nothing)
wait4(c) == IF c.null THEN Answered(c, c.mem, Nothing) ELSE Usage(c)
getrusage(c) == IF c.null THEN Error(c, "EINVAL") ELSE Usage(c)
\* The unit is doubled until it is that of a page if the numbers do not fit.
Shift(h) ==
    LET unit == CHOOSE b \in h.mem_unit : TRUE
    IN  IF h.totalram \cap 4..7 = {} /\ h.totalswap \cap 4..7 = {} THEN 0 ELSE Max({0, PageBit - unit})
sysinfo(c) ==
    LET h == c.host
        by == Shift(h)
        Of(n) ==
            CASE n = "uptime" -> IF h.uptime \cap 3..7 = {} THEN h.uptime ELSE 0..2
              [] n = "mem_unit" -> ShiftLeft(h.mem_unit, by)
              [] n \in {"procs", "load1", "load5", "load15"} -> h[n]
              [] OTHER -> ShiftRight(h[n], by)
    IN  Filled([c EXCEPT !.host = [n \in DOMAIN h |-> Of(n)]], x86_sysinfo)

x86_sigaction_old == Natural([x86_sigaction.fields EXCEPT ![3].of = ""])        \* the restorer is not returned

\* The table keeps the flags as an int.
Action(s, c) ==
    LET act == Loaded(s, c.mem)
    IN  [act EXCEPT !.sa_flags = IF c.bits = 64 THEN SignExtend(Low(@, 4), 4) ELSE @]
Sigaction(c, s, old) ==
    LET d == [c EXCEPT !.mem = c.back]
    IN  IF c.cmd = "beyond" \/ (c.cmd = "kill" /\ ~c.null) THEN Error(d, "EINVAL")
        ELSE IF c.cmd = "zero" THEN Stops(d)
        ELSE Reply(IF c.old THEN Assigned(old, c.back, saved.action) ELSE c.back, Nothing, "done",
                   IF c.null THEN saved ELSE [saved EXCEPT !.action = Action(s, c)])
rt_sigaction(c) == Sigaction(c, x64_sigaction, x64_sigaction)
rt_sigaction32(c) == Sigaction(c, x86_sigaction, x86_sigaction_old)

\* The size is compared with where its sum with the address was meant.
OnStack(c) ==
    /\ 1 \notin saved.alt.ss_flags
    /\ c.sp >= Number(saved.alt.ss_sp)
    /\ c.sp < Number(saved.alt.ss_size)
Sigaltstack(c, s) ==
    LET old == [saved.alt EXCEPT !.ss_flags = IF OnStack(c) THEN {0} ELSE {1}]
        back == IF c.old THEN Assigned(s, c.back, old) ELSE c.back
    IN  IF ~c.null /\ OnStack(c) THEN Error([c EXCEPT !.mem = back], "EPERM")
        ELSE Reply(back, Nothing, "done", IF c.null THEN saved ELSE [saved EXCEPT !.alt = Loaded(s, c.mem)])
stack_t == Natural(<<F("ss_sp", 8), F("ss_flags", 4), F("ss_size", 8)>>)
sigaltstack(c) == Sigaltstack(c, stack_t)
sigaltstack32(c) == Sigaltstack(c, x86_stack_t)

Bits(n) == {b \in 0..3 : (n \div 2^b) % 2 = 1}
SetUserDesc(c) ==
    LET udesc == Loaded(x86_user_desc, c.mem)
        free == {i \in 12..14 : saved.gdt[i] = {}}
        search == udesc.entry_number = 0..3
        index == IF search THEN Min(free) ELSE Number(udesc.entry_number)
    IN  IF search /\ free = {} THEN Error(c, "ESRCH")
        ELSE Reply(Assigned(x86_user_desc, c.mem, [udesc EXCEPT !.entry_number = Bits(index)]), Nothing, "done",
                   [saved EXCEPT !.gdt[index] = udesc.base_addr,
                                 !.gsbase = IF saved.gs = index THEN udesc.base_addr ELSE @])
get_thread_area(c) ==
    LET base == saved.gdt[Number(Loaded(x86_user_desc, c.mem).entry_number)]
    IN  Reply(Assigned(x86_user_desc, c.mem, [entry_number |-> {}] @@ Descriptor(base)), Nothing, "done", saved)
arch_prctl(c) ==
    CASE c.cmd = "SET_GS" -> Reply(c.mem, Nothing, "done", [saved EXCEPT !.gsbase = c.args[2]])
      [] c.cmd = "SET_FS" -> Reply(c.mem, Nothing, "done", [saved EXCEPT !.fsbase = c.args[2]])
      [] c.cmd \in {"GET_GS", "GET_FS"} -> Refuse(c, "the base")
      [] OTHER -> Error(c, "EINVAL")

\* semctl of 64-bit guests.
semctl_set(c) ==
    LET set == Loaded(x64_semid64_ds, c.mem)
    IN  Answered(c, IF c.ok THEN Copied(x64_semid64_ds, c.mem, set, c.junk) ELSE c.mem, Only(set, {"uid", "gid", "mode"}))
semctl_stat(c) == Filled(c, x64_semid64_ds)

-----------------------------------------------------------------------------
(* Sockets of 32-bit guests. *)

Header(c) ==
    [head |-> Only(Loaded(x86_msghdr, c.mem), {"msg_name", "msg_namelen"}), list |-> LoadedAll(x86_iovec, c.back, c.iovs)]

\* The kernel fills a buffer twice as large with its own headers, and each
\* message is copied to the guest's without looking at the room there.
recvmsg32(c) ==
    LET host == Kernel!Put(c.list, 2 * c.count, 16, 8)
        used == MapThenSumSet(LAMBDA n : 12 + host.list[n], DOMAIN host.list)
        received == Natural(<<Gap(4), F("msg_namelen", 4), Gap(4), Gap(4), Gap(4), Gap(4), F("msg_flags", 4)>>)
    IN  Answered(c, IF c.ok THEN Assigned(received, c.mem, c.host) ELSE c.mem,
                 (IF c.ok THEN [got |-> host.list, used |-> used, cut |-> host.cut] ELSE Nothing) @@ Header(c))

\* One message more in the host's buffer, if CMSG_NXTHDR found a place for it.
Place(acc, data) ==
    LET len == 16 + data
        size == acc.size + 4
        after == acc.next + RoundUp(len, 8)
    IN  IF acc.next < 0 THEN [acc EXCEPT !.fault = TRUE]
        ELSE [fault |-> acc.fault, size |-> size, at |-> Append(acc.at, acc.next),
              next |-> IF after + 16 > size THEN -1 ELSE after]
sendmsg32(c) ==
    LET room == MapThenSumSet(LAMBDA n : 12 + RoundUp(c.list[n], 4), DOMAIN c.list)
        host == FoldLeft(Place, [fault |-> FALSE, size |-> room, at |-> <<>>, next |-> 0], c.list)
        whole(n) == host.at[n] + 16 + c.list[n] <= host.size
    IN  IF host.fault THEN Stops(c)
        ELSE IF \E n \in DOMAIN c.list : ~whole(n) THEN Refuse(c, "EINVAL")
        ELSE Answered(c, c.mem, [sent |-> c.list] @@ Header(c))

Raw(c) == Answered(c, c.mem, [raw |-> c.mem])
getsockopt32(c) == IF c.cmd \in {"level", "flag", "filter"} THEN Raw(c) ELSE Stops(c)
setsockopt32(c) ==
    CASE c.cmd \in {"level", "flag", "newer"} -> Raw(c)
      [] c.cmd = "filter" -> IF c.count # sock_fprog32.size THEN Refuse(c, "EINVAL") ELSE Answered(c, c.mem, Loaded(sock_fprog32, c.mem))
      [] c.cmd \in {"rcvtimeo", "sndtimeo"} -> Answered(c, c.mem, Loaded(x86_timeval, c.mem))
      [] OTHER -> Stops(c)

\* The words at the pointer that each command uses.
socketcall(c) ==
    LET uses ==
            Args(2, {"LISTEN", "SHUTDOWN"}) @@ Args(4, {"SOCKETPAIR", "SEND", "RECV", "ACCEPT4"})
            @@ Args(3, {"SOCKET", "BIND", "CONNECT", "ACCEPT", "GETSOCKNAME", "GETPEERNAME", "SENDMSG", "RECVMSG"})
            @@ Args(5, {"SETSOCKOPT", "GETSOCKOPT"}) @@ Args(6, {"SENDTO", "RECVFROM"})
        word == Natural(<<F("word", 4)>>)
    IN  IF c.cmd \notin DOMAIN uses THEN Stops(c)
        ELSE Answered(c, c.mem, [words |-> LoadedAll(word, c.mem, uses[c.cmd])])

-----------------------------------------------------------------------------
(* System V objects of 32-bit guests. *)

SemSet(c, s) ==
    LET set == Loaded(s, c.mem)
    IN  Answered(c, IF c.ok THEN Copied(s, c.mem, set, {}) ELSE c.mem, Only(set, {"uid", "gid", "mode"}))
SEMCTL(c) ==
    CASE c.cmd = "sem_set_old" -> SemSet(c, x86_semid_ds_32)
      [] c.cmd = "sem_set_new" -> SemSet(c, x86_semid_ds_64)
      [] c.cmd = "sem_stat_old" -> Filled(c, x86_semid_ds_32)
      [] c.cmd = "sem_stat_new" -> Filled(c, x86_semid_ds_64)
      [] c.cmd = "sem_plain" -> Answered(c, c.mem, [args |-> <<c.args[1], c.args[2], c.args[4]>>])
      [] c.cmd = "sem_ignored" -> Answered(c, c.mem, [args |-> <<c.args[1], c.args[2]>>])
SHMCTL(c) ==
    CASE c.cmd = "set_old" -> Answered(c, c.mem, Only(Loaded(x86_shmid_ds_32, c.mem), {"uid", "gid", "mode"}))
      [] c.cmd = "set_new" -> Answered(c, c.mem, Only(Loaded(x86_shmid_ds_64, c.mem), {"uid", "gid", "mode"}))
      [] c.cmd = "stat_old" -> Filled(c, x86_shmid_ds_32)
      [] c.cmd = "stat_new" -> Filled(c, x86_shmid_ds_64)
      [] c.cmd = "info_old" -> Filled(c, x86_shminfo_32)
      [] c.cmd = "info_new" -> Filled(c, x86_shminfo_64)
      [] c.cmd = "usage" -> Filled(c, x86_shm_info_32)
      [] c.cmd = "shm_plain" -> Answered(c, c.mem, [args |-> <<c.args[1]>>])
Semaphores == {"sem_set_old", "sem_set_new", "sem_stat_old", "sem_stat_new", "sem_plain", "sem_ignored"}
SharedMemory == {"set_old", "set_new", "stat_old", "stat_new", "info_old", "info_new", "usage", "shm_plain"}
ipc32(c) ==
    CASE c.cmd = "semop" -> Answered(c, c.mem, [args |-> <<c.args[1], c.args[4], c.args[2]>>])
      [] c.cmd \in {"semget", "shmget"} -> Answered(c, c.mem, [args |-> SubSeq(c.args, 1, 3)])
      [] c.cmd = "msgget" -> Answered(c, c.mem, [args |-> SubSeq(c.args, 1, 2)])
      [] c.cmd \in Semaphores -> SEMCTL(c)
      [] c.cmd \in SharedMemory -> SHMCTL(c)
      [] OTHER -> Stops(c)

-----------------------------------------------------------------------------
(* Devices of 32-bit guests. *)

SIMPLE_CASE(c) == Raw(c)
MARSHAL_CASE(c, type) ==
    Answered(c, IF c.ok THEN Copied(type, c.mem, c.host, c.junk) ELSE c.mem, Loaded(type, c.mem))

\* A slip: every driver is taken for one without structures of its own.
RegisterDefault(fd, name) == [saved EXCEPT !.handlers[fd] = "default", !.asked = @ \cup {fd}]

\* A driver is remembered by the number of the file, from the answer to
\* VERSION if the program asked for the name, and is never forgotten.
registerFd(fd, name) ==
    [saved EXCEPT !.handlers[fd] = IF name = "radeon" THEN "radeon" ELSE "default", !.asked = @ \cup {fd}]
DRM_IOCTL_VERSION(c) ==
    LET named == c.ok /\ Low(c.host.name, 8) # {} /\ c.host.name_len # {}
    IN  [MARSHAL_CASE(c, x86_drm_version) EXCEPT !.kept = IF named THEN registerFd(c.fd, saved.device[c.fd]) ELSE saved]
DRM_IOCTL_WAIT_VBLANK(c) ==
    Answered(c, IF c.ok THEN Assigned(x86_drm_wait_vblank, c.mem, c.host) ELSE c.mem, Loaded(x86_drm_wait_vblank_request, c.mem))

Marshalled ==
    [unique |-> x86_drm_unique, map |-> x86_drm_map, client |-> x86_drm_client, stats |-> x86_drm_stats,
     buf_desc |-> x86_drm_buf_desc, buf_info |-> x86_drm_buf_info, buf_free |-> x86_drm_buf_free,
     ctx_priv_map |-> x86_drm_ctx_priv_map, ctx_res |-> x86_drm_ctx_res, dma |-> x86_drm_dma,
     scatter_gather |-> x86_drm_scatter_gather, update_draw |-> x86_drm_update_draw, mode_fb_cmd2 |-> x86_drm_mode_fb_cmd2]
\* The case of MAP_BUFS is the whole command, which the number of a command never is.
ioctl32_drm(c) ==
    CASE c.cmd = "version" -> DRM_IOCTL_VERSION(c)
      [] c.cmd = "wait_vblank" -> DRM_IOCTL_WAIT_VBLANK(c)
      [] c.cmd \in DOMAIN Marshalled -> MARSHAL_CASE(c, Marshalled[c.cmd])
      [] c.cmd = "simple" -> SIMPLE_CASE(c)
      [] OTHER -> Stops(c)

MarshalledRadeon ==
    [init |-> x86_drm_radeon_init_t, clear |-> x86_drm_radeon_clear_t, stipple |-> x86_drm_radeon_stipple_t,
     texture |-> x86_drm_radeon_texture_t, vertex2 |-> x86_drm_radeon_vertex2_t, cmdbuf |-> x86_drm_radeon_cmd_buffer_t,
     getparam |-> x86_drm_radeon_getparam_t, alloc |-> x86_drm_radeon_mem_alloc_t,
     irq_emit |-> x86_drm_radeon_irq_emit_t, setparam |-> x86_drm_radeon_setparam_t]
ioctl32_radeon(c) ==
    CASE c.cmd \in DOMAIN MarshalledRadeon -> MARSHAL_CASE(c, MarshalledRadeon[c.cmd])
      [] c.cmd = "simple" -> SIMPLE_CASE(c)
      [] OTHER -> Stops(c)
ioctl32_default(c) == Raw(c)
getHandler(c) == IF saved.handlers[c.fd] = "radeon" THEN ioctl32_radeon(c) ELSE ioctl32_default(c)

\* A pointer passed as u32 is extended by its sign on the way to the kernel.
AsU32(c) == IF 3 \in c.args[3] THEN Refuse(c, "EFAULT") ELSE Raw(c)
ioctl32_fs(c) == IF c.cmd = "fs_listed" THEN SIMPLE_CASE(c) ELSE AsU32(c)
ioctl32_fat(c) == IF c.cmd = "fat_listed" THEN SIMPLE_CASE(c) ELSE AsU32(c)
ioctl32_tty(c) == IF c.cmd = "tty_listed" THEN SIMPLE_CASE(c) ELSE AsU32(c)
ioctl32(c) ==
    CASE c.op = "drm" -> ioctl32_drm(c)
      [] c.op = "driver" -> getHandler(c)
      [] c.op = "ioctl" /\ c.cmd \in {"fs_listed", "fs_other"} -> ioctl32_fs(c)
      [] c.op = "ioctl" /\ c.cmd \in {"fat_listed", "fat_other"} -> ioctl32_fat(c)
      [] c.op = "ioctl" /\ c.cmd \in {"tty_listed", "tty_other"} -> ioctl32_tty(c)
      [] c.op = "ioctl" /\ c.cmd = "other" -> ioctl32_default(c)
\* A device is opened and its file has a number that is free now.
OpenDevice(c) == Reply(c.mem, Nothing, "done", [saved EXCEPT !.device[c.fd] = c.cmd, !.asked = @ \ {c.fd}])

-----------------------------------------------------------------------------
(* The calls of both modes, and those that only one has. *)

BothModes(c) ==
    CASE c.op = "call" -> Called(c)
      [] c.op = "epoll_ctl" -> epoll_ctl(c)
      [] c.op = "epoll_wait" -> epoll_wait(c)
      [] c.op = "epoll_pwait" -> epoll_pwait(c)
      [] c.op = "epoll_pwait2" -> epoll_pwait2(c)
      [] c.op = "fstat" -> fstat(c)
      [] c.op = "newfstatat" -> newfstatat(c)
      [] c.op = "semctl_set" -> semctl_set(c)
      [] c.op = "semctl_stat" -> semctl_stat(c)
      [] c.op = "open" -> OpenDevice(c)
Only64(c) ==
    CASE c.op = "stat" -> stat(c)
      [] c.op = "lstat" -> lstat(c)
      [] c.op = "rt_sigaction" -> rt_sigaction(c)
      [] c.op = "sigaltstack" -> sigaltstack(c)
      [] c.op = "arch_prctl" -> arch_prctl(c)
Only32(c) ==
    CASE c.op = "wide" -> WideCall(c)
      [] c.op = "clock_gettime32" -> clock_gettime32(c)
      [] c.op = "clock_settime32" -> clock_settime32(c)
      [] c.op = "clock_getres" -> clock_getres(c)
      [] c.op = "clock_nanosleep" -> clock_nanosleep_time32(c)
      [] c.op = "ppoll_time32" -> ppoll_time32(c)
      [] c.op = "futex" -> futex_time32(c)
      [] c.op = "utimensat" -> utimensat_time32(c)
      [] c.op = "time32" -> time32(c)
      [] c.op = "pselect6" -> pselect6_time32(c)
      [] c.op = "stat64" -> stat64(c)
      [] c.op = "lstat64" -> lstat64(c)
      [] c.op = "fstat64" -> fstat64(c)
      [] c.op = "statfs64" -> statfs64(c)
      [] c.op = "fstatfs64" -> fstatfs64(c)
      [] c.op = "getdents64" -> getdents64(c)
      [] c.op = "writev" -> writev(c)
      [] c.op = "fcntl" -> fcntl64(c)
      [] c.op = "getrlimit" -> getrlimit(c)
      [] c.op = "wait4" -> wait4(c)
      [] c.op = "getrusage" -> getrusage(c)
      [] c.op = "sysinfo" -> sysinfo(c)
      [] c.op = "rt_sigaction" -> rt_sigaction32(c)
      [] c.op = "sigaltstack" -> sigaltstack32(c)
      [] c.op = "set_thread_area" -> SetUserDesc(c)
      [] c.op = "get_thread_area" -> get_thread_area(c)
      [] c.op = "recvmsg" -> recvmsg32(c)
      [] c.op = "sendmsg" -> sendmsg32(c)
      [] c.op = "getsockopt" -> getsockopt32(c)
      [] c.op = "setsockopt" -> setsockopt32(c)
      [] c.op = "socketcall" -> socketcall(c)
      [] c.op = "ipc" -> ipc32(c)
      [] c.op \in {"drm", "driver", "ioctl"} -> ioctl32(c)
Shared == {"call", "epoll_ctl", "epoll_wait", "epoll_pwait", "epoll_pwait2", "fstat", "newfstatat", "semctl_set", "semctl_stat", "open"}
felix86_syscall(c) == IF c.op \in Shared THEN BothModes(c) ELSE Only64(c)
felix86_syscall32(c) == IF c.op \in Shared THEN BothModes(c) ELSE Only32(c)

-----------------------------------------------------------------------------
(* The known departures from Linux, in which nothing is claimed.           *)

\* A number read as unsigned that is negative, or that does not fit.
BeyondWord(v) == v \cap 4..7 # {}
TimeStrays(c) ==
    \/ c.op \in {"clock_settime32", "ppoll_time32", "clock_nanosleep", "pselect6"} /\ ~c.null /\ c.mem \cap {3, 7} # {}
    \/ c.op = "utimensat" /\ ~c.null /\ c.mem \cap {3, 7, 11, 15} # {}
    \/ c.op = "futex" /\ c.cmd = "wait" /\ ~c.null /\ c.mem \cap {3, 7} # {}
    \/ c.op = "futex" /\ c.cmd = "requeue" /\ ~c.null
    \/ c.op = "clock_gettime32" /\ ~c.null /\ ~c.ok       \* writes what nobody has set
    \/ c.op = "clock_getres" /\ c.null
    \/ c.op = "clock_nanosleep" /\ ~c.null /\ c.old                    \* the remaining time is written if and only if it should not
    \/ c.op = "time32" /\ (c.null <=> c.host.position = {})
    \/ c.op = "pselect6" /\ c.cmd # "mask"                 \* there is always a mask, and the time is not updated
    \/ c.op = "pselect6" /\ ~c.null /\ c.answers[2] # Loaded(x86_timespec, c.mem)
    \/ c.op = "pselect6" /\ \E n \in c.given : c.host[n] \cap c.count..(RoundUp(c.count, WordBits) - 1) # {}
FileStrays(c) ==
    \/ c.op \in {"statfs64", "fstatfs64"} /\ c.count # 84
    \/ c.op = "getdents64" /\ c.ok /\ \E n \in DOMAIN c.answers : c.answers[n].d_off # Bits(n - 1)
    \/ c.op = "epoll_wait" /\ 16 * Len(c.answers) > c.count
    \/ c.op = "wide" /\ c.cmd \in {"fadvise64", "fadvise64_64"} /\ ~c.ok
    \/ c.op = "fcntl" /\ c.cmd = "F_GETLK" /\ c.ok /\ (Kernel!Overflows(c) \/ c.host.l_len \cap 3..7 # {})
    \/ c.op \in {"statfs64", "fstatfs64"} /\ c.ok /\ Kernel!Overflows(c)
CallStrays(c) ==
    /\ c.op = "call"
    /\ \/ c.cmd \in DOMAIN Denied
       \/ c.bits = 32 /\ c.cmd \notin Common32 \cup DOMAIN Direct32
       \/ c.cmd \notin DOMAIN Passed \cup DOMAIN (IF c.bits = 32 THEN Direct32 ELSE Direct64)
       \/ c.cmd = "personality" /\ 3 \in c.args[1]
       \/ c.bits = 32 /\ c.cmd = "set_robust_list"
ProcessStrays(c) ==
    \/ c.op = "getrlimit" /\ c.ok /\ \E n \in DOMAIN c.host : BeyondWord(c.host[n]) /\ ~ 0..3 \subseteq c.host[n]
    \/ c.op = "getrusage" /\ c.null
    \/ c.op = "sysinfo" /\ c.ok /\ c.host.uptime \cap 3..7 # {}
    \/ c.op = "rt_sigaction" /\ c.cmd = "zero"
    \/ c.op = "rt_sigaction" /\ c.bits = 32 /\ (c.old \/ (~c.null /\ c.mem \cap 12..23 # {}))
    \/ c.op = "rt_sigaction" /\ c.bits = 64 /\ ~c.null /\ c.mem \cap 11..15 # {}
    \/ c.op = "set_thread_area" /\ LET new == Loaded(x86_user_desc, c.mem)
                                    IN  \/ new.entry_number # 0..3 /\ Number(new.entry_number) \notin TlsEntries
                                        \/ Only(new, {"base_addr", "limit", "bits"}) # Descriptor(new.base_addr)
    \/ c.op = "get_thread_area"
    \/ c.op = "arch_prctl" /\ c.cmd \in {"GET_GS", "GET_FS"}
    \/ c.op = "semctl_set" /\ semctl_set(c).mem # c.mem          \* the reserved bytes are written
AltStackStrays(c) ==
    LET alt == saved.alt
        on == 1 \notin alt.ss_flags /\ c.sp > Number(alt.ss_sp) /\ c.sp - Number(alt.ss_sp) <= Number(alt.ss_size)
        new == Loaded(IF c.bits = 32 THEN x86_stack_t ELSE stack_t, c.mem)
    IN  /\ c.op = "sigaltstack"
        /\ \/ c.old /\ (1 \notin alt.ss_flags \/ alt.ss_sp \cup alt.ss_size # {})
           \/ ~c.null /\ (on \/ OnStack(c))
           \/ ~c.null /\ new.ss_flags \notin {{}, {0}, {1}}
           \/ ~c.null /\ new.ss_flags # {1} /\ Number(new.ss_size) < MinStack
SocketStrays(c) ==
    \/ c.op = "sendmsg" /\ \E n \in 1..(Len(c.list) - 1) : c.list[n] % 8 \in 1..4
    \/ c.op = "recvmsg" /\ c.ok /\ LET got == Kernel!Put(c.list, c.count, 12, 4).list
                                    IN  \/ got # Kernel!Put(c.list, 2 * c.count, 16, 8).list
                                        \/ \E n \in DOMAIN got : got[n] % 4 # 0
    \/ c.op = "getsockopt" /\ c.cmd \notin {"level", "flag", "filter"}
    \/ c.op = "setsockopt" /\ c.cmd = "unlisted"
    \/ c.op = "setsockopt" /\ c.cmd \in {"rcvtimeo", "sndtimeo"} /\ (c.count < 8 \/ c.mem \cap {3, 7} # {})
    \/ c.op = "socketcall" /\ c.cmd \in {"RECVMMSG", "SENDMMSG"}
IpcStrays(c) ==
    /\ c.op = "ipc"
    /\ \/ c.cmd \in Semaphores \ {"sem_ignored"}
       \/ c.cmd \in {"semtimedop", "msgsnd", "msgrcv", "msgctl"}
       \/ c.cmd \in {"stat_old", "info_old", "info_new"} /\ c.ok /\ \E n \in DOMAIN c.host : Kernel!Fitted(c, n) # c.host[n]
DeviceStrays(c) ==
    \/ c.op = "drm" /\ c.cmd \in {"buf_map", "unlisted"}
    \/ c.op = "drm" /\ c.cmd = "wait_vblank" /\ c.ok
    \/ c.op = "driver" /\ (c.fd \notin saved.asked \/ (c.cmd = "unlisted" /\ saved.handlers[c.fd] = "radeon"))
    \/ c.op = "ioctl" /\ c.cmd \in {"fs_other", "fat_other", "tty_other"} /\ 3 \in c.args[3]
Strays(c) ==
    \/ TimeStrays(c) \/ FileStrays(c) \/ CallStrays(c) \/ ProcessStrays(c) \/ AltStackStrays(c) \/ SocketStrays(c)
    \/ IpcStrays(c) \/ DeviceStrays(c)

-----------------------------------------------------------------------------
CallInit ==
    /\ buffer = {} /\ seen = Nothing /\ outcome = "none" /\ request = Nothing /\ served = 0
    /\ stray = FALSE
    /\ saved \in Booted
    /\ topic \in DOMAIN Requests

Call(c) ==
    /\ \E n \in {IF c.bits = 32 THEN felix86_syscall32(c) ELSE felix86_syscall(c)} :
         buffer' = n.mem /\ seen' = n.told /\ outcome' = n.result /\ saved' = n.kept
    /\ request' = c
    /\ stray' = Strays(c)
    /\ served' = served + 1
    /\ UNCHANGED topic

CallNext == served < Len(Requests[topic]) /\ \E c \in Requests[topic][served + 1] : Call(c)

\* Every system call tells the kernel, leaves in the guest's memory and in what
\* later calls see, and returns what it would on Linux for x86, except in the
\* departures named above: conversions, forwarded registers and remembered state.
LikeKernel == Kernel!Spec
=============================================================================
