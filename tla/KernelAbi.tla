------------------------------ MODULE KernelAbi ------------------------------
(***************************************************************************)
(* What system calls of an x86 program do on Linux for x86, as far as it   *)
(* depends on how the program lays out their arguments: what the kernel is *)
(* told, what it leaves in the program's memory, and what it remembers for *)
(* later calls.  What else a call does is not looked at: the answer of the *)
(* kernel is part of the request.                                          *)
(*                                                                         *)
(* A request: the mode of the caller (bits), the call (op), a command or   *)
(* option (cmd), the registers (args), the memory a pointer names (mem) or *)
(* whether there is none (null), whether the kernel grants it (ok) and its *)
(* answer (host, or answers for several structures).                       *)
(***************************************************************************)
EXTENDS KernelTypes, TLC

CONSTANT Requests       \* Requests[topic][n]: the requests that may come as the n-th on a topic
CONSTANT Begun          \* what may be remembered at the start
CONSTANT WordBits       \* the bits of a word of a set of descriptors
CONSTANT PageBit        \* the size of a page is 2^PageBit
CONSTANT MinStack       \* the smallest alternate stack
CONSTANT TlsEntries     \* the entries of the descriptor table that belong to threads

VARIABLES buffer,       \* the memory of the last request
          seen,         \* what the kernel was told
          outcome,
          kept,         \* what is remembered
          request,
          stray,        \* whether the request is one of the known departures
          served,
          topic

abiVars == <<buffer, seen, outcome, kept, request, stray, served, topic>>

-----------------------------------------------------------------------------
(* Calls with one structure, and calls with registers only. *)

\* Numbers that a field cannot hold.
Fitted(c, n) ==
    LET v == c.host[n]
    IN  CASE c.op = "getrlimit" /\ v \cap 4..7 # {} -> 0..3
          [] c.cmd = "stat_old" /\ n \in {"uid", "gid", "cuid", "cgid"} /\ v \cap 2..7 # {} -> {1}
          [] c.cmd \in {"info_old", "info_new"} /\ n = "shmmax" /\ v \cap 3..7 # {} -> 0..2
          [] c.cmd = "F_GETLK" /\ n = "l_len" /\ v \cap 3..7 # {} -> 0..2
          [] OTHER -> v
Overflows(c) ==
    \/ c.op \in {"statfs64", "fstatfs64"} /\ (c.host.f_bsize \cup c.host.f_frsize) \cap 4..7 # {}
    \/ c.cmd = "F_GETLK" /\ c.host.l_start \cap 3..7 # {}

Structured(c, s) ==
    IF c.null THEN Reply(c.mem, Nothing, IF c.op \in MayBeNull THEN Result(c) ELSE "EFAULT", kept)
    ELSE IF c.ok /\ Overflows(c) THEN Reply(c.mem, Only(Loaded(s.layout, c.mem), s.reads), "EOVERFLOW", kept)
    ELSE [Reply(IF s.writes /\ c.ok THEN Assigned(s.layout, c.mem, [n \in DOMAIN c.host |-> Fitted(c, n)]) ELSE c.mem,
                Only(Loaded(s.layout, c.mem), s.reads), Result(c), kept)
          EXCEPT !.loose = IF s.writes THEN Padding(s.layout) ELSE {}]
Untouched(c) == Reply(c.mem, [raw |-> c.mem], Result(c), kept)
Refused(c, why) == Reply(c.mem, Nothing, why, kept)

Forwarded(c) == Reply(c.mem, [args |-> SubSeq(c.args, 1, Takes(c.cmd))], Result(c), kept)
Widened(c) ==
    LET parts == Wide[c.cmd]
        Value(p) == IF Len(p) = 1 THEN c.args[p[1]] ELSE Join(c.args[p[1]], c.args[p[2]])
    IN  Reply(IF c.cmd = "llseek" /\ c.ok THEN Assigned(position, c.mem, c.host) ELSE c.mem,
              [args |-> [i \in DOMAIN parts |-> Value(parts[i])]], Result(c), kept)

-----------------------------------------------------------------------------
(* Calls with several structures, or with two pointers: mem is what the    *)
(* first one names and back what the second one does.                      *)

Vector(c) == Reply(c.mem, [list |-> LoadedAll(iovec, c.mem, c.count)], Result(c), kept)
Events(c) == Reply(IF c.ok THEN AssignedAll(epoll_event, c.mem, c.answers) ELSE c.mem, [room |-> c.count], Result(c), kept)
Entries(c) == Reply(IF c.ok THEN AssignedAll(dirent64, c.mem, c.answers) ELSE c.mem, Nothing, Result(c), kept)
Utimensat(c) == Reply(c.mem, IF c.null THEN Nothing ELSE [times |-> LoadedAll(timespec, c.mem, 2)], Result(c), kept)
Nanosleep(c) ==
    IF c.null THEN Refused([c EXCEPT !.mem = c.back], "EFAULT")
    ELSE Reply(IF c.old /\ ~c.ok THEN Assigned(timespec, c.back, c.host) ELSE c.back, Loaded(timespec, c.mem), Result(c), kept)
\* A wait takes a time, a requeue takes a count in the same register.
Futex(c) ==
    Reply(c.mem, CASE c.cmd = "wait" /\ ~c.null -> Loaded(timespec, c.mem)
                   [] c.cmd = "requeue" -> [count |-> c.args[4]]
                   [] OTHER -> Nothing, Result(c), kept)
Time32(c) == Reply(IF c.null THEN c.mem ELSE Assigned(position32, c.mem, c.host), Nothing, "done", kept)

\* Numbers of bytes that do not fit are counted in larger units.
Sysinfo(c) ==
    LET unit == CHOOSE b \in c.host.mem_unit : TRUE
        by == IF (c.host.totalram \cup c.host.totalswap) \cap 4..7 = {} \/ unit >= PageBit THEN 0 ELSE PageBit - unit
        Scaled(n) == IF n = "mem_unit" THEN {unit + by}
                     ELSE IF n \in Amounts THEN ShiftRight(c.host[n], by) ELSE c.host[n]
    IN  [Reply(IF c.ok THEN Assigned(sysinfo32, c.mem, [n \in DOMAIN c.host |-> Scaled(n)]) ELSE c.mem,
               Nothing, Result(c), kept)
         EXCEPT !.loose = Padding(sysinfo32)]

\* Descriptors: only those below nfds count, and whole words are written.
Select(c) ==
    LET asked == [n \in c.given |-> c.host[n] \cap 0..(c.count - 1)]
        left == [n \in c.given |-> {b \in c.host[n] : b >= RoundUp(c.count, WordBits)} \cup c.answers[1][n]]
    IN  Reply(UNION {{<<n, b>> : b \in IF c.ok THEN left[n] ELSE c.host[n]} : n \in c.given}
                  \cup {<<"time", b>> : b \in IF c.null THEN {} ELSE Assigned(timespec, c.mem, c.answers[2])},
              [fds |-> asked, mask |-> IF c.cmd = "mask" THEN {c.args[1]} ELSE {},
               time |-> IF c.null THEN Nothing ELSE Loaded(timespec, c.mem)], Result(c), kept)

-----------------------------------------------------------------------------
(* What is remembered: the action of a signal, the alternate stack, the    *)
(* descriptors of the thread, the bases of segments and open devices.      *)

Sigaction(c) ==
    LET l == IF c.bits = 32 THEN sigaction32 ELSE sigaction64
    IN  IF c.cmd \in {"zero", "beyond"} \/ (c.cmd = "kill" /\ ~c.null) THEN Refused([c EXCEPT !.mem = c.back], "EINVAL")
        ELSE Reply(IF c.old THEN Assigned(l, c.back, kept.action) ELSE c.back, Nothing, "done",
                   IF c.null THEN kept ELSE [kept EXCEPT !.action = Loaded(l, c.mem)])

Sigaltstack(c) ==
    LET l == IF c.bits = 32 THEN stack32 ELSE stack64
        base == Number(kept.alt.ss_sp)
        on == c.sp > base /\ c.sp - base <= Number(kept.alt.ss_size)
        flags == IF kept.alt.ss_size = {} THEN {1} ELSE IF on THEN {0} ELSE {}
        new == Loaded(l, c.mem)
        why == CASE c.null -> "done"
                 [] ~c.null /\ on -> "EPERM"
                 [] ~c.null /\ ~on /\ new.ss_flags \notin {{}, {0}, {1}} -> "EINVAL"
                 [] ~c.null /\ ~on /\ new.ss_flags \in {{}, {0}} /\ Number(new.ss_size) < MinStack -> "ENOMEM"
                 [] OTHER -> "done"
        taken == IF new.ss_flags = {1} THEN [ss_sp |-> {}, ss_flags |-> {}, ss_size |-> {}] ELSE [new EXCEPT !.ss_flags = {}]
    IN  Reply(IF c.old /\ why = "done" THEN Assigned(l, c.back, [kept.alt EXCEPT !.ss_flags = flags]) ELSE c.back,
              Nothing, why, IF c.null \/ why # "done" THEN kept ELSE [kept EXCEPT !.alt = taken])

EmptyDescriptor == [base_addr |-> {}, limit |-> {}, bits |-> {1}]
SetThreadArea(c) ==
    LET new == Loaded(user_desc, c.mem)
        desc == Only(new, {"base_addr", "limit", "bits"})
        free == {i \in TlsEntries : kept.gdt[i] = EmptyDescriptor}
        any == new.entry_number = 0..3
        index == IF any THEN IF free = {} THEN -1 ELSE Min(free) ELSE Number(new.entry_number)
    IN  CASE any /\ free = {} -> Refused(c, "ESRCH")
          [] ~any /\ index \notin TlsEntries -> Refused(c, "EINVAL")
          [] OTHER -> Reply(Assigned(user_desc, c.mem, [new EXCEPT !.entry_number = {b \in 0..3 : (index \div 2^b) % 2 = 1}]),
                            Nothing, "done",
                            [kept EXCEPT !.gdt[index] = desc,
                                         !.gsbase = IF kept.gs = index THEN desc.base_addr ELSE @])
GetThreadArea(c) ==
    LET index == Number(Loaded(user_desc, c.mem).entry_number)
    IN  IF index \notin TlsEntries THEN Refused(c, "EINVAL")
        ELSE Reply(Assigned(user_desc, c.mem, kept.gdt[index] @@ Loaded(user_desc, c.mem)), Nothing, "done", kept)
ArchPrctl(c) ==
    CASE c.cmd = "SET_GS" -> Reply(c.mem, Nothing, "done", [kept EXCEPT !.gsbase = c.args[2]])
      [] c.cmd = "SET_FS" -> Reply(c.mem, Nothing, "done", [kept EXCEPT !.fsbase = c.args[2]])
      [] c.cmd = "GET_GS" -> Reply(Assigned(position, c.mem, [position |-> kept.gsbase]), Nothing, "done", kept)
      [] c.cmd = "GET_FS" -> Reply(Assigned(position, c.mem, [position |-> kept.fsbase]), Nothing, "done", kept)
      [] OTHER -> Refused(c, "EINVAL")

-----------------------------------------------------------------------------
(* Sockets.  A control message is the length of its data; c.list are the   *)
(* messages sent or received and c.count is the room for them.             *)

\* What the kernel puts into a buffer, with its headers and alignment.
Put(list, room, header, align) ==
    LET PutOne(acc, data) ==
            IF room - acc.used < header THEN [acc EXCEPT !.cut = TRUE]
            ELSE LET whole == header + data <= room - acc.used
                 IN  [used |-> acc.used + Min({header + RoundUp(data, align), room - acc.used}),
                      list |-> Append(acc.list, IF whole THEN data ELSE room - acc.used - header),
                      cut |-> acc.cut \/ ~whole]
    IN  FoldLeft(PutOne, [used |-> 0, list |-> <<>>, cut |-> FALSE], list)

Told(c) == [head |-> Only(Loaded(msghdr, c.mem), {"msg_name", "msg_namelen"}), list |-> LoadedAll(iovec, c.back, c.iovs)]
Sendmsg(c) == Reply(c.mem, [sent |-> c.list] @@ Told(c), Result(c), kept)
Recvmsg(c) ==
    LET got == Put(c.list, c.count, 12, 4)
    IN  Reply(IF c.ok THEN Assigned(received, c.mem, c.host) ELSE c.mem,
              (IF c.ok THEN [got |-> got.list, used |-> got.used, cut |-> got.cut] ELSE Nothing) @@ Told(c), Result(c), kept)

Setsockopt(c) ==
    IF c.cmd \notin DOMAIN SocketOptions THEN Untouched(c)
    ELSE IF c.count < 8 \/ (c.cmd = "filter" /\ c.count # 8) THEN Refused(c, "EINVAL")
    ELSE Structured(c, SocketOptions[c.cmd])

Socketcall(c) ==
    LET words ==
            CASE c.cmd \in {"LISTEN", "SHUTDOWN"} -> 2
              [] c.cmd \in {"SOCKETPAIR", "SEND", "RECV", "ACCEPT4", "SENDMMSG"} -> 4
              [] c.cmd \in {"SETSOCKOPT", "GETSOCKOPT", "RECVMMSG"} -> 5
              [] c.cmd \in {"SENDTO", "RECVFROM"} -> 6
              [] OTHER -> 3
    IN  Reply(c.mem, [words |-> LoadedAll(I386(<<F("word", 4)>>), c.mem, words)], Result(c), kept)
Ipc(c) ==
    CASE c.cmd \in DOMAIN Shared -> Structured(c, Shared[c.cmd])
      [] c.cmd = "sem_ignored" -> Reply(c.mem, [args |-> <<c.args[1], c.args[2]>>], Result(c), kept)
      [] c.cmd = "shm_plain" -> Reply(c.mem, [args |-> <<c.args[1]>>], Result(c), kept)
      [] c.cmd \in {"semget", "shmget"} -> Reply(c.mem, [args |-> SubSeq(c.args, 1, 3)], Result(c), kept)
      [] c.cmd = "msgget" -> Reply(c.mem, [args |-> SubSeq(c.args, 1, 2)], Result(c), kept)
      [] c.cmd = "semop" -> Reply(c.mem, [args |-> <<c.args[1], c.args[4], c.args[2]>>], Result(c), kept)
      [] OTHER -> Reply(c.mem, [args |-> c.args], Result(c), kept)

\* Drivers know their commands from the device that is open.
Ioctl(c) ==
    CASE c.op = "drm" /\ c.cmd \in DOMAIN Drm -> Structured(c, Drm[c.cmd])
      [] c.op = "drm" /\ c.cmd = "wait_vblank" ->
            Reply(IF c.ok THEN Assigned(drm_vblank_reply, c.mem, c.host) ELSE c.mem, Loaded(drm_vblank_request, c.mem), Result(c), kept)
      [] c.op = "driver" /\ kept.device[c.fd] = "radeon" /\ c.cmd \in DOMAIN Radeon -> Structured(c, Radeon[c.cmd])
      [] OTHER -> Untouched(c)
Open(c) == Reply(c.mem, Nothing, "done", [kept EXCEPT !.device[c.fd] = c.cmd])

-----------------------------------------------------------------------------
Native(c) ==
    CASE c.op \in DOMAIN Plain -> Structured(c, Plain[c.op])
      [] c.op = "fcntl" /\ c.cmd \in DOMAIN Locks -> Structured(c, Locks[c.cmd])
      [] c.op = "fcntl" /\ c.cmd \notin DOMAIN Locks -> Reply(c.mem, [args |-> SubSeq(c.args, 1, 3)], Result(c), kept)
      [] c.op = "call" -> Forwarded(c)
      [] c.op = "wide" -> Widened(c)
      [] c.op = "writev" -> Vector(c)
      [] c.op \in {"epoll_wait", "epoll_pwait", "epoll_pwait2"} -> Events(c)
      [] c.op = "getdents64" -> Entries(c)
      [] c.op = "utimensat" -> Utimensat(c)
      [] c.op = "clock_nanosleep" -> Nanosleep(c)
      [] c.op = "futex" -> Futex(c)
      [] c.op = "time32" -> Time32(c)
      [] c.op = "sysinfo" -> Sysinfo(c)
      [] c.op = "pselect6" -> Select(c)
      [] c.op = "rt_sigaction" -> Sigaction(c)
      [] c.op = "sigaltstack" -> Sigaltstack(c)
      [] c.op = "set_thread_area" -> SetThreadArea(c)
      [] c.op = "get_thread_area" -> GetThreadArea(c)
      [] c.op = "arch_prctl" -> ArchPrctl(c)
      [] c.op = "sendmsg" -> Sendmsg(c)
      [] c.op = "recvmsg" -> Recvmsg(c)
      [] c.op = "setsockopt" -> Setsockopt(c)
      [] c.op = "getsockopt" -> Untouched(c)
      [] c.op = "socketcall" -> Socketcall(c)
      [] c.op = "ipc" -> Ipc(c)
      [] c.op \in {"drm", "driver", "ioctl"} -> Ioctl(c)
      [] c.op = "open" -> Open(c)
      [] OTHER -> Refused(c, "ENOSYS")

Init ==
    /\ buffer = {} /\ seen = Nothing /\ outcome = "none" /\ request = Nothing /\ served = 0
    /\ stray = FALSE
    /\ kept \in Begun
    /\ topic \in DOMAIN Requests

\* A request is answered as Linux would, or is one of the known departures.
Serve(c) ==
    /\ request' = c
    /\ served' = served + 1
    /\ UNCHANGED topic
    /\ \/ stray'
       \/ /\ ~stray'
          /\ \E n \in {Native(c)} :
               /\ buffer' \ n.loose = n.mem \ n.loose
               /\ seen' = n.told
               /\ outcome' = n.result
               /\ kept' = n.kept

Next == served < Len(Requests[topic]) /\ \E c \in Requests[topic][served + 1] : Serve(c)
Spec == Init /\ [][Next]_abiVars
=============================================================================
