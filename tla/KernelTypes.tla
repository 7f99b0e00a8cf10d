----------------------------- MODULE KernelTypes -----------------------------
(***************************************************************************)
(* What Linux for x86 takes from the programs of both modes: the layouts   *)
(* of structures, which of their fields a call reads or fills in, and the  *)
(* registers a call takes.                                                 *)
(***************************************************************************)
EXTENDS CLayout

-----------------------------------------------------------------------------
(* The layouts. *)

Perm16 == <<S("key", 4)>> \o [i \in 1..6 |-> F(<<"uid", "gid", "cuid", "cgid", "mode", "seq">>[i], 2)]
Perm32 == Words(<<"key", "uid", "gid", "cuid", "cgid">>) \o <<F("mode", 2), Gap(2), F("seq", 2), Gap(2), Bytes(8)>>
TwoWords(n) == <<F(n, 4), High(n)>>

timespec == I386(<<S("tv_sec", 4), S("tv_nsec", 4)>>)
timeval == I386(<<S("tv_sec", 4), S("tv_usec", 4)>>)
iovec == I386(Words(<<"iov_base", "iov_len">>))
epoll_event == I386(<<F("events", 4), F("data", 8)>>)
dirent64 == I386(<<F("d_ino", 8), F("d_off", 8), F("d_reclen", 2), F("d_type", 1), Bytes(5)>>)
sigaction32 == I386(Words(<<"handler", "sa_flags", "restorer">>) \o <<F("sa_mask", 8)>>)
sigaction64 == Natural(<<F("handler", 8), F("sa_flags", 8), F("restorer", 8), F("sa_mask", 8)>>)
stack32 == I386(Words(<<"ss_sp", "ss_flags", "ss_size">>))
stack64 == Natural(<<F("ss_sp", 8), F("ss_flags", 4), F("ss_size", 8)>>)
user_desc == I386(Words(<<"entry_number", "base_addr", "limit", "bits">>))
msghdr == I386(Words(<<"msg_name", "msg_namelen", "msg_iov", "msg_iovlen", "msg_control", "msg_controllen", "msg_flags">>))
stat32 ==
    I386(<<F("st_dev", 8), Gap(4)>> \o Words(<<"st_ino", "st_mode", "st_nlink", "st_uid", "st_gid">>)
         \o <<F("st_rdev", 8), Gap(4), F("st_size", 8), F("st_blksize", 4), F("st_blocks", 8)>>
         \o Words(<<"atime", "atime_nsec", "mtime", "mtime_nsec", "ctime", "ctime_nsec">>) \o <<F("st_ino", 8)>>)
stat64 ==
    Natural(<<F("st_dev", 8), F("st_ino", 8), F("st_nlink", 8)>> \o Words(<<"st_mode", "st_uid", "st_gid">>)
            \o <<Gap(4), F("st_rdev", 8), F("st_size", 8), F("st_blksize", 8), F("st_blocks", 8), F("atime", 8),
                 F("atime_nsec", 8), F("mtime", 8), F("mtime_nsec", 8), F("ctime", 8), F("ctime_nsec", 8), Bytes(24)>>)
statfs64 ==
    I386(Words(<<"f_type", "f_bsize">>) \o [i \in 1..6 |-> F(<<"f_blocks", "f_bfree", "f_bavail", "f_files", "f_ffree", "f_fsid">>[i], 8)]
         \o Words(<<"f_namelen", "f_frsize", "f_flags">>) \o <<Bytes(16)>>)
sysinfo32 ==
    I386(Words(<<"uptime", "load1", "load5", "load15", "totalram", "freeram", "sharedram", "bufferram", "totalswap", "freeswap">>)
         \o <<F("procs", 2), Gap(2)>> \o Words(<<"totalhigh", "freehigh", "mem_unit">>) \o <<Bytes(8)>>)
rusage ==
    I386(Words(<<"utime", "utime_usec", "stime", "stime_usec", "maxrss", "ixrss", "idrss", "isrss", "minflt", "majflt",
                 "nswap", "inblock", "oublock", "msgsnd", "msgrcv", "nsignals", "nvcsw", "nivcsw">>))
flock64 == I386(<<F("l_type", 2), F("l_whence", 2), F("l_start", 8), F("l_len", 8), F("l_pid", 4)>>)
flock32 == I386(<<F("l_type", 2), F("l_whence", 2), S("l_start", 4), S("l_len", 4), F("l_pid", 4)>>)
shmid_old ==
    I386(Perm16 \o Words(<<"segsz", "atime", "dtime", "ctime">>) \o <<F("cpid", 2), F("lpid", 2), F("nattch", 2), Gap(2), Bytes(8)>>)
shmid_new ==
    I386(Perm32 \o <<F("segsz", 4)>> \o TwoWords("atime") \o TwoWords("dtime") \o TwoWords("ctime")
         \o Words(<<"cpid", "lpid", "nattch">>) \o <<Bytes(8)>>)
semid_x64 ==
    Natural(Words(<<"key", "uid", "gid", "cuid", "cgid">>)
            \o <<F("mode", 2), F("zero", 2), F("seq", 2), F("zero", 2), F("zero", 8), F("zero", 8), F("sem_otime", 8), Gap(8),
                 F("sem_ctime", 8), Gap(8), F("sem_nsems", 8), Gap(8), Gap(8)>>)
shminfo_old == I386(Words(<<"shmmax", "shmmin", "shmmni", "shmseg", "shmall">>))
shminfo_new == I386(Words(<<"shmmax", "shmmin", "shmmni", "shmseg", "shmall">>) \o <<Bytes(16)>>)
shm_info == I386(Words(<<"used_ids", "shm_tot", "shm_rss", "shm_swp", "swap_attempts", "swap_successes">>))
received == I386(<<Gap(4), F("msg_namelen", 4), Gap(4), Gap(4), Gap(4), Gap(4), F("msg_flags", 4)>>)
sock_fprog == I386(<<F("len", 2), F("filter", 4)>>)

drm_version ==
    I386(Words(<<"version_major", "version_minor", "version_patchlevel", "name_len", "name", "date_len", "date", "desc_len", "desc">>))
drm_pair(a, b) == I386(Words(<<a, b>>))
drm_map == I386(Words(<<"offset", "size", "type", "flags", "handle", "mtrr">>))
drm_client == I386(Words(<<"idx", "auth", "pid", "uid", "magic", "iocs">>))
drm_stats == I386(Words(<<"count", "value1", "type1", "value2", "type2">>))
drm_buf_desc == I386(Words(<<"count", "size", "low_mark", "high_mark", "flags", "agp_start">>))
drm_buf_map == I386(Words(<<"count", "virt", "list">>))
drm_dma ==
    I386(Words(<<"context", "send_count", "send_indices", "send_sizes", "flags", "request_count", "request_size",
                 "request_indices", "request_sizes", "granted_count">>))
drm_vblank_request == I386(Words(<<"type", "sequence", "signal">>))
drm_vblank_reply == I386(Words(<<"type", "sequence", "tval_sec", "tval_usec">>))
drm_update_draw == I386(Words(<<"handle", "type", "num">>) \o <<F("data", 8)>>)
drm_mode_fb_cmd2 ==
    I386(Words(<<"fb_id", "width", "height", "pixel_format", "flags", "handle1", "handle2", "pitch1", "pitch2", "offset1", "offset2">>)
         \o <<F("modifier1", 8), F("modifier2", 8)>>)
radeon_init ==
    I386(Words(<<"func", "sarea_priv_offset", "is_pci", "cp_mode", "gart_size", "ring_size", "usec_timeout", "fb_bpp",
                 "front_offset", "front_pitch", "back_offset", "back_pitch", "depth_bpp", "depth_offset", "depth_pitch", "fb_offset",
                 "mmio_offset", "ring_offset", "ring_rptr_offset", "buffers_offset", "gart_textures_offset">>))

-----------------------------------------------------------------------------
(* Calls with one structure: its layout, the fields the kernel looks at,   *)
(* and whether it fills them in.                                           *)

In(l) == [layout |-> l, reads |-> l.names, writes |-> FALSE]
Out(l) == [layout |-> l, reads |-> {}, writes |-> TRUE]
InOut(l) == [In(l) EXCEPT !.writes = TRUE]
OwnerAndMode(l) == [In(l) EXCEPT !.reads = {"uid", "gid", "mode"}]

Plain ==
    [clock_gettime32 |-> Out(timespec), clock_getres |-> Out(timespec), clock_settime32 |-> In(timespec),
     ppoll_time32 |-> InOut(timespec), getrlimit |-> Out(I386(Words(<<"rlim_cur", "rlim_max">>))),
     wait4 |-> Out(rusage), getrusage |-> Out(rusage), stat64 |-> Out(stat32), lstat64 |-> Out(stat32),
     fstat64 |-> Out(stat32), fstat |-> Out(stat64), newfstatat |-> Out(stat64), stat |-> Out(stat64),
     lstat |-> Out(stat64), statfs64 |-> Out(statfs64), fstatfs64 |-> Out(statfs64), epoll_ctl |-> In(epoll_event),
     semctl_set |-> OwnerAndMode(semid_x64), semctl_stat |-> Out(semid_x64)]
Locks ==
    [X86_GETLK64 |-> InOut(flock64), X86_SETLK64 |-> In(flock64), X86_SETLKW64 |-> In(flock64),
     F_OFD_GETLK |-> InOut(flock64), F_OFD_SETLK |-> In(flock64), F_OFD_SETLKW |-> In(flock64),
     F_GETLK |-> InOut(flock32), F_SETLK |-> In(flock32), F_SETLKW |-> In(flock32)]
Shared ==
    [set_old |-> OwnerAndMode(shmid_old), set_new |-> OwnerAndMode(shmid_new), stat_old |-> Out(shmid_old),
     stat_new |-> Out(shmid_new), info_old |-> Out(shminfo_old), info_new |-> Out(shminfo_new), usage |-> Out(shm_info)]
SocketOptions == [filter |-> In(sock_fprog), rcvtimeo |-> In(timeval), sndtimeo |-> In(timeval)]
Drm ==
    [version |-> InOut(drm_version), unique |-> InOut(drm_pair("unique_len", "unique")), map |-> InOut(drm_map),
     client |-> InOut(drm_client), stats |-> InOut(drm_stats), buf_desc |-> InOut(drm_buf_desc),
     buf_info |-> InOut(drm_pair("count", "list")), buf_free |-> InOut(drm_pair("count", "list")),
     buf_map |-> InOut(drm_buf_map), ctx_priv_map |-> InOut(drm_pair("ctx_id", "handle")),
     ctx_res |-> InOut(drm_pair("count", "contexts")), dma |-> InOut(drm_dma),
     scatter_gather |-> InOut(drm_pair("size", "handle")), update_draw |-> InOut(drm_update_draw),
     mode_fb_cmd2 |-> InOut(drm_mode_fb_cmd2)]
Radeon ==
    [init |-> InOut(radeon_init),
     clear |-> InOut(I386(Words(<<"flags", "clear_color", "clear_depth", "color_mask", "depth_mask", "depth_boxes">>))),
     stipple |-> InOut(I386(Words(<<"mask">>))),
     texture |-> InOut(I386(Words(<<"offset", "pitch", "format", "width", "height", "image">>))),
     vertex2 |-> InOut(I386(Words(<<"idx", "discard", "nr_states", "state", "nr_prims", "prim">>))),
     cmdbuf |-> InOut(I386(Words(<<"bufsz", "buf", "nbox", "boxes">>))), getparam |-> InOut(drm_pair("param", "value")),
     alloc |-> InOut(I386(Words(<<"region", "alignment", "size", "region_offset">>))),
     irq_emit |-> InOut(I386(Words(<<"irq_seq">>))), setparam |-> InOut(I386(<<F("param", 4), F("value", 8)>>))]

Amounts ==
    {"totalram", "freeram", "sharedram", "bufferram", "totalswap", "freeswap", "totalhigh", "freehigh"}
MayBeNull == {"clock_getres", "ppoll_time32", "wait4", "epoll_ctl"}

-----------------------------------------------------------------------------
(* Registers: how many of them a call takes, and which make one number.    *)

Takes(n) ==
    CHOOSE k \in 0..6 : n \in
        <<{"sync", "getuid", "geteuid", "getgid", "getegid", "getppid", "getpid", "gettid", "setsid", "sched_yield",
           "inotify_init", "getpgrp", "epoll_create"},
          {"getsid", "close", "setgid", "setuid", "sched_getscheduler", "dup", "fsync", "syncfs", "chdir", "fchdir",
           "timer_getoverrun", "timer_delete", "fdatasync", "setfsgid", "setfsuid", "getpgid", "times", "epoll_create1",
           "sched_get_priority_min", "sched_get_priority_max", "inotify_init1", "umask", "alarm", "pipe", "shmdt",
           "personality", "rmdir", "unlink", "time"},
          {"getrlimit", "setrlimit", "set_robust_list", "shutdown", "setpgid", "getpriority", "getrusage", "getcwd",
           "setreuid", "setregid", "capset", "capget", "setgroups", "getgroups", "umount2", "sched_getparam",
           "sched_setparam", "clock_gettime", "clock_getres", "gettimeofday", "pipe2", "memfd_create", "ftruncate",
           "removexattr", "lremovexattr", "fremovexattr", "kill", "munmap", "timer_gettime", "nanosleep", "timerfd_create",
           "timerfd_gettime", "statfs", "fstatfs", "eventfd2", "fchmod", "flock", "listen", "membarrier",
           "inotify_rm_watch", "symlink", "rename", "chmod", "creat", "dup2", "access", "mkdir", "link"},
          {"readv", "mprotect", "close_range", "shmget", "shmat", "shmctl", "bind", "setpriority", "symlinkat", "accept",
           "setresuid", "setresgid", "getresuid", "getresgid", "dup3", "sendmsg", "recvmsg", "fcntl", "fchown",
           "unlinkat", "ioctl", "write", "writev", "read", "getdents64", "tgkill", "setitimer", "timer_create", "socket",
           "connect", "msync", "lseek", "getcpu", "listxattr", "getsockname", "madvise", "fchmodat", "semget", "semop",
           "set_mempolicy", "mknod", "inotify_add_watch", "sched_getaffinity", "sched_setaffinity", "sched_setscheduler",
           "mincore", "getpeername", "faccessat", "open", "readlink", "chown", "lchown", "poll", "waitpid", "mkdirat",
           "getrandom", "execve"},
          {"prlimit64", "accept4", "socketpair", "sendmmsg", "fadvise64", "faccessat2", "lgetxattr", "getxattr",
           "fgetxattr", "pwrite64", "pread64", "openat", "timer_settime", "timerfd_settime", "semtimedop",
           "clock_nanosleep", "rt_sigtimedwait", "mknodat", "fallocate", "wait4", "sync_file_range", "readlinkat",
           "utimensat", "renameat"},
          {"renameat2", "mount", "recvmmsg", "setsockopt", "getsockopt", "statx", "setxattr", "lsetxattr", "fsetxattr",
           "mremap", "get_mempolicy", "prctl", "fchownat", "linkat", "ppoll"},
          {"pselect6", "sendto", "recvfrom", "futex", "mmap"}>>[k + 1]
Wide ==
    [llseek |-> <<<<1>>, <<3, 2>>, <<5>>>>, fallocate |-> <<<<1>>, <<2>>, <<3, 4>>, <<5, 6>>>>,
     fadvise64 |-> <<<<1>>, <<2, 3>>, <<4>>, <<5>>>>, fadvise64_64 |-> <<<<1>>, <<2, 3>>, <<4, 5>>, <<6>>>>,
     pread64 |-> <<<<1>>, <<2>>, <<3>>, <<4, 5>>>>, pwrite64 |-> <<<<1>>, <<2>>, <<3>>, <<4, 5>>>>,
     ftruncate64 |-> <<<<1>>, <<2, 3>>>>]
position == I386(<<F("position", 8)>>)
position32 == I386(<<F("position", 4)>>)
=============================================================================
