----------------------------- MODULE GuestTypes -----------------------------
(***************************************************************************)
(* The structures of guests as felix86 declares them, for the compiler of  *)
(* the host: the fields in order, and for each the field of the host's     *)
(* structure that the conversions copy it to and from.                     *)
(***************************************************************************)
EXTENDS CLayout

\* Fields of the permissions of System V objects, which other structures start with.
ipc_perm_32 == <<F("key", 4)>> \o [i \in 1..6 |-> F(<<"uid", "gid", "cuid", "cgid", "mode", "seq">>[i], 2)]
ipc_perm_64 ==
    Words(<<"key", "uid", "gid", "cuid", "cgid">>) \o <<F("mode", 2), Gap(2), F("seq", 2), Gap(2), Gap(4), Gap(4)>>
x64_ipc_perm ==
    Words(<<"key", "uid", "gid", "cuid", "cgid">>)
        \o <<F("mode", 2), F("zero", 2), F("seq", 2), F("zero", 2), F("zero", 8), F("zero", 8)>>

x86_linux_dirent == Natural(<<F("d_ino", 8), F("d_off", 8), F("d_reclen", 2), F("d_type", 1), Bytes(5)>>)
x86_sigset_argpack == Natural(Words(<<"data", "size">>))
x64_sigaction == Natural(<<F("handler", 8), F("sa_flags", 8), F("restorer", 8), F("sa_mask", 8)>>)
x86_sigaction == Natural(Words(<<"handler", "sa_flags", "restorer">>) \o <<F("sa_mask", 8)>>)
x86_stack_t == Natural(Words(<<"ss_sp", "ss_flags", "ss_size">>))
\* The one-bit fields of the last word are one number.
x86_user_desc == Natural(Words(<<"entry_number", "base_addr", "limit", "bits">>))
x86_rlimit == Natural(Words(<<"rlim_cur", "rlim_max">>))
x86_iovec == Natural(Words(<<"iov_base", "iov_len">>))
x86_timespec == Natural(Words(<<"tv_sec", "tv_nsec">>))
x86_timeval == Natural(Words(<<"tv_sec", "tv_usec">>))
x86_epoll_event == Packed(<<F("events", 4), F("data", 8)>>)
x86_sysinfo ==
    Natural(Words(<<"uptime", "load1", "load5", "load15", "totalram", "freeram", "sharedram", "bufferram",
                    "totalswap", "freeswap">>)
            \o <<F("procs", 2)>> \o Words(<<"totalhigh", "freehigh", "mem_unit">>) \o <<Bytes(8)>>)
x86_stat64 ==
    Packed(<<F("st_dev", 8), Bytes(4)>> \o Words(<<"st_ino", "st_mode", "st_nlink", "st_uid", "st_gid">>)
           \o <<F("st_rdev", 8), Bytes(4), F("st_size", 8), F("st_blksize", 4), F("st_blocks", 8)>>
           \o Words(<<"atime", "atime_nsec", "mtime", "mtime_nsec", "ctime", "ctime_nsec">>) \o <<F("st_ino", 8)>>)
x86_stat ==
    Packed(<<F("st_dev", 8), F("st_ino", 8), F("st_nlink", 8)>> \o Words(<<"st_mode", "st_uid", "st_gid">>)
           \o <<Bytes(4), F("st_rdev", 8), F("st_size", 8), F("st_blksize", 8), F("st_blocks", 8),
                F("atime", 8), F("atime_nsec", 8), F("mtime", 8), F("mtime_nsec", 8), F("ctime", 8),
                F("ctime_nsec", 8), Bytes(24)>>)
x64_semid64_ds ==
    Natural(x64_ipc_perm \o <<F("sem_otime", 8), Gap(8), F("sem_ctime", 8), Gap(8), F("sem_nsems", 8), Gap(8), Gap(8)>>)
x86_flock64 == Packed(<<F("l_type", 2), F("l_whence", 2), F("l_start", 8), F("l_len", 8), F("l_pid", 4)>>)
x86_flock == Packed(<<F("l_type", 2), F("l_whence", 2), S("l_start", 4), S("l_len", 4), F("l_pid", 4)>>)
x86_cmsghdr == Natural(Words(<<"cmsg_len", "cmsg_level", "cmsg_type">>))
x86_msghdr ==
    Natural(Words(<<"msg_name", "msg_namelen", "msg_iov", "msg_iovlen", "msg_control", "msg_controllen", "msg_flags">>))
x86_statfs64 ==
    Packed(Words(<<"f_type", "f_bsize">>)
           \o <<F("f_blocks", 8), F("f_bfree", 8), F("f_bavail", 8), F("f_files", 8), F("f_ffree", 8), F("f_fsid", 8)>>
           \o Words(<<"f_namelen", "f_frsize", "f_flags">>) \o <<Bytes(16)>>)
x86_rusage ==
    Natural(Words(<<"utime", "utime_usec", "stime", "stime_usec", "maxrss", "ixrss", "idrss", "isrss", "minflt",
                    "majflt", "nswap", "inblock", "oublock", "msgsnd", "msgrcv", "nsignals", "nvcsw", "nivcsw">>))
x86_shmid_ds_64 ==
    Natural(ipc_perm_64 \o <<F("segsz", 4), F("atime", 4), High("atime"), F("dtime", 4), High("dtime"),
                             F("ctime", 4), High("ctime")>>
            \o Words(<<"cpid", "lpid", "nattch">>) \o <<Gap(4), Gap(4)>>)
x86_shmid_ds_32 ==
    Natural(ipc_perm_32 \o Words(<<"segsz", "atime", "dtime", "ctime">>)
            \o <<F("cpid", 2), F("lpid", 2), F("nattch", 2), Gap(2), Gap(4), Gap(4)>>)
x86_semid_ds_32 ==
    Natural(ipc_perm_32 \o Words(<<"sem_otime", "sem_ctime", "zero", "zero", "zero", "zero">>)
            \o <<F("sem_nsems", 2), F("zero", 2)>>)
x86_semid_ds_64 ==
    Natural(ipc_perm_64 \o <<F("sem_otime", 4), High("sem_otime"), F("sem_ctime", 4), High("sem_ctime"),
                             F("sem_nsems", 4), Gap(4), Gap(4)>>)
x86_shminfo_32 == Natural(Words(<<"shmmax", "shmmin", "shmmni", "shmseg", "shmall">>))
x86_shm_info_32 == Natural(Words(<<"used_ids", "shm_tot", "shm_rss", "shm_swp", "swap_attempts", "swap_successes">>))
x86_shminfo_64 == Natural(Words(<<"shmmax", "shmmin", "shmmni", "shmseg", "shmall">>) \o [i \in 1..4 |-> Gap(4)])
sock_fprog32 == Natural(<<F("len", 2), F("filter", 4)>>)

-----------------------------------------------------------------------------
(* The structures of the direct rendering manager and of its radeon driver. *)

x86_drm_version ==
    Natural(Words(<<"version_major", "version_minor", "version_patchlevel", "name_len", "name", "date_len", "date",
                    "desc_len", "desc">>))
x86_drm_unique == Natural(Words(<<"unique_len", "unique">>))
x86_drm_map == Natural(Words(<<"offset", "size", "type", "flags", "handle", "mtrr">>))
x86_drm_client == Natural(Words(<<"idx", "auth", "pid", "uid", "magic", "iocs">>))
\* Two of the fifteen counters.
x86_drm_stats == Natural(Words(<<"count", "value1", "type1", "value2", "type2">>))
x86_drm_buf_desc == Natural(Words(<<"count", "size", "low_mark", "high_mark", "flags", "agp_start">>))
x86_drm_buf_info == Natural(Words(<<"count", "list">>))
x86_drm_buf_free == Natural(Words(<<"count", "list">>))
x86_drm_buf_map == Natural(Words(<<"count", "virt", "list">>))
x86_drm_ctx_priv_map == Natural(Words(<<"ctx_id", "handle">>))
x86_drm_ctx_res == Natural(Words(<<"count", "contexts">>))
x86_drm_dma ==
    Natural(Words(<<"context", "send_count", "send_indices", "send_sizes", "flags", "request_count", "request_size",
                    "request_indices", "request_sizes", "granted_count">>))
x86_drm_scatter_gather == Natural(Words(<<"size", "handle">>))
x86_drm_wait_vblank_request == Natural(Words(<<"type", "sequence", "signal">>))
\* The reply is the structure of the host and comes after the request.
x86_drm_wait_vblank ==
    Natural(<<Gap(4), Gap(4), Gap(4), [F("type", 4) EXCEPT !.align = 8], F("sequence", 4), F("tval_sec", 8), F("tval_usec", 8)>>)
x86_drm_update_draw == Packed(Words(<<"handle", "type", "num">>) \o <<F("data", 8)>>)
\* Two of the four planes.
x86_drm_mode_fb_cmd2 ==
    Packed(Words(<<"fb_id", "width", "height", "pixel_format", "flags", "handle1", "handle2", "pitch1", "pitch2",
                   "offset1", "offset2">>)
           \o <<F("modifier1", 8), F("modifier2", 8)>>)

x86_drm_radeon_init_t ==
    Natural(Words(<<"func", "sarea_priv_offset", "is_pci", "cp_mode", "gart_size", "ring_size", "usec_timeout",
                    "fb_bpp", "front_offset", "front_pitch", "back_offset", "back_pitch", "depth_bpp", "depth_offset",
                    "depth_pitch", "fb_offset", "mmio_offset", "ring_offset", "ring_rptr_offset", "buffers_offset",
                    "gart_textures_offset">>))
x86_drm_radeon_clear_t ==
    Natural(Words(<<"flags", "clear_color", "clear_depth", "color_mask", "depth_mask", "depth_boxes">>))
x86_drm_radeon_stipple_t == Natural(Words(<<"mask">>))
x86_drm_radeon_texture_t == Natural(Words(<<"offset", "pitch", "format", "width", "height", "image">>))
x86_drm_radeon_vertex2_t == Natural(Words(<<"idx", "discard", "nr_states", "state", "nr_prims", "prim">>))
x86_drm_radeon_cmd_buffer_t == Natural(Words(<<"bufsz", "buf", "nbox", "boxes">>))
x86_drm_radeon_getparam_t == Natural(Words(<<"param", "value">>))
x86_drm_radeon_mem_alloc_t == Natural(Words(<<"region", "alignment", "size", "region_offset">>))
x86_drm_radeon_irq_emit_t == Natural(Words(<<"irq_seq">>))
x86_drm_radeon_setparam_t == Packed(<<F("param", 4), F("value", 8)>>)
=============================================================================
