---------------------------- MODULE SyscallModel ----------------------------
(***************************************************************************)
(* The core's side of a system call (common/tile/syscall_model.cc) and the *)
(* Pin callbacks around it (pin/handle_syscalls.cc): which calls go to the *)
(* server, which run on the host with their arguments copied through the   *)
(* scratchpad of the core, and the fields each marshalled call puts into   *)
(* its request and gets out of the reply.                                  *)
(*                                                                         *)
(* c is the call: c.len is the length of its path or data.  r is what the  *)
(* host's system call returned on the server: r.ok, and r.got bytes.       *)
(***************************************************************************)
EXTENDS Packet, FiniteSets

AnySize == Nat      \* the code does not check the length of the reply

\* put: the request after the message type and the call's number.  reply: the
\* lengths of the reply the code accepts.  get: what it reads.
Marshalled(put, reply, get) == [put |-> put, reply |-> reply, get |-> get]
Status == <<Int32("status")>>

\* The name of a file is read from simulated memory with its final zero.
PathFields(c) == <<Int32("len"), Buf("path", c.len)>>

marshallOpenCall(c, r) ==
  Marshalled(PathFields(c) \o <<Int32("flags"), Int64("mode")>>, {4}, Status)
\* The reply is checked against the bytes that it announces.
marshallReadCall(c, r) ==
  Marshalled(<<Int32("fd"), Int64("count")>>,
             IF r.ok THEN {4 + r.got} ELSE {4},
             <<Int32("bytes")>> \o IF r.ok THEN <<Buf("data", r.got)>> ELSE << >>)
marshallWriteCall(c, r) ==
  Marshalled(<<Int32("fd"), Int64("count"), Buf("data", c.len)>>, {4}, Status)
marshallWritevCall(c, r) ==
  Marshalled(<<Int32("fd"), Int64("count"), Buf("data", c.len)>>, {8}, <<Int64("bytes")>>)
marshallCloseCall(c, r) == Marshalled(<<Int32("fd")>>, {4}, Status)
marshallLseekCall(c, r) ==
  Marshalled(<<Int32("fd"), Int64("offset"), Int32("whence")>>, {8}, <<Int64("offset")>>)
marshallAccessCall(c, r) ==
  Marshalled(PathFields(c) \o <<Int32("mode")>>, AnySize, Status)
marshallStatCall(c, r) ==
  Marshalled(PathFields(c) \o <<Buf("stat", 144)>>, {148},
             Status \o <<Buf("stat", 144)>>)
marshallFstatCall(c, r) ==
  Marshalled(<<Int32("fd"), Buf("stat", 144)>>, {148}, Status \o <<Buf("stat", 144)>>)
marshallIoctlCall(c, r) ==
  Marshalled(<<Int32("fd"), Int32("request"), Buf("termios", 60)>>, AnySize,
             Status \o <<Buf("termios", 60)>>)
marshallGetpidCall(c, r) == Marshalled(<< >>, AnySize, <<Int32("pid")>>)
\* The offset is put together from the low words of the second and the third
\* argument and the count is the fourth.  The call has three arguments (x86_64):
\* the offset is the second one, and the count the third.
marshallReadaheadCall(c, r) ==
  Marshalled(<<Int32("fd"), Int64("offset and count"), Int64("unused register")>>,
             AnySize, Status)
\* The descriptors are only read when the call succeeded.
marshallPipeCall(c, r) ==
  Marshalled(<< >>, AnySize,
             Status \o IF r.ok THEN <<Int32("fd0"), Int32("fd1")>> ELSE << >>)
marshallMmapCall(c, r) ==
  Marshalled(<<Int64("start"), Int64("length"), Int32("prot"), Int32("flags"), Int32("fd"),
               Int64("pgoffset")>>, AnySize, <<Int64("start")>>)
marshallMunmapCall(c, r) ==
  Marshalled(<<Int64("start"), Int64("length")>>, AnySize, Status)
marshallBrkCall(c, r) == Marshalled(<<Int64("end")>>, AnySize, <<Int64("end")>>)
marshallFutexCall(c, r) ==
  Marshalled(<<Int64("addr1"), Int32("op"), Int32("val1"), Int64("timeout"), Int64("addr2"),
               Int32("val3"), Int64("time")>>, AnySize, <<Int32("ret"), Int64("time")>>)
marshallUnlinkCall(c, r) == Marshalled(PathFields(c), {4}, Status)
marshallRmdirCall(c, r)  == marshallUnlinkCall(c, r)
\* Only the address of the server's buffer is in the reply.
marshallGetCwdCall(c, r) ==
  Marshalled(<<Int64("size")>>, AnySize,
             <<Int32("bytes")>> \o IF r.ok THEN <<Int64("address")>> ELSE << >>)
marshallSchedGetAffinityCall(c, r) ==
  Marshalled(<<Int32("pid"), Int32("cpusetsize")>>, AnySize, Status \o <<Int64("address")>>)

-----------------------------------------------------------------------------
(* SyscallMdl::runEnter, and the dispatch of the Pin callbacks *)

OnServer == {"open", "read", "write", "writev", "close", "lseek", "access", "stat",
             "lstat", "fstat", "ioctl", "getpid", "readahead", "pipe", "mmap",
             "munmap", "brk", "futex", "rmdir", "unlink", "getcwd",
             "sched_setaffinity", "sched_getaffinity"}

runEnter(c, r) ==
  CASE c.sys = "open"      -> marshallOpenCall(c, r)
    [] c.sys = "read"      -> marshallReadCall(c, r)
    [] c.sys = "write"     -> marshallWriteCall(c, r)
    [] c.sys = "writev"    -> marshallWritevCall(c, r)
    [] c.sys = "close"     -> marshallCloseCall(c, r)
    [] c.sys = "lseek"     -> marshallLseekCall(c, r)
    [] c.sys = "access"    -> marshallAccessCall(c, r)
    [] c.sys \in {"stat", "lstat"} -> marshallStatCall(c, r)
    [] c.sys = "fstat"     -> marshallFstatCall(c, r)
    [] c.sys = "ioctl"     -> marshallIoctlCall(c, r)
    [] c.sys = "getpid"    -> marshallGetpidCall(c, r)
    [] c.sys = "readahead" -> marshallReadaheadCall(c, r)
    [] c.sys = "pipe"      -> marshallPipeCall(c, r)
    [] c.sys = "mmap"      -> marshallMmapCall(c, r)
    [] c.sys = "munmap"    -> marshallMunmapCall(c, r)
    [] c.sys = "brk"       -> marshallBrkCall(c, r)
    [] c.sys = "futex"     -> marshallFutexCall(c, r)
    [] c.sys = "rmdir"     -> marshallRmdirCall(c, r)
    [] c.sys = "unlink"    -> marshallUnlinkCall(c, r)
    [] c.sys = "getcwd"    -> marshallGetCwdCall(c, r)
    [] c.sys = "sched_getaffinity" -> marshallSchedGetAffinityCall(c, r)

\* Answered by the core itself (clock_gettime), replaced by getpid on the host.
Local      == {"clock_gettime"}
Replaced   == {"mprotect", "madvise", "set_tid_address", "set_robust_list"}

\* Calls that run on the host: the arguments copied into the scratchpad before
\* the call (modify...Context) and those copied back after it (restore...).
Redirect(in, out) == [in |-> in, out |-> out]
RtsigprocmaskContext == Redirect({1, 2}, {2})
RtsigsuspendContext == Redirect({0}, {})
RtsigactionContext == Redirect({1, 2}, {2})
NanosleepContext == Redirect({0, 1}, {1})
UnameContext == Redirect({0}, {0})
Set_thread_areaContext == Redirect({0}, {0})
CloneContext == Redirect({2, 3}, {2, 3})
TimeContext == Redirect({0}, {0})
GettimeofdayContext == Redirect({0, 1}, {0, 1})
GetrlimitContext == Redirect({1}, {1})
Arch_prctlContext == Redirect({1}, {1})

Redirects ==
  [rt_sigprocmask |-> RtsigprocmaskContext,
   rt_sigsuspend |-> RtsigsuspendContext,
   rt_sigaction |-> RtsigactionContext,
   nanosleep |-> NanosleepContext,
   uname |-> UnameContext,
   set_thread_area |-> Set_thread_areaContext,
   clone |-> CloneContext,
   time |-> TimeContext,
   gettimeofday |-> GettimeofdayContext,
   getrlimit |-> GetrlimitContext,
   arch_prctl |-> Arch_prctlContext]

FallThrough     == {"exit", "exit_group", "kill", "gettid", "geteuid", "getuid",
                    "getegid", "getgid"}
FallThroughExit == {"gettid", "geteuid", "getuid", "getegid", "getgid"}

\* syscallEnterRunModel and syscallExitRunModel stop the simulation at a call
\* that no branch of theirs names.
EnterHandled(sys) ==
  sys \in OnServer \cup Local \cup Replaced \cup DOMAIN Redirects \cup FallThrough
ExitHandled(sys) ==
  sys \in OnServer \cup Local \cup Replaced \cup DOMAIN Redirects \cup FallThroughExit

\* What the host's kernel reads and writes through the arguments of a call.
KernelReads  == [Redirects EXCEPT !.rt_sigprocmask = {1}, !.rt_sigsuspend = {0},
                 !.rt_sigaction = {1}, !.nanosleep = {0}, !.uname = {},
                 !.set_thread_area = {0}, !.clone = {}, !.time = {},
                 !.gettimeofday = {}, !.arch_prctl = {}, !.getrlimit = {}]
KernelWrites == [Redirects EXCEPT !.rt_sigprocmask = {2}, !.rt_sigsuspend = {},
                 !.rt_sigaction = {2}, !.nanosleep = {1}, !.uname = {0},
                 !.set_thread_area = {0}, !.clone = {2, 3}, !.time = {0},
                 !.gettimeofday = {0, 1}, !.arch_prctl = {1}, !.getrlimit = {1}]
=============================================================================
