---------------------------- MODULE SyscallServer ---------------------------
(***************************************************************************)
(* The system call server of the master control process                    *)
(* (common/system/syscall_server.cc) and its VMManager (vm_manager.cc):    *)
(* the fields each handler gets out of a request and puts into the reply,  *)
(* the simulated address space, and the futex queues.                      *)
(*                                                                         *)
(* The server's state is a record s: s.futexes is m_futexes, s.stalled the *)
(* threads it stalled in the thread manager, s.vm the VMManager, s.reply   *)
(* the packets sent to each thread, s.err the assertions that failed.      *)
(* Cores run one thread each.                                              *)
(***************************************************************************)
EXTENDS Packet, Integers, FiniteSets, Bitwise

CONSTANTS
  Kernel,         \* the kernel the simulator was built for
  AddressSpace,   \* addresses are IntPtr: 0 .. AddressSpace - 1
  StartData, StartStack, EndStack, StartDynamic,
  MaxBuff         \* m_SYSCALL_SERVER_MAX_BUFF, the size of m_scratch

\* get: what the handler reads.  size: the lengths its assertion accepts.
Handled(get, size_, put) == [get |-> get, size |-> size_, put |-> put]
AnySize == Nat
Path(c) == <<Int32("len"), Buf("path", c.len)>>
Ret == <<Int32("status")>>

marshallOpenCall(c, r) ==
  Handled(Path(c) \o <<Int32("flags"), Int64("mode")>>, AnySize, Ret)
marshallReadCall(c, r) ==
  Handled(<<Int32("fd"), Int64("count")>>, {12},
          <<Int32("bytes")>> \o IF r.ok THEN <<Buf("data", r.got)>> ELSE << >>)
marshallWriteCall(c, r) ==
  Handled(<<Int32("fd"), Int64("count"), Buf("data", c.len)>>, AnySize, Ret)
marshallWritevCall(c, r) ==
  Handled(<<Int32("fd"), Int64("count"), Buf("data", c.len)>>, AnySize, <<Int64("bytes")>>)
marshallCloseCall(c, r) == Handled(<<Int32("fd")>>, AnySize, Ret)
\* Faulty: the offset and the origin are read in the other order.
SwappedLseek(c, r) ==
  Handled(<<Int32("fd"), Int32("whence"), Int64("offset")>>, AnySize, <<Int64("offset")>>)
marshallLseekCall(c, r) ==
  Handled(<<Int32("fd"), Int64("offset"), Int32("whence")>>, AnySize, <<Int64("offset")>>)
marshallAccessCall(c, r) == Handled(Path(c) \o <<Int32("mode")>>, AnySize, Ret)
marshallStatCall(c, r) ==
  Handled(Path(c) \o <<Buf("stat", 144)>>, {4 + c.len + 144}, Ret \o <<Buf("stat", 144)>>)
marshallFstatCall(c, r) ==
  Handled(<<Int32("fd"), Buf("stat", 144)>>, {148}, Ret \o <<Buf("stat", 144)>>)
marshallIoctlCall(c, r) ==
  Handled(<<Int32("fd"), Int32("request"), Buf("termios", 60)>>, AnySize,
          Ret \o <<Buf("termios", 60)>>)
marshallGetpidCall(c, r) == Handled(<< >>, AnySize, <<Int32("pid")>>)
marshallReadaheadCall(c, r) ==
  Handled(<<Int32("fd"), Int64("offset"), Int64("count")>>, AnySize, Ret)
\* The descriptors are always sent.
marshallPipeCall(c, r) == Handled(<< >>, AnySize, Ret \o <<Int32("fd0"), Int32("fd1")>>)
marshallMmapCall(c, r) ==
  Handled(<<Int64("start"), Int64("length"), Int32("prot"), Int32("flags"), Int32("fd"),
            Int64("pgoffset")>>, AnySize, <<Int64("start")>>)
marshallMunmapCall(c, r) == Handled(<<Int64("start"), Int64("length")>>, AnySize, Ret)
marshallBrkCall(c, r)    == Handled(<<Int64("end")>>, AnySize, <<Int64("end")>>)
marshallRmdirCall(c, r)  == Handled(Path(c), AnySize, Ret)
marshallUnlinkCall(c, r) == Handled(Path(c), AnySize, Ret)
\* m_send_buff << read_buf sends the pointer, not what it points to.
marshallGetCwdCall(c, r) ==
  Handled(<<Int64("size")>>, {8},
          <<Int32("bytes")>> \o IF r.ok THEN <<Int64("address")>> ELSE << >>)
marshallSchedGetAffinityCall(c, r) ==
  Handled(<<Int32("pid"), Int32("cpusetsize")>>, AnySize, Ret \o <<Int64("address")>>)
marshallFutexCall(c, r) ==
  Handled(<<Int64("addr1"), Int32("op"), Int32("val1"), Int64("timeout"), Int64("addr2"),
            Int32("val3"), Int64("time")>>, AnySize, <<Int32("ret"), Int64("time")>>)

handleSyscall(c, r) ==
  CASE c.sys = "open"      -> marshallOpenCall(c, r)
    [] c.sys = "read"      -> marshallReadCall(c, r)
    [] c.sys = "write"     -> marshallWriteCall(c, r)
    [] c.sys = "writev"    -> marshallWritevCall(c, r)
    [] c.sys = "close"     -> marshallCloseCall(c, r)
    [] c.sys = "lseek"     -> marshallLseekCall(c, r)
    [] c.sys = "access"    -> marshallAccessCall(c, r)
    [] c.sys \in {"stat", "lstat"} -> marshallStatCall(c, r)
    [] c.sys = "fstat"     -> marshallFstatCall(c, r)
    [] c.sys = "ioctl"     -> marshallIoctlCall(c, r)
    [] c.sys = "getpid"    -> marshallGetpidCall(c, r)
    [] c.sys = "readahead" -> marshallReadaheadCall(c, r)
    [] c.sys = "pipe"      -> marshallPipeCall(c, r)
    [] c.sys = "mmap"      -> marshallMmapCall(c, r)
    [] c.sys = "munmap"    -> marshallMunmapCall(c, r)
    [] c.sys = "brk"       -> marshallBrkCall(c, r)
    [] c.sys = "futex"     -> marshallFutexCall(c, r)
    [] c.sys = "rmdir"     -> marshallRmdirCall(c, r)
    [] c.sys = "unlink"    -> marshallUnlinkCall(c, r)
    [] c.sys = "getcwd"    -> marshallGetCwdCall(c, r)
    [] c.sys = "sched_getaffinity" -> marshallSchedGetAffinityCall(c, r)

\* The handlers that use m_scratch for a path or for data, when it fits.
UsesScratch(c) ==
  /\ c.sys \in {"open", "read", "write", "writev", "access", "stat", "lstat", "rmdir",
                "unlink", "getcwd"}
  /\ c.len <= MaxBuff

-----------------------------------------------------------------------------
(* VMManager.  vm is [end |-> m_end_data_segment,                          *)
(* start |-> m_start_dynamic_segment].                                     *)

Failed(name, holds) == IF holds THEN {} ELSE {name}

VMManager == [end |-> StartData, start |-> StartDynamic]

\* Result: the segments, the address returned, the assertion that failed.
Answer(vm, ret) == [vm |-> vm, ret |-> ret, err |-> {}]
Stops(vm, what) == [vm |-> vm, ret |-> 0, err |-> {what}]

brk(vm, end) ==
  IF end = 0 THEN Answer(vm, vm.end)
  ELSE IF ~(StartData < end /\ end < StartStack) THEN Stops(vm, "brk")
  ELSE Answer([vm EXCEPT !.end = end], end)

\* Faulty: the old start of the segment is returned.
ReturnsOldStart(vm, length, anonymous) ==
  Answer([vm EXCEPT !.start = (@ + AddressSpace - length) % AddressSpace], vm.start)
\* anonymous: no file, and the flags that are asked for.  The difference is
\* taken in unsigned arithmetic.
mmap(vm, length, anonymous) ==
  LET start == (vm.start + AddressSpace - length) % AddressSpace
  IN  IF ~anonymous THEN Stops(vm, "mmap of a file")
      ELSE IF start <= EndStack THEN Stops(vm, "mmap")
      ELSE Answer([vm EXCEPT !.start = start], start)

\* The memory is never given out again.
munmap(vm, start) ==
  IF vm.start <= start THEN Answer(vm, 0) ELSE Stops(vm, "munmap")

-----------------------------------------------------------------------------
(* Futexes *)

EWOULDBLOCK == 11
ENOSYS == 38

\* The operations marshallFutexCall accepts.
Supported ==
  {"WAIT", "WAKE"} \cup
  (IF Kernel = "ETCH" THEN {} ELSE {"WAKE_OP", "CMP_REQUEUE"}) \cup
  (IF Kernel = "SQUEEZE" THEN {"WAIT_CLOCK_REALTIME"} ELSE {})

Reply(s, t, ret) ==
  [s EXCEPT !.reply[t] = Append(@, [ok |-> TRUE, got |-> ret])]

\* SimFutex::enqueueWaiter.
enqueueWaiter(s, a, t) ==
  [s EXCEPT !.futexes[a] = Append(@, t), !.stalled = @ \cup {t},
            !.err = @ \cup Failed("stallThread", t \notin s.stalled)]

\* SimFutex::dequeueWaiter on a queue that is not empty; the waiter is its head.
dequeueWaiter(s, a) ==
  LET t == Head(s.futexes[a])
  IN  [s EXCEPT !.futexes[a] = Tail(@), !.stalled = @ \ {t},
                !.err = @ \cup Failed("resumeThread", t \in s.stalled)]

\* How many of the waiters of a a loop of n turns takes.
Taken(s, a, n) == IF n < Len(s.futexes[a]) THEN n ELSE Len(s.futexes[a])

\* Faulty: the loop ends one waiter early.
WakeOneLess(s, a, n) ==
  LET WakeOne(st, i) ==
        LET t == Head(st.futexes[a]) IN Reply(dequeueWaiter(st, a), t, 0)
  IN  FoldLeft(WakeOne, s, [i \in 1..(Taken(s, a, n) - 1) |-> i])
\* __futexWake: up to n waiters, in order, each answered with 0.
futexWakeUpTo(s, a, n) ==
  LET WakeOne(st, i) ==
        LET t == Head(st.futexes[a]) IN Reply(dequeueWaiter(st, a), t, 0)
  IN  FoldLeft(WakeOne, s, [i \in 1..Taken(s, a, n) |-> i])

futexWait(s, t, c, val) ==
  IF c.val1 # val THEN Reply(s, t, -EWOULDBLOCK) ELSE enqueueWaiter(s, c.addr1, t)

futexWaitClockReal(s, t, c, val) ==
  IF c.val1 # val THEN Reply(s, t, -ENOSYS)
  ELSE [s EXCEPT !.err = @ \cup {"FUTEX_CLOCK_REALTIME"}]

futexWake(s, t, c) ==
  Reply(futexWakeUpTo(s, c.addr1, c.val1), t, Taken(s, c.addr1, c.val1))

\* The new value futexWakeOp stores, from the old one.
WakeOpValue(c, old) ==
  CASE c.op2 = "SET"  -> c.oparg
    [] c.op2 = "ADD"  -> old + c.oparg
    [] c.op2 = "OR"   -> old | c.oparg
    [] c.op2 = "ANDN" -> old - (old & c.oparg)
    [] c.op2 = "XOR"  -> old ^^ c.oparg
WakeOpHolds(c, old) ==
  CASE c.cmp = "EQ" -> old = c.cmparg
    [] c.cmp = "NE" -> old # c.cmparg
    [] c.cmp = "LT" -> old < c.cmparg
    [] c.cmp = "LE" -> old <= c.cmparg
    [] c.cmp = "GT" -> old > c.cmparg
    [] c.cmp = "GE" -> old >= c.cmparg

\* futexWakeOp after the new value is stored.
futexWakeOp(s, t, c, old) ==
  LET s1 == futexWakeUpTo(s, c.addr1, c.val1)
      n2 == IF WakeOpHolds(c, old) THEN Taken(s1, c.addr2, c.val2) ELSE 0
  IN  Reply(futexWakeUpTo(s1, c.addr2, n2), t, Taken(s, c.addr1, c.val1) + n2)

\* The difference from futexWait in the sign of the error is the code's.
futexCmpRequeue(s, t, c, val) ==
  LET s1 == futexWakeUpTo(s, c.addr1, c.val1)
      n2 == Taken(s1, c.addr1, c.val2)
      MoveOne(st, i) ==
        enqueueWaiter(dequeueWaiter(st, c.addr1), c.addr2, Head(st.futexes[c.addr1]))
  IN  IF c.val3 # val THEN Reply(s, t, EWOULDBLOCK)
      ELSE Reply(FoldLeft(MoveOne, s1, [i \in 1..n2 |-> i]), t,
                 Taken(s, c.addr1, c.val1) + n2)
=============================================================================
