----------------------------- MODULE MCSysCall ------------------------------
EXTENDS SysCall, TLC
CONSTANTS t1, t2, t3, cond, mutex

Futex(op, a1, v1, v2, a2, v3) ==
  [sys |-> "futex", op |-> op, addr1 |-> a1, val1 |-> v1, val2 |-> v2, addr2 |-> a2,
   val3 |-> v3, len |-> 0, op2 |-> "ADD", oparg |-> 1, cmp |-> "GT", cmparg |-> 0]
Call(sys, len) == [sys |-> sys, len |-> len]
StoreOne == [sys |-> "store", addr1 |-> cond, val1 |-> 1]
Wait(n)  == Futex("WAIT", cond, n, 0, cond, 0)

Mmap(len) == [sys |-> "mmap", len |-> len, anonymous |-> TRUE]
MmapFile  == [sys |-> "mmap", len |-> 1, anonymous |-> FALSE]

\* Every call that is no futex call and leaves the address space alone.
Calls == { Call(sys, 1) : sys \in
             (C!OnServer \ {"futex", "munmap", "mmap", "brk"})
             \cup {"clock_gettime", "madvise", "gettid", "exit", "kill", "socket"}
             \cup DOMAIN C!Redirects }
         \cup {Call("read", 3), Call("stat", 3), Call("getcwd", 3)}

\* Two waiters; the third thread changes the word, wakes one and requeues the
\* rest, then wakes the second word with FUTEX_WAKE_OP.
CondVar ==
  t1 :> <<{StoreOne}, {Futex("CMP_REQUEUE", cond, 1, 2, mutex, 1)},
          {Futex("WAKE_OP", mutex, 2, 2, cond, 0), Futex("WAKE", mutex, 2, 0, cond, 0)}>> @@
  t2 :> <<{Wait(0), Call("open", 1)}, {Call("open", 1), Call("open", 3)}>> @@
  t3 :> <<{Wait(0), Futex("WAIT_CLOCK_REALTIME", cond, 3, 0, cond, 0),
           Futex("WAIT_CLOCK_REALTIME", cond, 0, 0, cond, 0)}, Calls>>

\* The segments: up to what is left of them, past it, and past zero.
VMCalls == {Mmap(1), Mmap(4), Mmap(5), Mmap(25), MmapFile, Call("munmap", 0)} \cup
           { Call("brk", n) : n \in {0, 2, 3, 5, 6} }
Segments ==
  t1 :> <<VMCalls, VMCalls>> @@ t2 :> <<VMCalls, VMCalls>> @@ t3 :> << >>

Both == {CondVar, Segments}
=============================================================================
