------------------------------ MODULE SysCall -------------------------------
(***************************************************************************)
(* System calls from the application thread through the Pin callbacks and  *)
(* SyscallMdl to the server and back.  A marshalled call is a request      *)
(* packet, a handler of the server and a reply packet; the server handles  *)
(* one request at a time and the requests of different cores reach it in   *)
(* any order.  FUTEX_WAKE_OP reads and writes simulated memory in two      *)
(* accesses, so the application may store in between: it has two actions.  *)
(* Simulated memory is coherent (module MSI), so an access is atomic.      *)
(*                                                                         *)
(* The calls that run on the host are three steps: the enter callback      *)
(* copies arguments into the scratchpad, the kernel runs, the exit         *)
(* callback copies results to simulated memory.  clone holds               *)
(* clone_memory_update_lock from the first to the last.                    *)
(***************************************************************************)
EXTENDS Integers, Sequences, FiniteSets, FiniteSetsExt

CONSTANTS
  Threads, Words, None,
  Programs,       \* programs of the application: per thread, a sequence of sets
                  \* of calls, of each of which it makes one
  Kernel, AddressSpace, StartData, StartStack, EndStack, StartDynamic, MaxBuff

C == INSTANCE SyscallModel
S == INSTANCE SyscallServer

ASSUME SysCallAssumption ==
  /\ StartData < StartStack /\ StartStack < EndStack
  /\ EndStack < StartDynamic /\ StartDynamic < AddressSpace
  /\ \A p \in Programs : DOMAIN p = Threads

VARIABLES
  program,   \* the one of Programs that runs
  step,      \* how many calls of its program a thread has made
  pc,        \* user; waiting for a reply; entered, returned: a call on the host
  call,      \* the call a thread is in, or made last
  request,   \* the packet on its way to the server
  server,    \* the record of SyscallServer
  waking,    \* the FUTEX_WAKE_OP between its read and its write
  mem,       \* simulated memory: the futex words
  scratch,   \* whose data m_scratch of the server holds
  mapped,    \* the mappings mmap returned: start and length
  pad,       \* the scratchpad of each core: where each argument's value is from
  stored,    \* the arguments of each call copied back with the kernel's value
  cloner,    \* the holder of clone_memory_update_lock
  child,     \* none, created by the kernel, running
  misread,   \* the calls of which a receiver took a value for another
  err        \* the assertions of the client that have failed

clientVars == <<program, step, pc, call, request>>
hostVars == <<pad, stored, cloner, child>>
serverVars == <<server, waking, mapped, scratch>>
vars == <<clientVars, hostVars, serverVars, mem, misread, err>>

Init ==
  /\ program \in Programs
  /\ step = [t \in Threads |-> 0]
  /\ pc = [t \in Threads |-> "user"]
  /\ call = [t \in Threads |-> None]
  /\ request = [t \in Threads |-> None]
  /\ server = [futexes |-> [a \in Words |-> << >>], stalled |-> {},
               vm |-> S!VMManager, reply |-> [t \in Threads |-> << >>], err |-> {}]
  /\ waking = None
  /\ mem = [a \in Words |-> 0]
  /\ scratch = None
  /\ mapped = {}
  /\ pad = [t \in Threads |-> << >>]
  /\ stored = [t \in Threads |-> {}]
  /\ cloner = None
  /\ child = "none"
  /\ misread = {}
  /\ err = {}

\* The outcomes of a system call of the host on the server.
Outcomes(c) ==
  {[ok |-> FALSE, got |-> 0]} \cup { [ok |-> TRUE, got |-> n] : n \in 0..c.len }

Failed(name, holds) == IF holds THEN {} ELSE {name}

-----------------------------------------------------------------------------
(* The application thread *)

Offered(t) ==
  IF pc[t] = "user" /\ step[t] < Len(program[t]) THEN program[t][step[t] + 1] ELSE {}

Makes(t, c) ==
  /\ step' = [step EXCEPT ![t] = @ + 1]
  /\ call' = [call EXCEPT ![t] = c]
  /\ UNCHANGED program

\* A store of the application to a word.
Store(t) ==
  \E c \in Offered(t) :
    /\ c.sys = "store"
    /\ mem' = [mem EXCEPT ![c.addr1] = c.val1]
    /\ Makes(t, c)
    /\ UNCHANGED <<pc, request, hostVars, serverVars, misread, err>>

\* SyscallMdl::runEnter up to the netRecv.  munmap names a mapping.
Send(t) ==
  \E c \in Offered(t) :
    /\ c.sys \in C!OnServer \ {"sched_setaffinity"}
    /\ \E m \in IF c.sys = "munmap" THEN mapped ELSE {<<0, 0>>} :
         request' = [request EXCEPT ![t] = m]
    /\ pc' = [pc EXCEPT ![t] = "waiting"]
    /\ Makes(t, c)
    /\ UNCHANGED <<hostVars, serverVars, mem, misread, err>>

\* The function is assert(false) before anything else.
marshallSchedSetAffinityCall(t) ==
  \E c \in Offered(t) :
    /\ c.sys = "sched_setaffinity"
    /\ err' = err \cup {c.sys}
    /\ Makes(t, c)
    /\ UNCHANGED <<pc, request, hostVars, serverVars, mem, misread>>

\* The address in the reply of getcwd is that of m_scratch, or of a buffer that
\* was deleted; that of sched_getaffinity is always deleted, and the client
\* deletes it again.
AddressIsGood(t, c, r) ==
  /\ c.sys # "sched_getaffinity"
  /\ c.sys = "getcwd" /\ r.ok => scratch = t /\ c.len <= MaxBuff

\* The rest of the marshall function and runExit.  What is at a bad address is
\* anything: the assertion on the length of the path (or the heap's check of a
\* double free) stops the simulation, or the call goes on with it.
Receive(t) ==
  /\ pc[t] = "waiting"
  /\ server.reply[t] # << >>
  /\ LET c == call[t]
         r == Head(server.reply[t])
         packet == S!handleSyscall(c, r).put
         m == C!runEnter(c, r)
         good == AddressIsGood(t, c, r)
         understood == /\ C!Understood(packet, m.get)
                       /\ r.ok => C!size(packet) = C!size(m.get)
     IN  /\ misread' = misread \cup Failed(c.sys, good /\ understood)
         /\ \E stops \in {{}, Failed(c.sys, good)} :
              err' = err \cup Failed("reply", C!size(packet) \in m.reply) \cup stops
  /\ server' = [server EXCEPT !.reply[t] = Tail(@)]
  /\ pc' = [pc EXCEPT ![t] = "user"]
  /\ UNCHANGED <<program, step, call, request, hostVars, waking, mapped, scratch, mem>>

\* clock_gettime, calls replaced by getpid, and calls the host just runs; exit
\* and exit_group do not come back.
Other(t) ==
  \E c \in Offered(t) :
    /\ c.sys \notin C!OnServer \cup DOMAIN C!Redirects \cup {"store"}
    /\ err' = err \cup
         (IF ~C!EnterHandled(c.sys) THEN {"enter"}
          ELSE Failed("exit", c.sys \in {"exit", "exit_group"} \/ C!ExitHandled(c.sys)))
    /\ Makes(t, c)
    /\ UNCHANGED <<pc, request, hostVars, serverVars, mem, misread>>

-----------------------------------------------------------------------------
(* Calls on the host *)

\* modify...Context: copyArgToBuffer for each argument.
HostEnter(t) ==
  \E c \in Offered(t) :
    /\ c.sys \in DOMAIN C!Redirects
    /\ c.sys = "clone" => cloner = None
    /\ cloner' = IF c.sys = "clone" THEN t ELSE cloner
    /\ pad' = [pad EXCEPT ![t] = [k \in C!Redirects[c.sys].in |-> "application"]]
    /\ pc' = [pc EXCEPT ![t] = "entered"]
    /\ Makes(t, c)
    /\ UNCHANGED <<request, stored, child, serverVars, mem, misread, err>>

\* The kernel: an argument that was not redirected is host memory, which does
\* not hold what the application stored.
HostCall(t) ==
  /\ pc[t] = "entered"
  /\ LET sys == call[t].sys
     IN  /\ misread' = misread \cup Failed(sys, C!KernelReads[sys] \subseteq DOMAIN pad[t])
         /\ pad' = [pad EXCEPT ![t] = [k \in DOMAIN @ |->
                       IF k \in C!KernelWrites[sys] THEN "kernel" ELSE @[k]]]
         /\ child' = IF sys = "clone" THEN "created" ELSE child
  /\ pc' = [pc EXCEPT ![t] = "returned"]
  /\ UNCHANGED <<program, step, call, request, stored, cloner, serverVars, mem, err>>

\* restore...Context: copyArgFromBuffer for each result.
HostExit(t) ==
  /\ pc[t] = "returned"
  /\ LET sys == call[t].sys
     IN  /\ stored' = [stored EXCEPT ![t] = @ \cup
                        { <<sys, k>> : k \in { k \in C!Redirects[sys].out :
                                                  pad[t][k] = "kernel" } }]
         /\ cloner' = IF sys = "clone" THEN None ELSE cloner
  /\ pad' = [pad EXCEPT ![t] = << >>]
  /\ pc' = [pc EXCEPT ![t] = "user"]
  /\ UNCHANGED <<program, step, call, request, child, serverVars, mem, misread, err>>

\* PinSim's thread start callback of the new thread: it takes the lock once.
ChildStart ==
  /\ child = "created"
  /\ cloner = None
  /\ child' = "running"
  /\ UNCHANGED <<clientVars, pad, stored, cloner, serverVars, mem, misread, err>>

-----------------------------------------------------------------------------
(* The server *)

\* The handler has read the request.
Takes(t) ==
  /\ waking = None
  /\ request[t] # None
  /\ request' = [request EXCEPT ![t] = None]
  /\ UNCHANGED <<program, step, pc, call, hostVars, err>>

Parsed(t, r) ==
  LET c == call[t]
      packet == C!runEnter(c, r).put
      h == S!handleSyscall(c, r)
  IN  /\ misread' = misread \cup
           Failed(c.sys, C!Understood(packet, h.get) /\ C!size(packet) = C!size(h.get))
      /\ scratch' = IF S!UsesScratch(c) THEN t ELSE scratch

\* The calls the server passes to its host.
Serve(t) ==
  /\ Takes(t)
  /\ call[t].sys \notin {"futex", "mmap", "munmap", "brk"}
  /\ \E r \in Outcomes(call[t]) :
       /\ Parsed(t, r)
       /\ server' = [server EXCEPT
            !.reply[t] = Append(@, r),
            !.err = @ \cup Failed("request",
                 C!size(C!runEnter(call[t], r).put) \in S!handleSyscall(call[t], r).size)]
  /\ UNCHANGED <<waking, mapped, mem>>

\* The calls of the VMManager.
ServeVM(t) ==
  /\ Takes(t)
  /\ call[t].sys \in {"mmap", "munmap", "brk"}
  /\ LET c == call[t]
         v == CASE c.sys = "mmap"   -> S!mmap(server.vm, c.len, c.anonymous)
                [] c.sys = "munmap" -> S!munmap(server.vm, request[t][1])
                [] c.sys = "brk"    -> S!brk(server.vm, c.len)
     IN  /\ IF v.err = {}
            THEN /\ server' = [server EXCEPT !.vm = v.vm,
                                 !.reply[t] = Append(@, [ok |-> TRUE, got |-> v.ret])]
                 /\ mapped' = mapped \cup
                      (IF c.sys = "mmap" THEN {<<v.ret, c.len>>} ELSE {})
            ELSE /\ server' = [server EXCEPT !.err = @ \cup v.err]
                 /\ UNCHANGED mapped
         /\ Parsed(t, [ok |-> TRUE, got |-> v.ret])
  /\ UNCHANGED <<waking, mem>>

\* marshallFutexCall, but for FUTEX_WAKE_OP.
ServeFutex(t) ==
  /\ Takes(t)
  /\ call[t].sys = "futex"
  /\ call[t].op # "WAKE_OP"
  /\ LET c == call[t]
     IN  server' = CASE c.op \notin S!Supported -> [server EXCEPT !.err = @ \cup {"op"}]
                     [] c.op = "WAIT" -> S!futexWait(server, t, c, mem[c.addr1])
                     [] c.op = "WAIT_CLOCK_REALTIME" ->
                          S!futexWaitClockReal(server, t, c, mem[c.addr1])
                     [] c.op = "WAKE" -> S!futexWake(server, t, c)
                     [] c.op = "CMP_REQUEUE" ->
                          S!futexCmpRequeue(server, t, c, mem[c.addr1])
  /\ Parsed(t, [ok |-> TRUE, got |-> 0])
  /\ UNCHANGED <<waking, mapped, mem>>

\* futexWakeOp reads the second word ...
ServeWakeOp(t) ==
  /\ Takes(t)
  /\ call[t].sys = "futex" /\ call[t].op = "WAKE_OP"
  /\ IF "WAKE_OP" \in S!Supported
     THEN waking' = <<t, mem[call[t].addr2]>> /\ UNCHANGED server
     ELSE server' = [server EXCEPT !.err = @ \cup {"op"}] /\ UNCHANGED waking
  /\ Parsed(t, [ok |-> TRUE, got |-> 0])
  /\ UNCHANGED <<mapped, mem>>

\* ... writes it, wakes and answers.
FinishWakeOp ==
  /\ waking # None
  /\ LET t == waking[1]
         c == call[t]
     IN  /\ mem' = [mem EXCEPT ![c.addr2] = S!WakeOpValue(c, waking[2])]
         /\ server' = S!futexWakeOp(server, t, c, waking[2])
  /\ waking' = None
  /\ UNCHANGED <<clientVars, hostVars, mapped, scratch, misread, err>>

-----------------------------------------------------------------------------
ThreadStep(t) ==
  \/ Store(t) \/ Send(t) \/ marshallSchedSetAffinityCall(t) \/ Receive(t) \/ Other(t)
  \/ HostEnter(t) \/ HostCall(t) \/ HostExit(t)
ServerStep(t) == Serve(t) \/ ServeVM(t) \/ ServeFutex(t) \/ ServeWakeOp(t)

\* An assertion that fails ends the simulator.
Failures == err \cup server.err
Next ==
  /\ Failures = {}
  /\ (\E t \in Threads : ThreadStep(t) \/ ServerStep(t)) \/ FinishWakeOp \/ ChildStart

\* Threads and the server run on host threads the host schedules fairly.  The
\* server's requests are queued, so none is passed over for ever.
Fairness ==
  /\ \A t \in Threads : /\ WF_vars(Failures = {} /\ ThreadStep(t))
                        /\ WF_vars(Failures = {} /\ ServerStep(t))
  /\ WF_vars(Failures = {} /\ (FinishWakeOp \/ ChildStart))

Spec == Init /\ [][Next]_vars /\ Fairness

-----------------------------------------------------------------------------
(* Properties *)

\* The assertions that do fail: calls the simulator does not support
\* (sched_setaffinity, syscall_model.cc:1403; kill and calls without a branch,
\* handle_syscalls.cc:273, 432; mmap of a file, vm_manager.cc:85; a wait on
\* CLOCK_REALTIME, syscall_server.cc:999), requests without room (brk and mmap), and
\* the two calls whose reply is an address in the server: getcwd, whose path may
\* be overwritten or freed before it is read (syscall_model.cc:1385), and
\* sched_getaffinity, whose buffer is freed twice.
KnownFailures ==
  {"sched_setaffinity", "enter", "exit", "FUTEX_CLOCK_REALTIME", "mmap of a file",
   "brk", "mmap", "getcwd", "sched_getaffinity"}

\* A length above the address it is subtracted from: the difference wraps
\* around and passes the check for room (vm_manager.cc:94).
Wrapped == \E m \in mapped : m[1] + m[2] >= AddressSpace

\* Of the assertions of the client, the server, the VMManager and the thread
\* manager no other one fails, whatever the order of the calls: the lengths of
\* requests and replies fit, no futex operation is unknown, munmap finds what
\* mmap returned in the dynamic segment, which a length that wraps around moves
\* above it, and no thread is stalled or resumed twice.
NoAssertionFails ==
  Failures \subseteq KnownFailures \cup (IF Wrapped THEN {"munmap"} ELSE {})

\* When a call on the host is back, simulated memory holds all that the kernel
\* wrote; a new thread runs only after its parent has stored the thread ids.
HostResults ==
  /\ \A t \in Threads :
       pc[t] = "user" /\ call[t] # None =>
         \A k \in IF call[t].sys \in DOMAIN C!Redirects THEN C!KernelWrites[call[t].sys] ELSE {} :
           <<call[t].sys, k>> \in stored[t]
  /\ child = "running" => \E t \in Threads : {<<"clone", 2>>, <<"clone", 3>>} \subseteq stored[t]

\* The two ends of every marshalled call agree on its request and on its
\* reply, field by field and for every length and outcome, and the kernel
\* finds the arguments of a call on the host in the scratchpad, and its results
\* come back from there.  Three calls are left out: readahead, whose client puts
\* the wrong arguments into offset and count (syscall_model.cc:790), and getcwd
\* and sched_getaffinity, which may read what is no longer at the address.
PacketsUnderstood ==
  misread \subseteq {"readahead", "getcwd", "sched_getaffinity"} /\ HostResults

Places(t) ==
  (IF request[t] # None THEN 1 ELSE 0)
  + Len(server.reply[t])
  + Cardinality({ <<a, i>> \in Words \X (1..Cardinality(Threads)) :
                    i <= Len(server.futexes[a]) /\ server.futexes[a][i] = t })
  + (IF waking # None THEN IF waking[1] = t THEN 1 ELSE 0 ELSE 0)

\* A thread blocked in a call is waited for in exactly one place: its request,
\* one futex queue or its answer; and the thread manager has stalled exactly
\* the threads in the futex queues.  Only the known assertions fail.
OneAnswer ==
  /\ NoAssertionFails
  /\ Failures = {} =>
       /\ \A t \in Threads : Places(t) = (IF pc[t] = "waiting" THEN 1 ELSE 0)
       /\ server.stalled = { t \in Threads :
                               \E a \in Words : t \in { server.futexes[a][i] :
                                                   i \in DOMAIN server.futexes[a] } }

\* Mappings handed out by mmap never overlap one another, the stacks or the
\* data segment, which ends below the stacks, and mmap refuses a request only
\* when the mappings, none of which is ever reused, leave no room for it; but
\* for a length that wraps around, after which they overlap.
MappingsDisjoint ==
  \/ Wrapped
  \/ /\ \A m \in mapped : m[1] > EndStack /\ m[1] + m[2] <= StartDynamic
     /\ \A m, n \in mapped : m # n => m[1] + m[2] <= n[1] \/ n[1] + n[2] <= m[1]
     /\ server.vm.end < StartStack
     /\ "mmap" \in server.err =>
          \E t \in Threads :
            /\ pc[t] = "waiting" /\ request[t] = None /\ server.reply[t] = << >>
            /\ call[t].sys = "mmap"
            /\ EndStack + call[t].len + MapThenSumSet(LAMBDA m : m[2], mapped)
                 >= StartDynamic

\* Every call returns: no wake-up is lost between a store and a wake of one
\* thread and a wait of another, through requeues and FUTEX_WAKE_OP, as long
\* as every store that changes a word is followed by a wake, unless one of the
\* known assertions stops the simulator.
AllReturn ==
  <>(\/ Failures # {}
     \/ \A t \in Threads : pc[t] = "user" /\ step[t] = Len(program[t]))
=============================================================================
