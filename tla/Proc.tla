-------------------------------- MODULE Proc --------------------------------
(***************************************************************************)
(* The process table of the kernel (proc.c, with the parts of trap.c and   *)
(* init.c that decide when it is entered): process creation, exit, wait,   *)
(* kill, the per-CPU scheduler and the hand-off of ptable.lock across      *)
(* swtch().                                                                *)
(*                                                                         *)
(* A CPU executes either its scheduler loop or the kernel/user thread of   *)
(* the process in c->proc.  What a process does while it holds ptable.lock *)
(* up to the release or the swtch() is one step; everything that another   *)
(* CPU or an interrupt can come between is a step of its own.  A slot of   *)
(* the table is its index, a `struct proc *` is a slot, 0 is the null      *)
(* pointer, and slot 1 is initproc.                                        *)
(***************************************************************************)
EXTENDS Integers, FiniteSets

CONSTANTS
    NPROC,      \* size of ptable.proc
    Cpu,        \* the CPUs running scheduler()
    NoCpu,      \* "nobody" for ptable.lock
    MaxPid,     \* bound: no process starts a fork once pids up to this are promised
    KillArgs    \* the arguments user programs pass to kill()

ASSUME SlotsAssumption == NPROC \in Nat \ {0}
ASSUME CpuAssumption   == NoCpu \notin Cpu
ASSUME PidAssumption   == MaxPid \in Nat
ASSUME KillAssumption  == KillArgs \subseteq Int

Slots    == 1..NPROC
initproc == 1
Nil      == 0

States == {"UNUSED", "EMBRYO", "SLEEPING", "RUNNABLE", "RUNNING", "ZOMBIE"}

\* Where the thread of a process is.  "user": user mode.  "fork": in fork(),
\* before allocproc().  "embryo": slot np allocated.  "publish": np copied.
\* "wait": at the acquire of wait().  "waiting": in the loop of wait(), holding
\* ptable.lock again after sleep().  "kill", "exit": in that call, before the
\* acquire.  "ret": about to test killed on the way back to user mode.
\* "panic": this CPU has panicked.
Places == {"user", "fork", "embryo", "publish", "wait", "waiting",
           "kill", "exit", "ret", "panic"}

\* The call of sched() whose frame p->context points to; "forkret" is the
\* context that allocproc() fabricates, "none" that the thread is not in sched().
Contexts == {"none", "yield", "sleep", "exit", "forkret"}

VARIABLES
    state,      \* p->state
    pid,        \* p->pid
    parent,     \* p->parent
    chan,       \* p->chan
    killed,     \* p->killed
    nextpid,    \* nextpid
    ptableLock, \* the CPU that holds ptable.lock, or NoCpu
    cpuproc,    \* c->proc
    scan,       \* the loop variable p of scheduler() on c; Nil outside the loop
    pc,         \* where the thread of p is
    context,    \* p->context
    np,         \* the local np of fork()
    shell       \* the local pid of init's main(): 0 to fork, -1 fork failed

vars == <<state, pid, parent, chan, killed, nextpid, ptableLock, cpuproc, scan,
          pc, context, np, shell>>

Init ==                              \* after userinit() and mpmain()
    /\ state  = [p \in Slots |-> IF p = initproc THEN "RUNNABLE" ELSE "UNUSED"]
    /\ pid    = [p \in Slots |-> IF p = initproc THEN 1 ELSE 0]
    /\ parent = [p \in Slots |-> Nil]
    /\ chan   = [p \in Slots |-> Nil]
    /\ killed = [p \in Slots |-> FALSE]
    /\ nextpid = 2
    /\ ptableLock = NoCpu
    /\ cpuproc = [c \in Cpu |-> Nil]
    /\ scan    = [c \in Cpu |-> Nil]
    /\ pc      = [p \in Slots |-> "user"]
    /\ context = [p \in Slots |-> IF p = initproc THEN "forkret" ELSE "none"]
    /\ np      = [p \in Slots |-> Nil]
    /\ shell = 0

-----------------------------------------------------------------------------
(* Helpers *)

\* The thread of p executes on c, past any sched() it was in.
Runs(c, p) == /\ cpuproc[c] = p
              /\ state[p] = "RUNNING"
              /\ context[p] = "none"

\* p is where a scan of the table for a slot in S stops.
IsFirst(p, S) == p \in S /\ \A q \in S : p <= q

Children(p) == {q \in Slots : parent[q] = p}

\* wakeup1(ch), applied to the state vector st.
Wakeup1(st, ch) ==
    [p \in Slots |-> IF st[p] = "SLEEPING" /\ chan[p] = ch THEN "RUNNABLE" ELSE st[p]]

\* Mutant: exit() hands over only its living children.
Reparented_LiveOnly(p) ==
    [q \in Slots |-> IF parent[q] = p /\ state[q] # "ZOMBIE" THEN initproc ELSE parent[q]]

\* The parent vector when the abandoned children of p are passed to init.
Reparented(p) == [q \in Slots |-> IF parent[q] = p THEN initproc ELSE parent[q]]

\* Mutant: sched() entered without taking ptable.lock.
EnterSched_NoLock(c, p, from) ==
    /\ ptableLock' = ptableLock
    /\ context' = [context EXCEPT ![p] = from]

\* The first part of sched(), called on c by the thread of p from `from`
\* with ptable.lock held; Swtch below is the second.
EnterSched(c, p, from) ==
    /\ ptableLock' = c
    /\ context' = [context EXCEPT ![p] = from]

Goto(p, place) == pc' = [pc EXCEPT ![p] = place]

LockFree == ptableLock = NoCpu

UNCHANGED_table == UNCHANGED <<pid, parent, killed, nextpid, np, shell>>

-----------------------------------------------------------------------------
(* scheduler() *)

SchedAcquire(c) ==
    /\ cpuproc[c] = Nil /\ scan[c] = Nil
    /\ LockFree
    /\ ptableLock' = c
    /\ scan' = [scan EXCEPT ![c] = 1]
    /\ UNCHANGED <<state, chan, cpuproc, pc, context>> /\ UNCHANGED_table

\* The RUNNABLE slots that the scan of c has not passed.
Ahead(c) == {p \in Slots : scan[c] <= p /\ state[p] = "RUNNABLE"}

\* Finds the next RUNNABLE process and swtch()es to it, keeping the lock.
Dispatch(c) ==
    /\ cpuproc[c] = Nil /\ scan[c] # Nil
    /\ \E p \in Slots :
         /\ IsFirst(p, Ahead(c))
         /\ cpuproc' = [cpuproc EXCEPT ![c] = p]
         /\ scan'    = [scan EXCEPT ![c] = p]
         /\ state'   = [state EXCEPT ![p] = "RUNNING"]
    /\ UNCHANGED <<chan, ptableLock, pc, context>> /\ UNCHANGED_table

\* End of the table: release the lock and start over.
SchedRelease(c) ==
    /\ cpuproc[c] = Nil /\ scan[c] # Nil
    /\ Ahead(c) = {}
    /\ ptableLock' = NoCpu
    /\ scan' = [scan EXCEPT ![c] = Nil]
    /\ UNCHANGED <<state, chan, cpuproc, pc, context>> /\ UNCHANGED_table

\* Mutant: the loop advances twice per process.
Following_Twice(p) == p + 2

Following(p) == p + 1                \* p++ of the loop

\* The swtch() of sched(): back into the scheduler of c, which goes on with
\* the scan and still owns the lock the process took.
Swtch(c, p) ==
    /\ cpuproc[c] = p
    /\ ptableLock = c
    /\ state[p] # "RUNNING"
    /\ cpuproc' = [cpuproc EXCEPT ![c] = Nil]
    /\ scan'    = [scan EXCEPT ![c] = Following(@)]
    /\ UNCHANGED <<state, chan, ptableLock, pc, context>> /\ UNCHANGED_table

\* The swtch() of scheduler() lands in the frame p->context points to: in
\* yield() and forkret(), which release the lock, or in sleep(), which keeps it
\* (wait() sleeps on ptable.lock itself).  A yield() out of user mode goes on
\* to the last test of killed in trap(); forkret() goes to user mode directly.
Resume(c, p) ==
    /\ cpuproc[c] = p
    /\ state[p] = "RUNNING"
    /\ context[p] # "none"
    /\ context' = [context EXCEPT ![p] = "none"]
    /\ CASE context[p] = "sleep" ->
              /\ chan' = [chan EXCEPT ![p] = Nil]
              /\ Goto(p, "waiting")
              /\ UNCHANGED ptableLock
         [] context[p] = "yield" ->
              /\ ptableLock' = NoCpu
              /\ Goto(p, IF pc[p] = "user" THEN "ret" ELSE pc[p])
              /\ UNCHANGED chan
         [] OTHER ->
              /\ ptableLock' = NoCpu
              /\ UNCHANGED <<pc, chan>>
    /\ UNCHANGED <<state, cpuproc, scan>> /\ UNCHANGED_table

-----------------------------------------------------------------------------
(* trap(): interrupts, system call entry and exit *)

\* Timer interrupt.  In user mode a killed process exits; otherwise, unless a
\* lock keeps interrupts off, the process yields.
Timer(c, p) ==
    /\ Runs(c, p)
    /\ pc[p] \notin {"waiting", "panic"}
    /\ IF pc[p] = "user" /\ killed[p]
         THEN /\ Goto(p, "exit")
              /\ UNCHANGED <<state, ptableLock, context>>
         ELSE /\ LockFree
              /\ state' = [state EXCEPT ![p] = "RUNNABLE"]
              /\ EnterSched(c, p, "yield")
              /\ UNCHANGED pc
    /\ UNCHANGED <<chan, cpuproc, scan>> /\ UNCHANGED_table

\* A fault in user mode marks the process killed and makes it exit.
Fault(c, p) ==
    /\ Runs(c, p) /\ pc[p] = "user" /\ p # initproc
    /\ killed' = [killed EXCEPT ![p] = TRUE]
    /\ Goto(p, "exit")
    /\ UNCHANGED <<state, pid, parent, chan, nextpid, ptableLock, cpuproc, scan,
                   context, np, shell>>

\* Pids left under the bound, counting the forks already under way.
PidsLeft == nextpid + Cardinality({q \in Slots : pc[q] = "fork"}) <= MaxPid

\* What the program of p may call.  Init runs the loop of init.c: fork a shell,
\* wait for it reaping every orphan, start over; at the bound it only waits.
MayCall(p) ==
    IF p = initproc
      THEN IF shell = -1 THEN {"exit"}
           ELSE IF shell = 0 /\ PidsLeft THEN {"fork"} ELSE {"wait"}
      ELSE (IF PidsLeft THEN {"fork"} ELSE {}) \cup {"wait", "kill", "exit"}

SyscallEntry(c, p) ==
    /\ Runs(c, p) /\ pc[p] = "user"
    /\ \E call \in MayCall(p) : Goto(p, IF killed[p] THEN "exit" ELSE call)
    /\ UNCHANGED <<state, chan, ptableLock, cpuproc, scan, context>>
    /\ UNCHANGED_table

ReturnToUser(c, p) ==
    /\ Runs(c, p) /\ pc[p] = "ret"
    /\ Goto(p, IF killed[p] THEN "exit" ELSE "user")
    /\ UNCHANGED <<state, chan, ptableLock, cpuproc, scan, context>>
    /\ UNCHANGED_table

-----------------------------------------------------------------------------
(* fork() *)

\* Mutant: nextpid is read but not advanced.
TakePid_Again(n) ==
    /\ pid' = [pid EXCEPT ![n] = nextpid]
    /\ nextpid' = nextpid

TakePid(n) ==                        \* p->pid = nextpid++
    /\ pid' = [pid EXCEPT ![n] = nextpid]
    /\ nextpid' = nextpid + 1

Unused == {p \in Slots : state[p] = "UNUSED"}

\* allocproc() up to its release: takes the first UNUSED slot, or fails.
AllocProc(c, p) ==
    /\ Runs(c, p) /\ pc[p] = "fork"
    /\ LockFree
    /\ IF Unused = {}
         THEN /\ Goto(p, "ret")
              /\ shell' = IF p = initproc THEN -1 ELSE shell
              /\ UNCHANGED <<state, pid, nextpid, np>>
         ELSE \E n \in Slots :
              /\ IsFirst(n, Unused)
              /\ state' = [state EXCEPT ![n] = "EMBRYO"]
              /\ TakePid(n)
              /\ np' = [np EXCEPT ![p] = n]
              /\ Goto(p, "embryo")
              /\ UNCHANGED shell
    /\ UNCHANGED <<parent, chan, killed, ptableLock, cpuproc, scan, context>>

\* kalloc() of the kernel stack or copyuvm() fails: the slot is given back, by
\* a store made without the lock that leaves np->pid as it is.
ForkFail(c, p) ==
    /\ Runs(c, p) /\ pc[p] = "embryo"
    /\ state' = [state EXCEPT ![np[p]] = "UNUSED"]
    /\ np' = [np EXCEPT ![p] = Nil]
    /\ shell' = IF p = initproc THEN -1 ELSE shell
    /\ Goto(p, "ret")
    /\ UNCHANGED <<pid, parent, chan, killed, nextpid, ptableLock, cpuproc, scan,
                   context>>

\* The child gets its kernel stack, with forkret() as its context, and its parent.
ForkCopy(c, p) ==
    /\ Runs(c, p) /\ pc[p] = "embryo"
    /\ context' = [context EXCEPT ![np[p]] = "forkret"]
    /\ parent'  = [parent EXCEPT ![np[p]] = p]
    /\ Goto(p, "publish")
    /\ UNCHANGED <<state, pid, chan, killed, nextpid, ptableLock, cpuproc, scan,
                   np, shell>>

ForkPublish(c, p) ==
    /\ Runs(c, p) /\ pc[p] = "publish"
    /\ LockFree
    /\ state' = [state EXCEPT ![np[p]] = "RUNNABLE"]
    /\ np' = [np EXCEPT ![p] = Nil]
    /\ shell' = IF p = initproc THEN pid[np[p]] ELSE shell
    /\ Goto(p, "ret")
    /\ UNCHANGED <<pid, parent, chan, killed, nextpid, ptableLock, cpuproc, scan,
                   context>>

-----------------------------------------------------------------------------
(* exit(), wait() and kill() *)

\* exit() of initproc panics.
ExitInit(c, p) ==
    /\ Runs(c, p) /\ pc[p] = "exit" /\ p = initproc
    /\ Goto(p, "panic")
    /\ UNCHANGED <<state, chan, ptableLock, cpuproc, scan, context>>
    /\ UNCHANGED_table

\* panic() ends in `for(;;);`: the CPU spins there with interrupts off.
PanicSpin(c, p) ==
    /\ Runs(c, p) /\ pc[p] = "panic"
    /\ UNCHANGED vars

\* Mutant: inherited ZOMBIEs do not wake init.
AfterExit_InitNotWoken(p) == [Wakeup1(state, parent[p]) EXCEPT ![p] = "ZOMBIE"]

\* Mutant: exit() does not wake its parent.
AfterExit_ParentNotWoken(p) == [state EXCEPT ![p] = "ZOMBIE"]

\* The state vector when p exits: the parent woken, init woken too if one of
\* the children it inherits is a ZOMBIE already, p itself a ZOMBIE.
AfterExit(p) ==
    LET woken  == Wakeup1(state, parent[p])
        passed == IF \E q \in Children(p) : state[q] = "ZOMBIE"
                    THEN Wakeup1(woken, initproc) ELSE woken
    IN [passed EXCEPT ![p] = "ZOMBIE"]

Exit(c, p) ==
    /\ Runs(c, p) /\ pc[p] = "exit" /\ p # initproc
    /\ LockFree
    /\ state' = AfterExit(p)
    /\ parent' = Reparented(p)
    /\ EnterSched(c, p, "exit")
    /\ UNCHANGED <<pid, chan, killed, nextpid, cpuproc, scan, pc, np, shell>>

\* One pass of the loop of wait(), entered at the call (taking the lock) or
\* after sleep() (which kept it).
InWait(c, p) ==
    /\ Runs(c, p)
    /\ \/ pc[p] = "wait" /\ LockFree
       \/ pc[p] = "waiting"

\* Mutant: the scan of wait() does not look at p->parent.
Zombies_Anybodys(p) == {q \in Slots : state[q] = "ZOMBIE"}

Zombies(p) == {q \in Children(p) : state[q] = "ZOMBIE"}

\* A ZOMBIE child is found: its kernel stack is freed and its slot cleared.
WaitReap(c, p) ==
    /\ InWait(c, p)
    /\ \E q \in Slots :
         /\ IsFirst(q, Zombies(p))
         /\ state'   = [state EXCEPT ![q] = "UNUSED"]
         /\ pid'     = [pid EXCEPT ![q] = 0]
         /\ parent'  = [parent EXCEPT ![q] = Nil]
         /\ killed'  = [killed EXCEPT ![q] = FALSE]
         /\ context' = [context EXCEPT ![q] = "none"]
         /\ pc' = [pc EXCEPT ![p] = "ret", ![q] = "user"]
         /\ shell' = IF p = initproc /\ shell = pid[q] THEN 0 ELSE shell
    /\ ptableLock' = NoCpu
    /\ UNCHANGED <<chan, nextpid, cpuproc, scan, np>>

\* No children, or the caller has been killed: wait() returns -1.
WaitFail(c, p) ==
    /\ InWait(c, p)
    /\ Zombies(p) = {}
    /\ Children(p) = {} \/ killed[p]
    /\ ptableLock' = NoCpu
    /\ shell' = IF p = initproc THEN 0 ELSE shell
    /\ Goto(p, "ret")
    /\ UNCHANGED <<state, pid, parent, chan, killed, nextpid, cpuproc, scan,
                   context, np>>

\* Otherwise it sleeps on its own slot.
WaitSleep(c, p) ==
    /\ InWait(c, p)
    /\ Zombies(p) = {}
    /\ Children(p) # {} /\ ~killed[p]
    /\ state' = [state EXCEPT ![p] = "SLEEPING"]
    /\ chan'  = [chan EXCEPT ![p] = p]
    /\ EnterSched(c, p, "sleep")
    /\ UNCHANGED <<cpuproc, scan, pc>> /\ UNCHANGED_table

\* Mutant: kill() also starts a victim that is still being forked.
Marked_EvenEmbryo(q) ==
    /\ killed' = [killed EXCEPT ![q] = TRUE]
    /\ state' = [state EXCEPT ![q] = IF @ \in {"SLEEPING", "EMBRYO"} THEN "RUNNABLE" ELSE @]

\* Mutant: kill() only marks its victim.
Marked_Asleep(q) ==
    /\ killed' = [killed EXCEPT ![q] = TRUE]
    /\ state' = state

Marked(q) ==                         \* p->killed = 1, and out of sleep
    /\ killed' = [killed EXCEPT ![q] = TRUE]
    /\ state' = [state EXCEPT ![q] = IF @ = "SLEEPING" THEN "RUNNABLE" ELSE @]

\* kill(k): the first slot whose pid is k, whatever its state.
Kill(c, p) ==
    /\ Runs(c, p) /\ pc[p] = "kill"
    /\ LockFree
    /\ \E k \in KillArgs :
         LET match == {q \in Slots : pid[q] = k} IN
         \/ match = {} /\ UNCHANGED <<killed, state>>
         \/ \E q \in Slots : IsFirst(q, match) /\ Marked(q)
    /\ Goto(p, "ret")
    /\ UNCHANGED <<pid, parent, chan, nextpid, ptableLock, cpuproc, scan, context,
                   np, shell>>

-----------------------------------------------------------------------------
SchedStep(c) ==
    \/ SchedAcquire(c) \/ Dispatch(c) \/ SchedRelease(c)
    \/ \E p \in Slots : Swtch(c, p) \/ Resume(c, p)

KernelStep(c, p) ==
    \/ ReturnToUser(c, p)
    \/ AllocProc(c, p) \/ ForkFail(c, p) \/ ForkCopy(c, p) \/ ForkPublish(c, p)
    \/ ExitInit(c, p) \/ Exit(c, p)
    \/ WaitReap(c, p) \/ WaitFail(c, p) \/ WaitSleep(c, p)
    \/ Kill(c, p)

ProcStep(c, p) ==
    \/ Timer(c, p) \/ Fault(c, p) \/ SyscallEntry(c, p)
    \/ KernelStep(c, p) \/ PanicSpin(c, p)

Next == \E c \in Cpu : SchedStep(c) \/ \E p \in Slots : ProcStep(c, p)

Spec == Init /\ [][Next]_vars

\* Every CPU goes on executing its scheduler, every CPU gets timer interrupts,
\* and a process that is scheduled again and again executes its kernel code
\* (a time slice is longer than an instruction); init's program does not stop
\* making its calls, other programs may compute in user mode for ever.
Fairness ==
    /\ \A c \in Cpu :
         WF_vars(SchedStep(c)) /\ SF_vars(\E p \in Slots : Timer(c, p))
    /\ \A p \in Slots : SF_vars(\E c \in Cpu : KernelStep(c, p))
    /\ SF_vars(\E c \in Cpu : SyscallEntry(c, initproc))

FairSpec == Spec /\ Fairness

-----------------------------------------------------------------------------
(* Properties *)

\* Every variable keeps its type.
TypeOK ==
    /\ state  \in [Slots -> States]
    /\ pid    \in [Slots -> Nat]
    /\ parent \in [Slots -> Slots \cup {Nil}]
    /\ chan   \in [Slots -> Slots \cup {Nil}]
    /\ killed \in [Slots -> BOOLEAN]
    /\ nextpid \in Nat \ {0}
    /\ ptableLock \in Cpu \cup {NoCpu}
    /\ cpuproc \in [Cpu -> Slots \cup {Nil}]
    /\ scan    \in [Cpu -> 0..(NPROC + 1)]
    /\ pc      \in [Slots -> Places]
    /\ context \in [Slots -> Contexts]
    /\ np      \in [Slots -> Slots \cup {Nil}]
    /\ shell \in Int

OnCpu(p) == \E c \in Cpu : cpuproc[c] = p

\* swtch() never puts two CPUs on one kernel stack: a process is in c->proc of
\* at most one CPU, a RUNNING process is on one, and a process that a scheduler
\* may pick (or that waits for a wakeup) is either still inside sched() with
\* ptable.lock held or has a saved context to return to.  A slot that is free,
\* being built, or a ZOMBIE that its parent can reap is on none.
OneStackOneCpu ==
    /\ \A c, d \in Cpu : cpuproc[c] = cpuproc[d] /\ cpuproc[c] # Nil => c = d
    /\ \A p \in Slots :
         /\ state[p] = "RUNNING" => OnCpu(p)
         /\ state[p] \in {"UNUSED", "EMBRYO"} => ~OnCpu(p)
         /\ state[p] \in {"RUNNABLE", "SLEEPING"} => context[p] # "none"
         /\ \A c \in Cpu : cpuproc[c] = p /\ state[p] # "RUNNING" => ptableLock = c

Alive == {"SLEEPING", "RUNNABLE", "RUNNING"}

\* exit() abandons nobody: every process but init, ZOMBIEs included, has a
\* parent that has not exited and can still wait() for it.
NoOrphan ==
    \A p \in Slots \ {initproc} :
        state[p] \in Alive \cup {"ZOMBIE"} =>
            parent[p] # Nil /\ state[parent[p]] \in Alive

\* No wakeup of wait() is lost: whoever sleeps there has a child that is still
\* to exit, none that already has, and no kill() pending.
NoLostWakeup ==
    \A p \in Slots : state[p] = "SLEEPING" =>
        /\ chan[p] = p
        /\ Children(p) # {} /\ Zombies(p) = {}
        /\ ~killed[p]

\* A slot under construction belongs to exactly one fork(), and a fork() to a
\* slot nobody else uses.
EmbryoOwned ==
    \A n \in Slots :
        /\ state[n] = "EMBRYO" => \E p \in Slots : np[p] = n /\ state[p] \in Alive
        /\ \A p, q \in Slots : np[p] = n /\ np[q] = n => p = q
        /\ \A p \in Slots : np[p] = n => state[n] = "EMBRYO"

\* kill(pid) is unambiguous: two slots never share a pid (0 apart), stale pids
\* left by a failed fork() included.
UniquePid ==
    \A p, q \in Slots : pid[p] = pid[q] /\ pid[p] # 0 => p = q

\* No slot, no kernel stack and no pid ever serves two.
SlotsAreExclusive == OneStackOneCpu /\ EmbryoOwned /\ UniquePid

-----------------------------------------------------------------------------
(* The inductive invariant behind the properties above *)

\* Who holds ptable.lock: the scheduler of c inside its scan, or the process on
\* c between its acquire and the end of the sched() or wait() it is in.
LockDiscipline ==
    \A c \in Cpu :
        /\ cpuproc[c] = Nil => (ptableLock = c <=> scan[c] # Nil)
        /\ cpuproc[c] # Nil =>
             /\ scan[c] = cpuproc[c]
             /\ ptableLock = c <=> \/ context[cpuproc[c]] # "none"
                                   \/ pc[cpuproc[c]] = "waiting"

\* Which thread has which stack.
StackDiscipline ==
    /\ \A c, d \in Cpu : cpuproc[c] = cpuproc[d] /\ cpuproc[c] # Nil => c = d
    /\ \A c \in Cpu : cpuproc[c] # Nil =>
         /\ state[cpuproc[c]] \notin {"UNUSED", "EMBRYO"}
         /\ context[cpuproc[c]] = "none" => state[cpuproc[c]] = "RUNNING"
    /\ \A p \in Slots :
         /\ state[p] = "RUNNING" => OnCpu(p)
         /\ state[p] \in {"RUNNABLE", "SLEEPING"} => context[p] # "none"
         /\ pc[p] = "waiting" => context[p] \in {"none", "sleep"}
         /\ context[p] = "sleep" => pc[p] \in {"wait", "waiting"}

\* What a fork() has done to the slot it builds.
ForkDiscipline ==
    /\ \A p \in Slots :
         /\ np[p] # Nil <=> pc[p] \in {"embryo", "publish"}
         /\ np[p] # Nil => state[p] \in Alive /\ state[np[p]] = "EMBRYO"
         /\ pc[p] = "embryo" => parent[np[p]] = Nil
         /\ pc[p] = "publish" => context[np[p]] = "forkret" /\ parent[np[p]] = p
         /\ state[p] \in {"UNUSED", "EMBRYO"} => pc[p] = "user"
         /\ state[p] = "EMBRYO" => \E q \in Slots : np[q] = p
    /\ \A p, q \in Slots : np[p] = np[q] /\ np[p] # Nil => p = q

\* Who is whose parent.
FamilyTree ==
    /\ state[initproc] \in Alive /\ parent[initproc] = Nil
    /\ \A p \in Slots :
         /\ parent[p] # p
         /\ parent[p] # Nil => state[parent[p]] \in Alive
         /\ state[p] = "UNUSED" => parent[p] = Nil
         /\ p # initproc /\ state[p] \in Alive \cup {"ZOMBIE"} => parent[p] # Nil

\* Pids are handed out in order.
PidsInOrder ==
    /\ \A p \in Slots : pid[p] < nextpid
    /\ UniquePid

\* The conjunction is inductive.
ProcInv ==
    /\ TypeOK
    /\ LockDiscipline /\ StackDiscipline
    /\ ForkDiscipline /\ FamilyTree
    /\ PidsInOrder /\ NoLostWakeup

-----------------------------------------------------------------------------
(* Action properties and liveness *)

\* The step clears p, which is off every CPU, and its parent is in wait().
Reaped(p) ==
    /\ state'[p] = "UNUSED"
    /\ ~OnCpu(p)
    /\ \E c \in Cpu : /\ cpuproc[c] = parent[p]
                      /\ state[parent[p]] = "RUNNING"
                      /\ pc[parent[p]] \in {"wait", "waiting"}

\* A ZOMBIE leaves its slot only to UNUSED, only when it is off every CPU, and
\* only through its parent (by then perhaps init) running wait().
ReapedByParent ==
    [][\A p \in Slots : state[p] = "ZOMBIE" /\ state'[p] # "ZOMBIE" => Reaped(p)]_vars

\* allocproc() "initialize[s] state": a process starts its life not killed, since
\* nobody can have meant a kill() for it.
NewProcNotKilled ==
    [][\A p \in Slots :
         state[p] = "UNUSED" /\ state'[p] = "EMBRYO" => ~killed'[p]]_vars

InitPanicked == pc[initproc] = "panic"

\* init reaps what it inherits: a ZOMBIE child of init is eventually cleared
\* (unless init, its fork() having failed, has panicked the machine).
InitReaps ==
    \A p \in Slots :
        state[p] = "ZOMBIE" /\ parent[p] = initproc
            ~> state[p] = "UNUSED" \/ InitPanicked

\* A killed process exits, wherever kill() or the fault found it: in user mode,
\* in the kernel, or asleep in wait() (unless init panics the machine first).
KilledExits ==
    \A p \in Slots \ {initproc} :
        killed[p] /\ state[p] \in Alive
            ~> state[p] \in {"ZOMBIE", "UNUSED"} \/ InitPanicked

=============================================================================
