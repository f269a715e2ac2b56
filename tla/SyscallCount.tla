---------------------------- MODULE SyscallCount ----------------------------
(***************************************************************************)
(* The counters of system calls (Lab 4): trap() adds the weight of a call  *)
(* to the counter of its CPU and then to the global one, under a lock      *)
(* each; sys_count_syscalls() adds up those of the CPUs under no lock.     *)
(* A process may be moved to another CPU wherever it holds no lock.        *)
(***************************************************************************)
EXTENDS Integers, Functions

CONSTANTS
    Proc,
    ncpu,
    Result,     \* what system calls return
    MaxCalls    \* bound: system calls made

CPU == 1..ncpu
NoCPU == 0
NoProc == "nobody"
None == [sum |-> 0, i |-> 1, globalBefore |-> 0]

VARIABLES
    cpus,               \* syscall_count of each CPU
    numof_all_syscalls,
    holder,             \* of cpu_lock and main_lock
    on,                 \* the CPU a process runs on
    at,                 \* the place in trap() or sys_count_syscalls()
    weight, loaded,     \* what `+=` adds, and to what
    query,              \* the locals of sys_count_syscalls()
    calls

vars == <<cpus, numof_all_syscalls, holder, on, at, weight, loaded, query, calls>>

\* init_count()
Init ==
    /\ cpus = [c \in CPU |-> 0] /\ numof_all_syscalls = 0
    /\ holder = [l \in {"cpu_lock", "main_lock"} |-> NoProc]
    /\ on = [p \in Proc |-> NoCPU]
    /\ at = [p \in Proc |-> "user"]
    /\ weight = [p \in Proc |-> 0] /\ loaded = [p \in Proc |-> 0]
    /\ query = [p \in Proc |-> None]
    /\ calls = 0

Running(p) == on[p] # NoCPU
Interruptible(p) == \A l \in DOMAIN holder : holder[l] # p

Dispatch(p, c) ==
    /\ ~Running(p) /\ \A q \in Proc : on[q] # c
    /\ on' = [on EXCEPT ![p] = c]
    /\ UNCHANGED <<cpus, numof_all_syscalls, holder, at, weight, loaded, query, calls>>

Preempt(p) ==
    /\ Running(p) /\ Interruptible(p)
    /\ on' = [on EXCEPT ![p] = NoCPU]
    /\ UNCHANGED <<cpus, numof_all_syscalls, holder, at, weight, loaded, query, calls>>

-----------------------------------------------------------------------------
(* trap() *)

\* trap() switches on tf->eax after syscall(): on the result, not on the number.
Weight(result) == CASE result = 15 -> 3 [] result = 16 -> 2 [] OTHER -> 1

Syscall(p, result) ==
    /\ Running(p) /\ at[p] = "user" /\ calls < MaxCalls
    /\ calls' = calls + 1
    /\ at' = [at EXCEPT ![p] = "count_cpu"]
    /\ weight' = [weight EXCEPT ![p] = Weight(result)]
    /\ UNCHANGED <<cpus, numof_all_syscalls, holder, on, loaded, query>>

\* Mutant: no lock is taken.
MayAcquire_Always(l) == TRUE

MayAcquire(l) == holder[l] = NoProc

LoadCpu(p) ==
    /\ Running(p) /\ at[p] = "count_cpu" /\ MayAcquire("cpu_lock")
    /\ holder' = [holder EXCEPT !["cpu_lock"] = p]
    /\ at' = [at EXCEPT ![p] = "store_cpu"]
    /\ loaded' = [loaded EXCEPT ![p] = cpus[on[p]]]
    /\ UNCHANGED <<cpus, numof_all_syscalls, on, weight, query, calls>>

StoreCpu(p) ==
    /\ Running(p) /\ at[p] = "store_cpu"
    /\ cpus' = [cpus EXCEPT ![on[p]] = loaded[p] + weight[p]]
    /\ holder' = [holder EXCEPT !["cpu_lock"] = NoProc]
    /\ at' = [at EXCEPT ![p] = "count_all"]
    /\ UNCHANGED <<numof_all_syscalls, on, weight, loaded, query, calls>>

LoadAll(p) ==
    /\ Running(p) /\ at[p] = "count_all" /\ MayAcquire("main_lock")
    /\ holder' = [holder EXCEPT !["main_lock"] = p]
    /\ at' = [at EXCEPT ![p] = "store_all"]
    /\ loaded' = [loaded EXCEPT ![p] = numof_all_syscalls]
    /\ UNCHANGED <<cpus, numof_all_syscalls, on, weight, query, calls>>

StoreAll(p) ==
    /\ Running(p) /\ at[p] = "store_all"
    /\ numof_all_syscalls' = loaded[p] + weight[p]
    /\ holder' = [holder EXCEPT !["main_lock"] = NoProc]
    /\ at' = [at EXCEPT ![p] = "user"]
    /\ UNCHANGED <<cpus, on, weight, loaded, query, calls>>

-----------------------------------------------------------------------------
(* sys_count_syscalls() *)

CountSyscalls(p) ==
    /\ Running(p) /\ at[p] = "user" /\ calls < MaxCalls
    /\ calls' = calls + 1
    /\ at' = [at EXCEPT ![p] = "sum"]
    /\ query' = [query EXCEPT ![p] = [None EXCEPT !.globalBefore = numof_all_syscalls]]
    /\ UNCHANGED <<cpus, numof_all_syscalls, holder, on, weight, loaded>>

\* Mutant: the loop reads the counter of the CPU it runs on.
Read_OwnCpu(p, i) == cpus[on[p]]

Read(p, i) == cpus[i]

SumCpu(p) ==
    /\ Running(p) /\ at[p] = "sum" /\ query[p].i <= ncpu
    /\ query' = [query EXCEPT ![p].sum = @ + Read(p, query[p].i), ![p].i = @ + 1]
    /\ UNCHANGED <<cpus, numof_all_syscalls, holder, on, at, weight, loaded, calls>>

\* It prints, and its own call is counted.
Report(p) ==
    /\ Running(p) /\ at[p] = "sum" /\ query[p].i > ncpu
    /\ at' = [at EXCEPT ![p] = "count_cpu"]
    /\ weight' = [weight EXCEPT ![p] = Weight(0)]
    /\ query' = [query EXCEPT ![p] = None]
    /\ UNCHANGED <<cpus, numof_all_syscalls, holder, on, loaded, calls>>

Next ==
    \E p \in Proc :
      \/ \E c \in CPU : Dispatch(p, c)
      \/ \E r \in Result : Syscall(p, r)
      \/ Preempt(p) \/ LoadCpu(p) \/ StoreCpu(p) \/ LoadAll(p) \/ StoreAll(p)
      \/ CountSyscalls(p) \/ SumCpu(p) \/ Report(p)

Spec == Init /\ [][Next]_vars

-----------------------------------------------------------------------------
(* Properties *)

CountedBy == SumFunction(cpus)
Half == {p \in Proc : at[p] \in {"count_all", "store_all"}}

\* No call is lost, by either counter, and none counted twice: they differ by the
\* calls between the two additions, wherever their processes were moved meanwhile.
TotalsAgree == numof_all_syscalls + SumFunctionOnSet(weight, Half) = CountedBy

\* sys_count_syscalls() takes no lock and may read each counter at another time;
\* its sum is still at least the global count when it began and no more than the
\* sum of the counters when it ends.
SumIsBetween ==
    \A p \in Proc : at[p] = "sum" /\ query[p].i > ncpu =>
        query[p].globalBefore <= query[p].sum /\ query[p].sum <= CountedBy
=============================================================================
