------------------------------- MODULE Clock -------------------------------
(***************************************************************************)
(* The clock: the timer interrupt of CPU 0 (trap.c) against processes in   *)
(* sys_sleep() (sysproc.c) and kill().  ticks is an unsigned int of WRAP   *)
(* values.  tickslock and ptable.lock are apart: sleep() takes the second  *)
(* before it releases the first.                                           *)
(***************************************************************************)
EXTENDS Integers, FiniteSets

CONSTANTS
    Proc,
    WRAP,       \* 2^32
    Naps,       \* arguments of sleep()
    MaxTicks    \* bound: how often the timer fires

TIMER == 0      \* the holder of a lock that is no process
Nobody == -1

VARIABLES
    ticks,
    tickslock, ptablelock,  \* who holds them
    timer,      \* "idle", or where the timer interrupt is
    pc,         \* where each process is
    n, ticks0,  \* its locals in sys_sleep()
    killed,
    ret,        \* what sys_sleep() returned: 0, -1, or 1 if it has not
    total, since  \* real time: ticks since boot, and at each call

vars == <<ticks, tickslock, ptablelock, timer, pc, n, ticks0, killed, ret, total, since>>

Init ==
    /\ ticks \in {0, WRAP - 1} /\ tickslock = Nobody /\ ptablelock = Nobody
    /\ timer = "idle" /\ pc = [p \in Proc |-> "user"]
    /\ n = [p \in Proc |-> 0] /\ ticks0 = n /\ killed = [p \in Proc |-> FALSE]
    /\ ret = [p \in Proc |-> 1] /\ total = 0 /\ since = n

Goto(p, where) == pc' = [pc EXCEPT ![p] = where]

-----------------------------------------------------------------------------
(* The timer interrupt *)

Tick ==
    /\ timer = "idle" /\ tickslock = Nobody /\ total < MaxTicks
    /\ tickslock' = TIMER
    /\ ticks' = (ticks + 1) % WRAP /\ total' = total + 1
    /\ timer' = "wakeup"
    /\ UNCHANGED <<ptablelock, pc, n, ticks0, killed, ret, since>>

\* wakeup(&ticks): who is not asleep yet is not woken.
Wakeup ==
    /\ timer = "wakeup" /\ ptablelock = Nobody
    /\ pc' = [p \in Proc |-> IF pc[p] = "asleep" THEN "awake" ELSE pc[p]]
    /\ tickslock' = Nobody /\ timer' = "idle"
    /\ UNCHANGED <<ticks, ptablelock, n, ticks0, killed, ret, total, since>>

-----------------------------------------------------------------------------
(* sys_sleep() *)

\* trap() exits a killed process before it calls anything else.
Call(p, k) ==
    /\ pc[p] = "user" /\ ~killed[p] /\ tickslock = Nobody
    /\ tickslock' = p
    /\ n' = [n EXCEPT ![p] = k] /\ ticks0' = [ticks0 EXCEPT ![p] = ticks]
    /\ since' = [since EXCEPT ![p] = total] /\ ret' = [ret EXCEPT ![p] = 1]
    /\ Goto(p, "check")
    /\ UNCHANGED <<ticks, ptablelock, timer, killed, total>>

\* Mutant: the time to wake up is computed first and may wrap.
Early_Sum(p) == ticks < (ticks0[p] + n[p]) % WRAP

\* ticks - ticks0 < n: all three as unsigned.
Early(p) == (ticks - ticks0[p]) % WRAP < n[p] % WRAP

Check(p) ==
    /\ pc[p] = "check"
    /\ IF Early(p) /\ ~killed[p] THEN Goto(p, "sleep") /\ UNCHANGED <<tickslock, ret>>
       ELSE /\ tickslock' = Nobody /\ Goto(p, "user")
            /\ ret' = [ret EXCEPT ![p] = IF Early(p) THEN -1 ELSE 0]
    /\ UNCHANGED <<ticks, ptablelock, timer, n, ticks0, killed, total, since>>

\* Mutant: sleep() lets go of tickslock before it has ptable.lock.
LetsGo_First == "sleep"

\* Where sleep() lets go of tickslock: when it has ptable.lock.
LetsGo == "locked"

SleepAcquire(p) ==
    /\ pc[p] = "sleep"
    /\ IF LetsGo = "sleep" /\ tickslock = p
       THEN tickslock' = Nobody /\ UNCHANGED <<ptablelock, pc>>
       ELSE ptablelock = Nobody /\ ptablelock' = p /\ Goto(p, "locked") /\ UNCHANGED tickslock
    /\ UNCHANGED <<ticks, timer, n, ticks0, killed, ret, total, since>>

SleepRelease(p) ==
    /\ pc[p] = "locked"
    /\ tickslock' = (IF tickslock = p THEN Nobody ELSE tickslock)
    /\ Goto(p, "sched")
    /\ UNCHANGED <<ticks, ptablelock, timer, n, ticks0, killed, ret, total, since>>

\* p->state = SLEEPING; the scheduler releases ptable.lock.
Sched(p) ==
    /\ pc[p] = "sched" /\ ptablelock = p
    /\ ptablelock' = Nobody /\ Goto(p, "asleep")
    /\ UNCHANGED <<ticks, tickslock, timer, n, ticks0, killed, ret, total, since>>

\* sleep() takes tickslock again.
Reacquire(p) ==
    /\ pc[p] = "awake" /\ tickslock = Nobody
    /\ tickslock' = p /\ Goto(p, "check")
    /\ UNCHANGED <<ticks, ptablelock, timer, n, ticks0, killed, ret, total, since>>

Kill(p) ==
    /\ ptablelock = Nobody /\ ~killed[p] /\ pc[p] # "user"
    /\ killed' = [killed EXCEPT ![p] = TRUE]
    /\ pc' = IF pc[p] = "asleep" THEN [pc EXCEPT ![p] = "awake"] ELSE pc
    /\ UNCHANGED <<ticks, tickslock, ptablelock, timer, n, ticks0, ret, total, since>>

Next ==
    \/ Tick \/ Wakeup
    \/ \E p \in Proc :
         \/ \E k \in Naps : Call(p, k)
         \/ Check(p) \/ SleepAcquire(p) \/ SleepRelease(p) \/ Sched(p)
         \/ Reacquire(p) \/ Kill(p)

Spec == Init /\ [][Next]_vars

-----------------------------------------------------------------------------
(* Properties *)

\* sleep(n) that returns 0 has lasted n ticks, also when ticks wrapped meanwhile; a
\* negative n counts as 2^32 + n.
SleepsLongEnough ==
    \A p \in Proc : ret[p] = 0 => total >= since[p] + (n[p] % WRAP)

\* A tick between the test in sys_sleep() and SLEEPING is not missed: once the timer
\* is done, whoever is asleep has still to wait.
NoTickIsMissed ==
    timer = "idle" => \A p \in Proc : pc[p] = "asleep" => Early(p)

\* sleep() neither ends early nor sleeps through its end.
SleepsItsTicks == SleepsLongEnough /\ NoTickIsMissed
=============================================================================
