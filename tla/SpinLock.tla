----------------------------- MODULE SpinLock -----------------------------
(***************************************************************************)
(* Spin locks and the nesting of interrupt disabling (spinlock.c), with    *)
(* interrupt handlers that take the same locks.  A CPU runs a stack of     *)
(* frames: the code that was interrupted and, above it, the handler.  Code *)
(* takes the locks in the order of their numbers and releases them in any  *)
(* order.  Instructions are executed in order: the barriers of acquire()   *)
(* and release() are trusted.                                              *)
(***************************************************************************)
EXTENDS Integers, Sequences, FiniteSets, TLC

CONSTANTS
    CPU,        \* without 0
    NLOCK,      \* locks are 1..NLOCK
    MaxDepth    \* bound: frames of a CPU

Lock == 1..NLOCK
NOCPU == 0

VARIABLES
    locked, cpu,    \* the fields of each lock
    ncli, intena,   \* of each CPU
    IF_,            \* the interrupt flag of each CPU
    eflags,         \* pushcli()'s copy, of each CPU's running frame
    stack,          \* of each CPU: frames, the running one first
    panicked

vars == <<locked, cpu, ncli, intena, IF_, eflags, stack, panicked>>

\* pc is the next step, lk the lock it is about, held the locks this code has, saved
\* the flag it began with.
Frame(saved) == [pc |-> "run", lk |-> 1, held |-> {}, saved |-> saved]

Init ==
    /\ locked = [l \in Lock |-> FALSE] /\ cpu = [l \in Lock |-> NOCPU]
    /\ ncli = [c \in CPU |-> 0] /\ intena = [c \in CPU |-> FALSE]
    /\ IF_ \in [CPU -> BOOLEAN] /\ eflags = [c \in CPU |-> FALSE]
    /\ stack = [c \in CPU |-> <<Frame(IF_[c])>>]
    /\ panicked = "no"

At(c, pc) == Head(stack[c]).pc = pc /\ panicked = "no"
Lk(c) == Head(stack[c]).lk
Held(c) == Head(stack[c]).held
Goes(c, pc, lk, held) ==
    stack' = [stack EXCEPT ![c][1] = [pc |-> pc, lk |-> lk, held |-> held,
                                      saved |-> Head(stack[c]).saved]]
Goto(c, pc) == Goes(c, pc, Lk(c), Held(c))

Holding(c, l) == locked[l] /\ cpu[l] = c

Panic(why) == panicked' = why /\ UNCHANGED <<locked, cpu, ncli, intena, IF_, eflags, stack>>

-----------------------------------------------------------------------------
(* acquire() *)

\* acquire() of a lock is called; pushcli() reads the flags.
Acquire(c, l) ==
    /\ At(c, "run") /\ \A m \in Held(c) : m < l
    /\ eflags' = [eflags EXCEPT ![c] = IF_[c]]
    /\ Goes(c, "cli", l, Held(c))
    /\ UNCHANGED <<locked, cpu, ncli, intena, IF_, panicked>>

\* Mutant: what the flag was is recorded at every level.
Records_Always(c) == TRUE

Records(c) == ncli[c] = 0

\* The rest of pushcli(): nothing interrupts it.
Pushcli(c) ==
    /\ At(c, "cli")
    /\ IF_' = [IF_ EXCEPT ![c] = FALSE]
    /\ intena' = IF Records(c) THEN [intena EXCEPT ![c] = eflags[c]] ELSE intena
    /\ ncli' = [ncli EXCEPT ![c] = @ + 1]
    /\ Goto(c, "xchg")
    /\ UNCHANGED <<locked, cpu, eflags, panicked>>

\* Mutant: the owner is looked at instead of the flag.
Free_NoOwner(l) == cpu[l] = NOCPU

Free(l) == ~locked[l]

\* Where the lock is taken: the CPU spins until it is free.
Xchg(c) ==
    /\ At(c, "xchg")
    /\ IF Holding(c, Lk(c)) THEN Panic("acquire")
       ELSE /\ Free(Lk(c))
            /\ locked' = [locked EXCEPT ![Lk(c)] = TRUE]
            /\ Goto(c, "own")
            /\ UNCHANGED <<cpu, ncli, intena, IF_, eflags, panicked>>

Own(c) ==
    /\ At(c, "own")
    /\ cpu' = [cpu EXCEPT ![Lk(c)] = c]
    /\ Goes(c, "run", Lk(c), Held(c) \cup {Lk(c)})
    /\ UNCHANGED <<locked, ncli, intena, IF_, eflags, panicked>>

-----------------------------------------------------------------------------
(* release() *)

\* Mutant: the lock is opened before its owner is erased.
ReleaseOrder_Swapped == <<"open", "erase">>

ReleaseOrder == <<"erase", "open">>

Release(c, l) ==
    /\ At(c, "run") /\ l \in Held(c)
    /\ IF ~Holding(c, l) THEN Panic("release")
       ELSE /\ Goes(c, ReleaseOrder[1], l, Held(c) \ {l})
            /\ UNCHANGED <<locked, cpu, ncli, intena, IF_, eflags, panicked>>

NextOf(step) == IF step = ReleaseOrder[1] THEN ReleaseOrder[2] ELSE "popcli"

Erase(c) ==
    /\ At(c, "erase")
    /\ cpu' = [cpu EXCEPT ![Lk(c)] = NOCPU]
    /\ Goto(c, NextOf("erase"))
    /\ UNCHANGED <<locked, ncli, intena, IF_, eflags, panicked>>

Open(c) ==
    /\ At(c, "open")
    /\ locked' = [locked EXCEPT ![Lk(c)] = FALSE]
    /\ Goto(c, NextOf("open"))
    /\ UNCHANGED <<cpu, ncli, intena, IF_, eflags, panicked>>

\* Mutant: the first release() turns interrupts on again.
Enables_Early(c) == intena[c]

Enables(c) == ncli[c] = 1 /\ intena[c]

Popcli(c) ==
    /\ At(c, "popcli")
    /\ CASE IF_[c] -> Panic("popcli - interruptible")
         [] ncli[c] = 0 -> Panic("popcli")
         [] OTHER -> /\ ncli' = [ncli EXCEPT ![c] = @ - 1]
                     /\ IF_' = [IF_ EXCEPT ![c] = Enables(c)]
                     /\ Goto(c, "run")
                     /\ UNCHANGED <<locked, cpu, intena, eflags, panicked>>

-----------------------------------------------------------------------------
\* An interrupt comes wherever the flag is set: interrupt gates clear it.  The
\* interrupted pushcli() has its flags in a register, which the handler preserves.
Interrupt(c) ==
    /\ IF_[c] /\ panicked = "no" /\ Len(stack[c]) < MaxDepth
    /\ stack' = [stack EXCEPT ![c] = <<Frame(FALSE)>> \o @]
    /\ IF_' = [IF_ EXCEPT ![c] = FALSE]
    /\ UNCHANGED <<locked, cpu, ncli, intena, eflags, panicked>>

\* The handler's iret.
Return(c) ==
    /\ At(c, "run") /\ Len(stack[c]) > 1 /\ Held(c) = {}
    /\ stack' = [stack EXCEPT ![c] = Tail(@)]
    /\ IF_' = [IF_ EXCEPT ![c] = TRUE] /\ eflags' = [eflags EXCEPT ![c] = TRUE]
    /\ UNCHANGED <<locked, cpu, ncli, intena, panicked>>

Step(c) ==
    \/ \E l \in Lock : Acquire(c, l) \/ Release(c, l)
    \/ Pushcli(c) \/ Xchg(c) \/ Own(c) \/ Erase(c) \/ Open(c) \/ Popcli(c)
    \/ Interrupt(c) \/ Return(c)

Next == \E c \in CPU : Step(c)

Spec == Init /\ [][Next]_vars

-----------------------------------------------------------------------------
(* Properties *)

Frames(c) == {stack[c][k] : k \in DOMAIN stack[c]}

\* A lock is held by one piece of code at most, of whichever CPU and level.
MutualExclusion ==
    \A c, d \in CPU : \A i \in DOMAIN stack[c], k \in DOMAIN stack[d] :
      <<c, i>> # <<d, k>> => stack[c][i].held \cap stack[d][k].held = {}

\* No CPU spins for a lock that the code it interrupted holds: it would spin for
\* ever.  This is what pushcli() in acquire() is for.
NoSelfDeadlock ==
    \A c \in CPU : At(c, "xchg") =>
      \A k \in 2..Len(stack[c]) : Lk(c) \notin stack[c][k].held

\* holding() is right although another CPU may be between two steps of acquire() or
\* release(): code that takes its locks in order and releases what it has does not
\* panic.
NoLockPanic == panicked = "no"

\* Code that holds no lock runs with the interrupt flag it began with.
FlagIsRestored ==
    \A c \in CPU : (At(c, "run") /\ Held(c) = {}) =>
      IF_[c] = Head(stack[c]).saved

\* What acquire() and release() promise to the code that is written with them.
SpinLocksExclude == MutualExclusion /\ NoSelfDeadlock /\ NoLockPanic /\ FlagIsRestored
=============================================================================
