--------------------------- MODULE ReentrantLock ---------------------------
(***************************************************************************)
(* The reentrant lock of Lab 4.  Its three system calls work on a struct   *)
(* in the memory of the caller, which fork() copies: a lock is not shared, *)
(* but a child may inherit one that its parent holds.  sleep() and         *)
(* wakeup() take its virtual address, the same in every process.           *)
(***************************************************************************)
EXTENDS Integers

CONSTANTS
    Proc,       \* process slots
    First,      \* the program started by the shell
    Nobody,     \* no member of Proc
    MaxDepth    \* bound: acquisitions not released

Unlocked == [locked |-> FALSE, recursive |-> 0, owner |-> Nobody]

VARIABLES
    rlock,      \* of each process, its copy
    state,      \* "free", "user", "sleeping", or "woken" in acquire
    depth,      \* acquisitions by this program that it has not released
    inherited   \* its copy was locked when fork() made it

vars == <<rlock, state, depth, inherited>>

Init ==
    /\ rlock = [p \in Proc |-> Unlocked]
    /\ state = [p \in Proc |-> IF p = First THEN "user" ELSE "free"]
    /\ depth = [p \in Proc |-> 0]
    /\ inherited = [p \in Proc |-> FALSE]

\* init_reentrantlock()
InitLock(p) ==
    /\ state[p] = "user"
    /\ rlock' = [rlock EXCEPT ![p] = Unlocked]
    /\ depth' = [depth EXCEPT ![p] = 0]
    /\ inherited' = [inherited EXCEPT ![p] = FALSE]
    /\ UNCHANGED state

\* Mutant: the owner is not let in again.
Reenters_Never(p) == FALSE

Reenters(p) == rlock[p].locked /\ rlock[p].owner = p

Deeper(p) == depth' = [depth EXCEPT ![p] = @ + 1]

AcquireAgain(p) ==
    /\ state[p] = "user" /\ Reenters(p) /\ depth[p] < MaxDepth
    /\ rlock' = [rlock EXCEPT ![p].recursive = @ + 1]
    /\ Deeper(p)
    /\ UNCHANGED <<state, inherited>>

\* Mutant: a lock whose owner has gone does not count.
Blocked_OwnerAlive(p) == rlock[p].locked /\ state[rlock[p].owner] # "free"

Blocked(p) == rlock[p].locked

\* The loop of acquire_reentrantlock(), entered or woken in.
AcquireOrSleep(p) ==
    /\ \/ state[p] = "user" /\ ~Reenters(p) /\ depth[p] < MaxDepth
       \/ state[p] = "woken"
    /\ IF Blocked(p)
       THEN state' = [state EXCEPT ![p] = "sleeping"] /\ UNCHANGED <<rlock, depth>>
       ELSE /\ rlock' = [rlock EXCEPT ![p] = [locked |-> TRUE, recursive |-> 1, owner |-> p]]
            /\ state' = [state EXCEPT ![p] = "user"]
            /\ Deeper(p)
    /\ UNCHANGED inherited

\* Mutant: the owner is forgotten one release too late.
LastRelease_Late(p) == rlock[p].recursive = 0

LastRelease(p) == rlock[p].recursive = 1

OneLess(lock) == [lock EXCEPT !.recursive = @ - 1]

\* release_reentrantlock() by another than the owner does nothing.
Release(p) ==
    /\ state[p] = "user" /\ rlock[p].owner = p
    /\ rlock' = [rlock EXCEPT ![p] = IF LastRelease(p) THEN Unlocked ELSE OneLess(@)]
    /\ depth' = [depth EXCEPT ![p] = IF @ = 0 THEN 0 ELSE @ - 1]
    /\ state' = [q \in Proc |-> IF LastRelease(p) /\ state[q] = "sleeping" THEN "woken"
                                ELSE state[q]]
    /\ UNCHANGED inherited

\* kill() makes a sleeper runnable; the loop does not look at p->killed.
Kill(p) ==
    /\ state[p] = "sleeping"
    /\ state' = [state EXCEPT ![p] = "woken"]
    /\ UNCHANGED <<rlock, depth, inherited>>

Fork(p, child) ==
    /\ state[p] = "user" /\ state[child] = "free"
    /\ rlock' = [rlock EXCEPT ![child] = rlock[p]]
    /\ state' = [state EXCEPT ![child] = "user"]
    /\ depth' = [depth EXCEPT ![child] = depth[p]]
    /\ inherited' = [inherited EXCEPT ![child] = rlock[p].locked]

Exit(p) ==
    /\ p # First /\ state[p] = "user"
    /\ state' = [state EXCEPT ![p] = "free"]
    /\ UNCHANGED <<rlock, depth, inherited>>

Next ==
    \E p \in Proc :
      \/ InitLock(p) \/ AcquireAgain(p) \/ AcquireOrSleep(p) \/ Release(p) \/ Kill(p)
      \/ \E child \in Proc : Fork(p, child)
      \/ Exit(p)

Spec == Init /\ [][Next]_vars

-----------------------------------------------------------------------------
(* Properties *)

Alive(p) == state[p] # "free"

\* A process that did not inherit a locked copy holds its lock exactly when it has
\* acquired it more often than released it, and as its owner, whatever others did
\* with theirs at the same address.
DepthMatches ==
    \A p \in Proc : Alive(p) /\ ~inherited[p] =>
        /\ rlock[p].locked <=> depth[p] > 0
        /\ rlock[p].locked => rlock[p].owner = p /\ rlock[p].recursive = depth[p]

\* Only a child that inherited a locked copy ever waits in acquire; a process never
\* waits for itself.
OnlyHeirsSleep == \A p \in Proc : state[p] \in {"sleeping", "woken"} => inherited[p]

\* A process that waits for the lock goes on waiting.
StillWaits ==
    \A p \in Proc : state[p] \in {"sleeping", "woken"} => state'[p] \in {"sleeping", "woken"}

\* Such a child waits for ever: no release, of any process, lets it on, and kill()
\* does not end it.
HeirsNeverWake == [][StillWaits]_vars
=============================================================================
