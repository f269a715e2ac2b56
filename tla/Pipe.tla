-------------------------------- MODULE Pipe --------------------------------
(***************************************************************************)
(* One pipe (pipe.c), the two struct files that refer to it (the reference *)
(* counts of file.c), and the sleep(), wakeup() and kill() of proc.c its   *)
(* callers meet.                                                           *)
(*                                                                         *)
(* piperead(), pipewrite() and pipeclose() run under p->lock.  sleep() is  *)
(* modelled at the grain of its locks: it takes ptable.lock before it      *)
(* releases p->lock, and is asleep when it releases ptable.lock.           *)
(***************************************************************************)
EXTENDS Integers, Sequences, FiniteSets

CONSTANTS
    Proc,       \* slots of the process table
    First,      \* the process that called pipe()
    NoProc,     \* nobody, for the locks
    Byte,       \* contents of a byte
    PIPESIZE,   \* bytes in p->data
    WRAP,       \* the counters nread and nwrite wrap at this (2^32 in C)
    MaxCount    \* bound: the largest count passed to read() and write()

ASSUME ProcAssumption == IsFiniteSet(Proc) /\ First \in Proc /\ NoProc \notin Proc
ASSUME SizeAssumption ==
    /\ PIPESIZE \in Nat \ {0} /\ WRAP \in Nat /\ MaxCount \in Nat
    /\ PIPESIZE < WRAP
    /\ WRAP % PIPESIZE = 0              \* both are powers of two

Ends == {"r", "w"}

VARIABLES
    nread, nwrite, data,    \* struct pipe
    readopen, writeopen,
    lock,       \* who holds p->lock
    freed,      \* the struct has been given to kfree()
    ref,        \* f->ref of the two files
    holds,      \* the ends a process has a descriptor of
    pc,         \* where a process is
    call,       \* the function it executes
    count,      \* bytes it still has to read or write: n - i
    killed,     \* p->killed
    ptable,     \* who holds ptable.lock across the release of p->lock in sleep()
    out         \* the byte piperead() copied to its caller last

pipe == <<nread, nwrite, data, readopen, writeopen, freed, out>>
files == <<ref, holds>>
vars == <<pipe, lock, files, pc, call, count, killed, ptable>>

Calls == {"none", "read", "write", "closeR", "closeW"}

\* "unused": no process.  "user": outside the pipe.  "acquire": at an acquire of
\* p->lock.  "loop": at the top of the while loop, lock held.  "copy": in the for
\* loop of piperead().  "wake": at a wakeup().  "sleep": about to call sleep().
\* "drowsy": in sleep(), p->lock released.  "asleep": SLEEPING.
Places == {"unused", "user", "acquire", "loop", "copy", "wake", "sleep",
           "drowsy", "asleep"}

Init ==                                 \* pipealloc()
    /\ nread = 0 /\ nwrite = 0
    /\ data \in [0..(PIPESIZE - 1) -> Byte]
    /\ readopen = TRUE /\ writeopen = TRUE
    /\ lock = NoProc /\ freed = FALSE
    /\ ref = [e \in Ends |-> 1]
    /\ holds = [p \in Proc |-> IF p = First THEN Ends ELSE {}]
    /\ pc = [p \in Proc |-> IF p = First THEN "user" ELSE "unused"]
    /\ call = [p \in Proc |-> "none"]
    /\ count = [p \in Proc |-> 0]
    /\ killed = [p \in Proc |-> FALSE]
    /\ ptable = NoProc
    /\ out \in Byte

Goto(p, place) == pc' = [pc EXCEPT ![p] = place]
Return(p) == /\ pc' = [pc EXCEPT ![p] = "user"]
             /\ call' = [call EXCEPT ![p] = "none"]
             /\ count' = [count EXCEPT ![p] = 0]
             /\ lock' = NoProc

Holding(p, f) == lock = p /\ call[p] = f

Empty == nread = nwrite

\* Mutant: the test for a full pipe is off by one.
Full_OffByOne == nwrite = (nread + PIPESIZE + 1) % WRAP

Full == nwrite = (nread + PIPESIZE) % WRAP

-----------------------------------------------------------------------------
(* System calls *)

CallRead(p) ==
    /\ pc[p] = "user" /\ ~killed[p] /\ "r" \in holds[p]
    /\ \E n \in 1..MaxCount : count' = [count EXCEPT ![p] = n]
    /\ call' = [call EXCEPT ![p] = "read"]
    /\ Goto(p, "acquire")
    /\ UNCHANGED <<pipe, lock, files, killed, ptable>>

CallWrite(p) ==
    /\ pc[p] = "user" /\ ~killed[p] /\ "w" \in holds[p]
    /\ \E n \in 1..MaxCount : count' = [count EXCEPT ![p] = n]
    /\ call' = [call EXCEPT ![p] = "write"]
    /\ Goto(p, "acquire")
    /\ UNCHANGED <<pipe, lock, files, killed, ptable>>

\* The child gets a filedup() of each descriptor.
Fork(p, q) ==
    /\ pc[p] = "user" /\ ~killed[p]
    /\ pc[q] = "unused"
    /\ holds' = [holds EXCEPT ![q] = holds[p]]
    /\ ref' = [e \in Ends |-> IF e \in holds[p] THEN ref[e] + 1 ELSE ref[e]]
    /\ killed' = [killed EXCEPT ![q] = FALSE]
    /\ Goto(q, "user")
    /\ UNCHANGED <<pipe, lock, call, count, ptable>>

\* Mutant: the last reference but one closes the pipe.
IsLast_OffByOne(e) == ref[e] <= 2

IsLast(e) == ref[e] = 1

\* close(), and each close of an exit(): fileclose() drops the reference, and with
\* the last one goes on to pipeclose().
CloseFd(p, e) ==
    /\ pc[p] = "user" /\ e \in holds[p]
    /\ holds' = [holds EXCEPT ![p] = @ \ {e}]
    /\ ref' = [ref EXCEPT ![e] = @ - 1]
    /\ IF IsLast(e)
         THEN /\ call' = [call EXCEPT ![p] = IF e = "r" THEN "closeR" ELSE "closeW"]
              /\ Goto(p, "acquire")
         ELSE UNCHANGED <<call, pc>>
    /\ UNCHANGED <<pipe, lock, count, killed, ptable>>

\* The end of exit(), every descriptor closed.
Exit(p) ==
    /\ pc[p] = "user" /\ holds[p] = {}
    /\ Goto(p, "unused")
    /\ UNCHANGED <<pipe, lock, files, call, count, killed, ptable>>

\* kill(), under ptable.lock.
Kill(p) ==
    /\ pc[p] # "unused" /\ ~killed[p] /\ ptable = NoProc
    /\ killed' = [killed EXCEPT ![p] = TRUE]
    /\ Goto(p, IF pc[p] = "asleep" THEN "acquire" ELSE pc[p])
    /\ UNCHANGED <<pipe, lock, files, call, count, ptable>>

-----------------------------------------------------------------------------
(* p->lock, sleep() and wakeup() *)

Acquire(p) ==
    /\ pc[p] = "acquire" /\ lock = NoProc
    /\ lock' = p
    /\ Goto(p, "loop")
    /\ UNCHANGED <<pipe, files, call, count, killed, ptable>>

\* Mutant: sleep() releases its lock before it takes ptable.lock.
TakePtable_Late(p) == ptable' = ptable

TakePtable(p) == ptable' = p

\* sleep(): acquire(&ptable.lock); release(&p->lock).
Doze(p) ==
    /\ pc[p] = "sleep" /\ ptable = NoProc
    /\ TakePtable(p)
    /\ lock' = NoProc
    /\ Goto(p, "drowsy")
    /\ UNCHANGED <<pipe, files, call, count, killed>>

\* sleep(): SLEEPING, and sched() gives ptable.lock away.
Sleep(p) ==
    /\ pc[p] = "drowsy"
    /\ ptable' = NoProc
    /\ Goto(p, "asleep")
    /\ UNCHANGED <<pipe, lock, files, call, count, killed>>

\* The call that sleeps on the counter that call f wakes.
Sleeper(f) == IF f \in {"write", "closeW"} THEN "read" ELSE "write"

\* The pc vector after p has woken the sleepers and moved on to `place`.
Woken(p, place) ==
    [q \in Proc |-> IF q = p THEN place
                    ELSE IF pc[q] = "asleep" /\ call[q] = Sleeper(call[p])
                           THEN "acquire" ELSE pc[q]]

-----------------------------------------------------------------------------
(* piperead() *)

ReadFail(p) ==
    /\ pc[p] = "loop" /\ Holding(p, "read")
    /\ Empty /\ writeopen /\ killed[p]
    /\ Return(p)
    /\ UNCHANGED <<pipe, files, killed, ptable>>

ReadBlock(p) ==
    /\ pc[p] = "loop" /\ Holding(p, "read")
    /\ Empty /\ writeopen /\ ~killed[p]
    /\ Goto(p, "sleep")
    /\ UNCHANGED <<pipe, lock, files, call, count, killed, ptable>>

ReadStart(p) ==
    /\ pc[p] = "loop" /\ Holding(p, "read")
    /\ ~Empty \/ ~writeopen
    /\ Goto(p, "copy")
    /\ UNCHANGED <<pipe, lock, files, call, count, killed, ptable>>

ReadByte(p) ==
    /\ pc[p] = "copy" /\ count[p] > 0 /\ ~Empty
    /\ out' = data[nread % PIPESIZE]
    /\ nread' = (nread + 1) % WRAP
    /\ count' = [count EXCEPT ![p] = @ - 1]
    /\ UNCHANGED <<nwrite, data, readopen, writeopen, freed, lock, files, pc, call,
                   killed, ptable>>

ReadDone(p) ==
    /\ pc[p] = "copy" /\ (count[p] = 0 \/ Empty)
    /\ Goto(p, "wake")
    /\ UNCHANGED <<pipe, lock, files, call, count, killed, ptable>>

-----------------------------------------------------------------------------
(* pipewrite() *)

\* Returns -1, without a wakeup() even if it has written some bytes.
WriteFail(p) ==
    /\ pc[p] = "loop" /\ Holding(p, "write")
    /\ count[p] > 0 /\ Full /\ (~readopen \/ killed[p])
    /\ Return(p)
    /\ UNCHANGED <<pipe, files, killed, ptable>>

\* Full: wakes the readers and sleeps.
WriteBlock(p) ==
    /\ pc[p] = "loop" /\ Holding(p, "write")
    /\ count[p] > 0 /\ Full /\ readopen /\ ~killed[p]
    /\ Goto(p, "wake")
    /\ UNCHANGED <<pipe, lock, files, call, count, killed, ptable>>

\* Mutant: the slot is computed from the counter of the reader.
Slot_Reader == nread % PIPESIZE

Slot == nwrite % PIPESIZE

WriteByte(p) ==
    /\ pc[p] = "loop" /\ Holding(p, "write")
    /\ count[p] > 0 /\ ~Full
    /\ \E b \in Byte : data' = [data EXCEPT ![Slot] = b]
    /\ nwrite' = (nwrite + 1) % WRAP
    /\ count' = [count EXCEPT ![p] = @ - 1]
    /\ UNCHANGED <<nread, readopen, writeopen, freed, out, lock, files, pc, call,
                   killed, ptable>>

WriteDone(p) ==
    /\ pc[p] = "loop" /\ Holding(p, "write")
    /\ count[p] = 0
    /\ Goto(p, "wake")
    /\ UNCHANGED <<pipe, lock, files, call, count, killed, ptable>>

-----------------------------------------------------------------------------
(* pipeclose(), and the wakeup()s *)

CloseEnd(p) ==
    /\ pc[p] = "loop" /\ lock = p
    /\ \/ call[p] = "closeW" /\ writeopen' = FALSE /\ UNCHANGED readopen
       \/ call[p] = "closeR" /\ readopen' = FALSE /\ UNCHANGED writeopen
    /\ Goto(p, "wake")
    /\ UNCHANGED <<nread, nwrite, data, freed, out, lock, files, call, count,
                   killed, ptable>>

\* The wakeup() of a pipewrite() that is about to sleep.
WakeAndSleep(p) ==
    /\ pc[p] = "wake" /\ ptable = NoProc
    /\ call[p] = "write" /\ count[p] > 0
    /\ pc' = Woken(p, "sleep")
    /\ UNCHANGED <<pipe, lock, files, call, count, killed, ptable>>

BothClosed == ~readopen /\ ~writeopen

\* The last wakeup() of a call, and its return; pipeclose() frees the pipe when
\* both ends are closed.
WakeAndReturn(p) ==
    /\ pc[p] = "wake" /\ ptable = NoProc
    /\ call[p] = "write" => count[p] = 0
    /\ pc' = Woken(p, "user")
    /\ call' = [call EXCEPT ![p] = "none"]
    /\ count' = [count EXCEPT ![p] = 0]
    /\ lock' = NoProc
    /\ freed' = (freed \/ (call[p] \in {"closeR", "closeW"} /\ BothClosed))
    /\ UNCHANGED <<nread, nwrite, data, readopen, writeopen, out, files, killed,
                   ptable>>

-----------------------------------------------------------------------------
PipeStep(p) ==
    \/ Acquire(p) \/ Doze(p) \/ Sleep(p)
    \/ ReadFail(p) \/ ReadBlock(p) \/ ReadStart(p) \/ ReadByte(p) \/ ReadDone(p)
    \/ WriteFail(p) \/ WriteBlock(p) \/ WriteByte(p) \/ WriteDone(p)
    \/ CloseEnd(p) \/ WakeAndSleep(p) \/ WakeAndReturn(p)

UserStep(p) ==
    \/ CallRead(p) \/ CallWrite(p) \/ Kill(p) \/ Exit(p)
    \/ \E q \in Proc : Fork(p, q)
    \/ \E e \in Ends : CloseFd(p, e)

Next == \E p \in Proc : PipeStep(p) \/ UserStep(p)

Spec == Init /\ [][Next]_vars

-----------------------------------------------------------------------------
(* Properties *)

\* Every variable keeps its type; the counters are never more than PIPESIZE apart.
TypeOK ==
    /\ nread \in 0..(WRAP - 1) /\ nwrite \in 0..(WRAP - 1)
    /\ (nwrite - nread) % WRAP <= PIPESIZE
    /\ data \in [0..(PIPESIZE - 1) -> Byte] /\ out \in Byte
    /\ readopen \in BOOLEAN /\ writeopen \in BOOLEAN /\ freed \in BOOLEAN
    /\ lock \in Proc \cup {NoProc} /\ ptable \in Proc \cup {NoProc}
    /\ ref \in [Ends -> Nat]
    /\ holds \in [Proc -> SUBSET Ends]
    /\ pc \in [Proc -> Places] /\ call \in [Proc -> Calls]
    /\ count \in [Proc -> 0..MaxCount]
    /\ killed \in [Proc -> BOOLEAN]

Queued == (nwrite - nread) % WRAP

\* The pipe implements a queue of PIPESIZE bytes: the counters may wrap, calls may
\* be interrupted, and still bytes come out in the order they went in, none twice,
\* and none go in or out at an end that has been closed.
Queue == INSTANCE ByteQueue WITH
    queue <- [i \in 1..Queued |-> data[(nread + i - 1) % PIPESIZE]],
    Capacity <- PIPESIZE

ImplementsByteQueue == Queue!Spec

\* A process in pipe.c never finds its pipe freed: whoever is in a call still has
\* the descriptor it came through, or is the one that closes that end.
NotFreedInUse == freed => \A p \in Proc : call[p] = "none" /\ holds[p] = {}

\* Between acquire() and release() of p->lock, and of ptable.lock in sleep().
LockDiscipline ==
    \A p \in Proc :
        /\ lock = p <=> pc[p] \in {"loop", "copy", "wake", "sleep"}
        /\ ptable = p <=> pc[p] = "drowsy"

\* Who is in which function, and through which descriptor.
CallDiscipline ==
    \A p \in Proc :
        /\ call[p] = "none" <=> pc[p] \in {"unused", "user"}
        /\ pc[p] = "unused" => holds[p] = {}
        /\ call[p] = "read" => "r" \in holds[p]
        /\ call[p] = "write" => "w" \in holds[p]
        /\ pc[p] = "copy" => call[p] = "read"
        /\ pc[p] \in {"sleep", "drowsy", "asleep"} => call[p] \in {"read", "write"}

\* f->ref counts the descriptors.
Holders(e) == {p \in Proc : e \in holds[p]}
RefsAreHeld == \A e \in Ends : ref[e] = Cardinality(Holders(e))

\* The last descriptor of an end closes it, once.
IsOpen(e) == IF e = "r" THEN readopen ELSE writeopen
Closer(e) == IF e = "r" THEN "closeR" ELSE "closeW"
ClosedByLast ==
    \A e \in Ends :
        /\ ref[e] > 0 => IsOpen(e)
        /\ \A p \in Proc : call[p] = Closer(e) => ref[e] = 0 /\ (IsOpen(e) <=> pc[p] # "wake")
        /\ \A p, q \in Proc : call[p] = Closer(e) /\ call[q] = Closer(e) => p = q

\* The pipe is well formed as long as anybody can use it.
PipeInv ==
    /\ TypeOK /\ LockDiscipline /\ CallDiscipline
    /\ RefsAreHeld /\ ClosedByLast /\ NotFreedInUse

InSleep(p) == pc[p] \in {"drowsy", "asleep"}

\* Somebody inside the pipe will still call the wakeup() that call f sleeps for.
WakeupDue(f) == \E q \in Proc : /\ pc[q] \in {"loop", "copy", "wake"}
                                /\ call[q] # "none" /\ Sleeper(call[q]) = f

\* Nobody sleeps on a pipe that has what it waits for, unless the process in the
\* pipe now is about to wake it.
SleepIsJustified ==
    \A p \in Proc : InSleep(p) =>
        /\ call[p] = "read"  => (Empty /\ writeopen) \/ WakeupDue("read")
        /\ call[p] = "write" => (Full /\ readopen) \/ WakeupDue("write")

\* "Wake process from sleep if necessary": a process that kill() has marked is
\* not left SLEEPING.
KilledIsNotAsleep == \A p \in Proc : pc[p] = "asleep" => ~killed[p]
=============================================================================
