------------------------------ MODULE BufCache ------------------------------
(***************************************************************************)
(* The buffer cache (bio.c) with the sleep lock of each buffer             *)
(* (sleeplock.c) and the disk driver below it: ide.c with its controller   *)
(* and interrupt, or memide.c, which the Makefile links in its place for   *)
(* a kernel with the disk in memory.                                       *)
(*                                                                         *)
(* What runs under one spin lock (bcache.lock, the lk of a sleep lock,     *)
(* idelock) is one step.  The holder of a buffer either leaves it as it    *)
(* is, or changes it and gives it to bwrite() or log_write().              *)
(***************************************************************************)
EXTENDS Integers, Sequences, FiniteSets

CONSTANTS
    Proc, NoProc,
    Block,      \* disk blocks (of one device)
    NoBlock,    \* what a buffer caches after binit()
    Value,      \* contents of a block
    NBUF,       \* buffers
    MaxPinned   \* bound: buffers log_write() keeps dirty at a time

ASSUME ProcAssumption == IsFiniteSet(Proc)
ASSUME NoneAssumption == NoProc \notin Proc /\ NoBlock \notin Block
ASSUME SizeAssumption == NBUF \in Nat \ {0} /\ MaxPinned \in Nat

Buf == 1..NBUF

VARIABLES
    blockno, refcnt, flags, data, \* struct buf
    owner,      \* the process in b->lock, or NoProc
    mru,        \* the list through b->next, head.next first
    idequeue,   \* the requests, the active one first
    chip,       \* the command in the controller
    disk,
    memide,     \* memide.c is linked for ide.c
    pc, at      \* where a process is, and its local b

cache == <<blockno, refcnt, mru>>
driver == <<idequeue, chip, disk>>
vars == <<cache, flags, data, owner, driver, memide, pc, at>>

\* "idle": outside.  "lock": in acquiresleep().  "asleep": in its sleep().
\* "locked": back in bread().  "using": holds the buffer.  "changed": has
\* changed it.  "iderw": calls iderw().  "io": tests in its while loop.
\* "iosleep": in the sleep() there.  "brelse": past the releasesleep().
Places == {"idle", "lock", "asleep", "locked", "using", "changed", "iderw",
           "io", "iosleep", "brelse"}

NoCommand == [op |-> "none"]

Init ==                                 \* binit(), ideinit()
    /\ blockno = [x \in Buf |-> NoBlock]
    /\ refcnt = [x \in Buf |-> 0]
    /\ flags = [x \in Buf |-> {}]
    /\ disk \in [Block -> Value]
    /\ \E v \in Value : data = [x \in Buf |-> v]
    /\ owner = [x \in Buf |-> NoProc]
    /\ mru = [i \in Buf |-> NBUF + 1 - i]
    /\ idequeue = <<>> /\ chip = NoCommand
    /\ memide \in BOOLEAN
    /\ pc = [p \in Proc |-> "idle"]
    /\ at = [p \in Proc |-> 1]

Goto(p, place) == pc' = [pc EXCEPT ![p] = place]

\* wakeup(chan), together with p moving on: sleepers at `from` on buffer x.
WakeAnd(p, place, x, from, to) ==
    pc' = [q \in Proc |-> IF q = p THEN place
                          ELSE IF pc[q] = from /\ at[q] = x THEN to ELSE pc[q]]

-----------------------------------------------------------------------------
(* bget() *)

Cached(k) == {x \in Buf : blockno[x] = k}

\* Mutant: a dirty buffer nobody holds is recycled.
Recyclable_IgnoreDirty == {i \in 1..NBUF : refcnt[mru[i]] = 0}

\* Positions in the list of the buffers bget() may recycle.
Recyclable == {i \in 1..NBUF : refcnt[mru[i]] = 0 /\ "DIRTY" \notin flags[mru[i]]}

LeastRecent == mru[CHOOSE i \in Recyclable : \A j \in Recyclable : j <= i]

BgetHit(p, k) ==
    /\ pc[p] = "idle"
    /\ \E x \in Cached(k) :
         /\ refcnt' = [refcnt EXCEPT ![x] = @ + 1]
         /\ at' = [at EXCEPT ![p] = x]
    /\ Goto(p, "lock")
    /\ UNCHANGED <<blockno, mru, flags, data, owner, driver, memide>>

BgetRecycle(p, k) ==
    /\ pc[p] = "idle"
    /\ Cached(k) = {} /\ Recyclable # {}
    /\ blockno' = [blockno EXCEPT ![LeastRecent] = k]
    /\ flags' = [flags EXCEPT ![LeastRecent] = {}]
    /\ refcnt' = [refcnt EXCEPT ![LeastRecent] = 1]
    /\ at' = [at EXCEPT ![p] = LeastRecent]
    /\ Goto(p, "lock")
    /\ UNCHANGED <<mru, data, owner, driver, memide>>

-----------------------------------------------------------------------------
(* acquiresleep() and releasesleep() *)

CanLock(p) == owner[at[p]] = NoProc

AcquireSleep(p) ==
    /\ pc[p] = "lock"
    /\ IF CanLock(p)
         THEN owner' = [owner EXCEPT ![at[p]] = p] /\ Goto(p, "locked")
         ELSE Goto(p, "asleep") /\ UNCHANGED owner
    /\ UNCHANGED <<cache, flags, data, driver, memide, at>>

\* kill() makes a sleeper RUNNABLE.  Both loops test again and ignore p->killed.
KillWakes(p) ==
    /\ \/ pc[p] = "asleep" /\ Goto(p, "lock")
       \/ pc[p] = "iosleep" /\ Goto(p, "io")
    /\ UNCHANGED <<cache, flags, data, owner, driver, memide, at>>

ReleaseSleep(p) ==
    /\ pc[p] = "using"
    /\ owner' = [owner EXCEPT ![at[p]] = NoProc]
    /\ WakeAnd(p, "brelse", at[p], "asleep", "lock")
    /\ UNCHANGED <<cache, flags, data, driver, memide, at>>

-----------------------------------------------------------------------------
(* bread(), bwrite(), log_write(), brelse() *)

Bread(p) ==
    /\ pc[p] = "locked"
    /\ Goto(p, IF "VALID" \in flags[at[p]] THEN "using" ELSE "iderw")
    /\ UNCHANGED <<cache, flags, data, owner, driver, memide, at>>

Change(p, v) ==
    /\ pc[p] = "using"
    /\ data' = [data EXCEPT ![at[p]] = v]
    /\ Goto(p, "changed")
    /\ UNCHANGED <<cache, flags, owner, driver, memide, at>>

SetDirty(x) == flags' = [flags EXCEPT ![x] = @ \cup {"DIRTY"}]

Bwrite(p) ==
    /\ pc[p] \in {"using", "changed"}
    /\ SetDirty(at[p])
    /\ Goto(p, "iderw")
    /\ UNCHANGED <<cache, data, owner, driver, memide, at>>

Pinned == {x \in Buf : "DIRTY" \in flags[x]}

LogWrite(p) ==                          \* "prevent eviction"
    /\ pc[p] = "changed"
    /\ Cardinality(Pinned \cup {at[p]}) <= MaxPinned
    /\ SetDirty(at[p])
    /\ Goto(p, "using")
    /\ UNCHANGED <<cache, data, owner, driver, memide, at>>

\* Mutant: brelse() drops the reference only of the last user.
Unref_LastOnly(x) == IF refcnt[x] = 1 THEN 0 ELSE refcnt[x]

Unref(x) == refcnt[x] - 1

\* x leaves its place in the list for the front.
ToFront(x) ==
    LET i == CHOOSE i \in Buf : mru[i] = x IN
    [j \in Buf |-> IF j = 1 THEN x ELSE IF j <= i THEN mru[j - 1] ELSE mru[j]]

Brelse(p) ==
    LET x == at[p] IN
    /\ pc[p] = "brelse"
    /\ refcnt' = [refcnt EXCEPT ![x] = Unref(x)]
    /\ mru' = IF refcnt'[x] = 0 THEN ToFront(x) ELSE mru
    /\ Goto(p, "idle")
    /\ UNCHANGED <<blockno, flags, data, owner, driver, memide, at>>

-----------------------------------------------------------------------------
(* ide.c *)

\* idestart(x).  outsl() hands the data of a write over at once.
Command(x) ==
    IF "DIRTY" \in flags[x]
      THEN [op |-> "write", block |-> blockno[x], value |-> data[x]]
      ELSE [op |-> "read", block |-> blockno[x]]

\* Mutant: iderw() starts every request at once.
MustStart_Always == TRUE

MustStart == idequeue = <<>>

Iderw(p) ==
    /\ pc[p] = "iderw" /\ ~memide
    /\ idequeue' = Append(idequeue, at[p])
    /\ chip' = IF MustStart THEN Command(at[p]) ELSE chip
    /\ Goto(p, "io")
    /\ UNCHANGED <<cache, flags, data, owner, disk, memide, at>>

\* (b->flags & (B_VALID|B_DIRTY)) == B_VALID
Clean(x) == "VALID" \in flags[x] /\ "DIRTY" \notin flags[x]

IoTest(p) ==
    /\ pc[p] = "io"
    /\ Goto(p, IF Clean(at[p]) THEN "using" ELSE "iosleep")
    /\ UNCHANGED <<cache, flags, data, owner, driver, memide, at>>

\* The controller carries out its command and raises IRQ_IDE.
DiskDone ==
    /\ chip.op \in {"read", "write"}
    /\ disk' = IF chip.op = "write" THEN [disk EXCEPT ![chip.block] = chip.value]
               ELSE disk
    /\ chip' = [op |-> "done", value |-> disk'[chip.block]]
    /\ UNCHANGED <<cache, flags, data, owner, idequeue, memide, pc, at>>

\* Mutant: ideintr() wakes nobody.
IntrWakes_Nobody(x) == pc' = pc

IntrWakes(x) ==
    pc' = [q \in Proc |-> IF pc[q] = "iosleep" /\ at[q] = x THEN "io" ELSE pc[q]]

Ideintr ==
    /\ chip.op = "done" /\ idequeue # <<>>
    /\ LET x == Head(idequeue) IN
         /\ data' = IF "DIRTY" \in flags[x] THEN data
                    ELSE [data EXCEPT ![x] = chip.value]
         /\ flags' = [flags EXCEPT ![x] = {"VALID"}]
         /\ IntrWakes(x)
    /\ idequeue' = Tail(idequeue)
    /\ chip' = IF idequeue' = <<>> THEN NoCommand ELSE Command(Head(idequeue'))
    /\ UNCHANGED <<cache, owner, disk, memide, at>>

\* iderw() of memide.c.
MemIderw(p) ==
    LET x == at[p] IN
    /\ pc[p] = "iderw" /\ memide
    /\ IF "DIRTY" \in flags[x]
         THEN disk' = [disk EXCEPT ![blockno[x]] = data[x]] /\ UNCHANGED data
         ELSE data' = [data EXCEPT ![x] = disk[blockno[x]]] /\ UNCHANGED disk
    /\ flags' = [flags EXCEPT ![x] = {"VALID"}]
    /\ Goto(p, "using")
    /\ UNCHANGED <<cache, owner, idequeue, chip, memide, at>>

-----------------------------------------------------------------------------
Step(p) ==
    \/ \E k \in Block : BgetHit(p, k) \/ BgetRecycle(p, k)
    \/ AcquireSleep(p) \/ ReleaseSleep(p) \/ KillWakes(p)
    \/ Bread(p) \/ Bwrite(p) \/ LogWrite(p) \/ Brelse(p)
    \/ \E v \in Value : Change(p, v)
    \/ Iderw(p) \/ IoTest(p) \/ MemIderw(p)

Next == (\E p \in Proc : Step(p)) \/ DiskDone \/ Ideintr

Spec == Init /\ [][Next]_vars

-----------------------------------------------------------------------------
(* Properties *)

\* Every variable keeps its type.
TypeOK ==
    /\ blockno \in [Buf -> Block \cup {NoBlock}]
    /\ refcnt \in [Buf -> Nat]
    /\ flags \in [Buf -> SUBSET {"VALID", "DIRTY"}]
    /\ data \in [Buf -> Value] /\ disk \in [Block -> Value]
    /\ owner \in [Buf -> Proc \cup {NoProc}]
    /\ mru \in [Buf -> Buf]
    /\ idequeue \in Seq(Buf)
    /\ memide \in BOOLEAN
    /\ pc \in [Proc -> Places] /\ at \in [Proc -> Buf]

\* The list has every buffer.
ListComplete == \A x \in Buf : \E i \in Buf : mru[i] = x

Users(x) == {p \in Proc : pc[p] # "idle" /\ at[p] = x}

\* refcnt counts the processes between bget() and brelse(), and a buffer that
\* one of them is waiting for is not recycled under it.
RefcntCountsUsers ==
    /\ \A x \in Buf : refcnt[x] = Cardinality(Users(x))
    /\ \A p \in Proc : pc[p] # "idle" => blockno[at[p]] # NoBlock

\* No block is cached twice.
OneCopy ==
    \A x, y \in Buf : blockno[x] = blockno[y] /\ blockno[x] # NoBlock => x = y

Waiting == {"iderw", "io", "iosleep"}
Holding == {"locked", "using", "changed", "iderw", "io", "iosleep"}

\* The sleep lock is held by the one process that has got past it.
Locked == \A x \in Buf, p \in Proc : owner[x] = p <=> at[p] = x /\ pc[p] \in Holding

Settled(x) == \A p \in Proc : at[p] = x => pc[p] # "changed"

\* A buffer that is valid and not dirty is what is on the disk, unless its holder
\* has just changed it, and nobody looks into a buffer that is not valid.
Coherent ==
    /\ \A x \in Buf : "VALID" \in flags[x] => blockno[x] # NoBlock
    /\ \A x \in Buf : "DIRTY" \in flags[x] => "VALID" \in flags[x]
    /\ \A x \in Buf : Clean(x) /\ Settled(x) => data[x] = disk[blockno[x]]
    /\ \A x \in Buf, p \in Proc : at[p] = x =>
         /\ pc[p] \in {"using", "changed"} => "VALID" \in flags[x]
         /\ pc[p] = "iderw" => ~Clean(x)

\* Dirty buffers that nobody is writing to the disk.
Kept == {x \in Pinned : \A p \in Proc : at[p] = x => pc[p] \notin Waiting}

WellFormed ==
    /\ TypeOK /\ ListComplete /\ RefcntCountsUsers /\ OneCopy /\ Locked /\ Coherent
    /\ Cardinality(Kept) <= MaxPinned

\* With a buffer for each process beyond those the log pins, bget() never
\* panics with "no buffers".
BgetFindsBuffer ==
    \A p \in Proc, k \in Block :
        pc[p] = "idle" => Cached(k) # {} \/ Recyclable # {}

\* The cache is well formed and counts its users, and so does not run out of buffers.
CacheInv == WellFormed /\ BgetFindsBuffer

\* Requests that have not been answered.
Requested ==
    {x \in Buf : \E p \in Proc :
        at[p] = x /\ pc[p] \in {"io", "iosleep"} /\ ~Clean(x)}

\* The controller has carried out the request for x.
Answers(x) ==
    /\ chip = [op |-> "done", value |-> disk[blockno[x]]]
    /\ "DIRTY" \in flags[x] => data[x] = disk[blockno[x]]

\* A request waits in the queue exactly once, for the one process that has its
\* buffer locked, and the controller works on the first one.
QueueMatchesRequests ==
    /\ \A i, j \in 1..Len(idequeue) : idequeue[i] = idequeue[j] => i = j
    /\ {idequeue[i] : i \in 1..Len(idequeue)} = Requested
    /\ IF idequeue = <<>> THEN chip = NoCommand
       ELSE chip = Command(Head(idequeue)) \/ Answers(Head(idequeue))

\* Nobody sleeps on a sleep lock that is free, or on a request that is done.
NoLostWakeup ==
    \A p \in Proc :
        /\ pc[p] = "asleep" => owner[at[p]] # NoProc
        /\ pc[p] = "iosleep" => ~Clean(at[p])

\* A request for the disk, and a wait for a locked buffer, come to an end: they are
\* where whoever ends them looks.
SleepersAreServed == QueueMatchesRequests /\ NoLostWakeup

\* What the next holder of each block will find in it, and who has it locked.
Content ==
    [k \in Block |->
        IF \E x \in Cached(k) : "VALID" \in flags[x]
          THEN data[CHOOSE x \in Cached(k) : "VALID" \in flags[x]]
          ELSE disk[k]]

Holder ==
    [k \in Block |->
        IF \E x \in Cached(k) : owner[x] # NoProc
          THEN owner[CHOOSE x \in Cached(k) : owner[x] # NoProc]
          ELSE NoProc]

\* The cache implements one locked register per block: two buffers never hold
\* different copies of a block, nobody sees a buffer before its block has been
\* read, and what is recycled has reached the disk.
Store == INSTANCE BlockStore WITH content <- Content, stable <- disk, holder <- Holder

ImplementsBlockStore == Store!Spec
=============================================================================
