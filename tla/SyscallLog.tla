----------------------------- MODULE SyscallLog -----------------------------
(***************************************************************************)
(* The log of system calls of each process: syscall() appends to it, and   *)
(* sort_syscalls() and get_most_invoked_syscall() of proc.c read that of   *)
(* any process.  They hold ptable.lock while they look for the process,    *)
(* and none after that: its slot may go on, be freed and be used again.    *)
(***************************************************************************)
EXTENDS Integers, Sequences, FiniteSets, FiniteSetsExt

CONSTANTS
    NPROC,
    MaxLog,     \* length of p->syscalls[], 1000 in proc.h
    Number,     \* system call numbers, all below `Counters`
    Counters,   \* length of counts[], 30 in the source
    MaxPid      \* bound: pids

Slot == 1..NPROC
NoSlot == 0

VARIABLES
    pid,        \* 0 in a free slot
    syscalls, syscall_count,
    nextpid,
    query       \* of each process: the call that reads a log, and its locals

vars == <<pid, syscalls, syscall_count, nextpid, query>>

None == [at |-> "none", asked |-> 0, p |-> NoSlot, count |-> 0, copied |-> <<>>,
         i |-> 0, j |-> 0, counts |-> <<>>, max_freq |-> -1, intact |-> TRUE]

Init ==
    /\ pid = [s \in Slot |-> IF s = 1 THEN 1 ELSE 0]
    /\ syscalls = [s \in Slot |-> [i \in 1..MaxLog |-> 0]]
    /\ syscall_count = [s \in Slot |-> 0]
    /\ nextpid = 2
    /\ query = [s \in Slot |-> None]

Alive(s) == pid[s] # 0
Calling(s) == query[s].at # "none"

-----------------------------------------------------------------------------
\* Mutant: the limit of syscall() is off by one, and the last entry overwritten.
Place_Last(s) == IF syscall_count[s] < MaxLog THEN syscall_count[s] + 1 ELSE MaxLog

\* Where syscall() puts the next entry; 0: "max system calls limit" instead.
Place(s) == IF syscall_count[s] < MaxLog THEN syscall_count[s] + 1 ELSE 0

\* The end of syscall() for a call with this number.
Record(s, n) ==
    IF Place(s) = 0 THEN UNCHANGED <<syscalls, syscall_count>>
    ELSE /\ syscalls' = [syscalls EXCEPT ![s][Place(s)] = n]
         /\ syscall_count' = [syscall_count EXCEPT ![s] = Place(s)]

\* Any other system call.
Syscall(s, n) ==
    /\ Alive(s) /\ ~Calling(s)
    /\ Record(s, n)
    /\ UNCHANGED <<pid, nextpid, query>>

\* allocproc() in fork().  exit() and wait() free a slot and leave the log in it.
Fork(s, child) ==
    /\ Alive(s) /\ ~Calling(s) /\ ~Alive(child) /\ nextpid <= MaxPid
    /\ \A t \in Slot : t < child => Alive(t)
    /\ pid' = [pid EXCEPT ![child] = nextpid] /\ nextpid' = nextpid + 1
    /\ syscall_count' = [syscall_count EXCEPT ![child] = 0]
    /\ query' = [q \in Slot |-> [query[q] EXCEPT !.intact = @ /\ query[q].p # child]]
    /\ UNCHANGED syscalls

ExitAndReap(s) ==
    /\ s # 1 /\ Alive(s) /\ ~Calling(s)
    /\ pid' = [pid EXCEPT ![s] = 0]
    /\ UNCHANGED <<syscalls, syscall_count, nextpid, query>>

-----------------------------------------------------------------------------
(* sys_sort_syscalls(), sys_get_most_invoked_syscall() *)

\* find_process_by_id(); pid 0 finds a free slot.
Find(n) == LET found == {s \in Slot : pid[s] = n} IN IF found = {} THEN NoSlot ELSE Min(found)

Ask(s, n, at) ==
    /\ Alive(s) /\ ~Calling(s)
    /\ query' = [query EXCEPT ![s] = [None EXCEPT !.at = at, !.asked = n, !.p = Find(n)]]
    /\ UNCHANGED <<pid, syscalls, syscall_count, nextpid>>

\* The call returns and is recorded itself.
Return(s, n) ==
    /\ query' = [query EXCEPT ![s] = None]
    /\ Record(s, n)
    /\ UNCHANGED <<pid, nextpid>>

Continue(s, q) ==
    /\ query' = [query EXCEPT ![s] = q]
    /\ UNCHANGED <<pid, syscalls, syscall_count, nextpid>>

At(s, places) == query[s].at \in places

FoundCount(s) == IF query[s].p = NoSlot THEN 0 ELSE syscall_count[query[s].p]

\* There is no such process, or it has no log yet.
NothingThere(s, n) ==
    /\ At(s, {"sort", "most"}) /\ FoundCount(s) = 0
    /\ Return(s, n)

\* `count` of both functions: the rest works on that many entries.
ReadCount(s) ==
    LET q == query[s] IN
    /\ At(s, {"sort", "most"}) /\ FoundCount(s) # 0
    /\ Continue(s, [q EXCEPT !.at = IF @ = "sort" THEN "copy" ELSE "count",
                             !.count = FoundCount(s),
                             !.counts = [n \in 0..(Counters - 1) |-> 0]])

CopyEntry(s) ==
    LET q == query[s] IN
    /\ At(s, {"copy"}) /\ Len(q.copied) < q.count
    /\ Continue(s, [q EXCEPT !.copied = Append(@, syscalls[q.p][Len(@) + 1])])

\* The copy is complete; i = 0 and j = 0.
Sort(s) ==
    LET q == query[s] IN
    /\ At(s, {"copy"}) /\ Len(q.copied) = q.count
    /\ Continue(s, [q EXCEPT !.at = "pairs"])

\* Mutant: the inner loop of the bubble sort stops one pair early.
LastPair_Early(n, i) == n - i - 2

\* Where it stops, in the turn i of the outer loop; both count from 0, a sequence from 1.
LastPair(n, i) == n - i - 1

SwapPair(a, j) ==
    IF a[j + 1] > a[j + 2] THEN [a EXCEPT ![j + 1] = a[j + 2], ![j + 2] = a[j + 1]] ELSE a

\* One turn of the inner loop.
ComparePair(s) ==
    LET q == query[s] IN
    /\ At(s, {"pairs"}) /\ q.i < q.count - 1 /\ q.j < LastPair(q.count, q.i)
    /\ Continue(s, [q EXCEPT !.copied = SwapPair(@, q.j), !.j = @ + 1])

\* The end of one of the outer loop.
NextPass(s) ==
    LET q == query[s] IN
    /\ At(s, {"pairs"}) /\ q.i < q.count - 1 /\ q.j >= LastPair(q.count, q.i)
    /\ Continue(s, [q EXCEPT !.i = @ + 1, !.j = 0])

Sorted(s) ==
    /\ At(s, {"pairs"}) /\ query[s].i >= query[s].count - 1
    /\ Continue(s, [query[s] EXCEPT !.at = "sorted"])

\* One turn of the first loop of get_most_invoked_syscall().
CountEntry(s) ==
    LET q == query[s]
        n == syscalls[q.p][Len(q.copied) + 1]
        counts == [q.counts EXCEPT ![n] = @ + 1] IN
    /\ At(s, {"count"}) /\ Len(q.copied) < q.count
    /\ Continue(s, [q EXCEPT !.copied = Append(@, n), !.counts = counts,
                             !.max_freq = Max({@, counts[n]})])

Counted(s) ==
    /\ At(s, {"count"}) /\ Len(query[s].copied) = query[s].count
    /\ Continue(s, [query[s] EXCEPT !.at = "counted"])

\* The numbers it prints.
MostInvoked(q) == {n \in DOMAIN q.counts : q.counts[n] = q.max_freq}

Report(s, n) == At(s, {"sorted", "counted"}) /\ Return(s, n)

Next ==
    \E s \in Slot :
      \/ \E n \in Number : Syscall(s, n) \/ NothingThere(s, n) \/ Report(s, n)
      \/ \E child \in Slot : Fork(s, child)
      \/ ExitAndReap(s)
      \/ \E n \in 0..MaxPid, at \in {"sort", "most"} : Ask(s, n, at)
      \/ ReadCount(s) \/ CopyEntry(s) \/ Sort(s) \/ ComparePair(s) \/ NextPass(s) \/ Sorted(s)
      \/ CountEntry(s) \/ Counted(s)

Spec == Init /\ [][Next]_vars

-----------------------------------------------------------------------------
(* Properties *)

\* The log as it was when the call read its length.
Entries(q) == SubSeq(syscalls[q.p], 1, q.count)
Occurrences(a, n) == Cardinality({i \in DOMAIN a : a[i] = n})

\* sort_syscalls() prints exactly the entries its process had when the length was
\* read, in order, although the process goes on making calls, may fill its log,
\* and may exit; only a new process in its slot disturbs it.
SortsTheLog ==
    \A s \in Slot : LET q == query[s] IN
        q.at = "sorted" /\ q.intact =>
            /\ \A i, j \in DOMAIN q.copied : i < j => q.copied[i] <= q.copied[j]
            /\ \A n \in Number : Occurrences(q.copied, n) = Occurrences(Entries(q), n)

\* get_most_invoked_syscall() prints the numbers that occur most often in the log,
\* under the same condition.
CountsTheLog ==
    \A s \in Slot : LET q == query[s] IN
        q.at = "counted" /\ q.intact =>
            MostInvoked(q) = {n \in Number : \A k \in Number :
                                Occurrences(Entries(q), k) <= Occurrences(Entries(q), n)}
=============================================================================
