------------------------------ MODULE MemTests ------------------------------
(***************************************************************************)
(* The tests of usertests.c about memory, run on the kernel of Memory.     *)
(* A test is a sequence of system calls and memory accesses, each with the *)
(* results it takes for right.  BIG and the loops are cut down.            *)
(***************************************************************************)
EXTENDS Memory, SequencesExt

CONSTANTS
    Tests,      \* the tests to run
    BIG,        \* a size that one process can have, and not two
    MaxCalls    \* bound of the test "anything": calls of all processes

VARIABLES
    script, pc, \* of each process: what it runs, and its next call
    called,     \* it has made that call
    pids,       \* the children it has forked and not waited for
    failed      \* a test has found something wrong

vars == <<mvars, script, pc, called, pids, failed>>

\* Calls.  A want of {} accepts everything; a child runs the script it is forked with.
SbrkOf(n) == [op |-> "sbrk", n |-> n]
LoadOf(a) == [op |-> "load", n |-> a]
StoreOf(a) == [op |-> "store", n |-> a]
FetchOf(a) == [op |-> "fetch", n |-> a]
ExecOf(args) == [op |-> "exec", n |-> args]
ForkOf(calls) == [op |-> "fork", child |-> calls]
WaitOf == [op |-> "wait"]
ExitOf == [op |-> "exit"]
KillNext == [op |-> "kill"]     \* kill(pids[i]), or skip the next call
Await == [op |-> "await"]       \* read() what the child writes when it gets to Sit
Sit == [op |-> "sit"]           \* for(;;) sleep(1000)
Oops == [op |-> "oops"]         \* what should not be reached

Do(c) == [call |-> c, want |-> {}]
Want(x, c) == [call |-> c, want |-> {x}]

Growing(n) == [i \in 1..n |-> Want(ImageSize + i - 1, SbrkOf(1))]
Downsize(a) == <<Want(a, SbrkOf(ImageSize - a))>>

-----------------------------------------------------------------------------
sbrktest_small ==
    Growing(3)
      \o <<Do(ForkOf(<<Want(ImageSize + 3, SbrkOf(1)), Want(ImageSize + 4, SbrkOf(1)),
                       Do(ExitOf)>>)),
           Want(ImageSize + 3, SbrkOf(1)), Want(ImageSize + 4, SbrkOf(1)), Do(WaitOf)>>
      \o Downsize(ImageSize + 5)

sbrktest_big ==
    <<Want(ImageSize, SbrkOf(BIG - ImageSize)), Do(StoreOf(BIG - 1)),
      Want(BIG, SbrkOf(-PGSIZE)), Want(BIG - PGSIZE, SbrkOf(0)),
      Want(BIG - PGSIZE, SbrkOf(PGSIZE)), Want(BIG, SbrkOf(0)),
      Want("zero", LoadOf(BIG - 1))>> \o Downsize(BIG)

sbrktest_kernel == <<Do(ForkOf(<<Do(LoadOf(KERNBASE)), Do(Oops)>>)), Do(WaitOf)>>

Grower == <<Do(SbrkOf(BIG - ImageSize)), Do(Sit)>>
sbrktest_full ==
    <<Do(ForkOf(Grower)), Do(Await), Do(ForkOf(Grower)), Do(Await),
      Want(ImageSize, SbrkOf(PGSIZE)),
      Do(KillNext), Do(WaitOf), Do(KillNext), Do(WaitOf)>> \o Downsize(ImageSize + PGSIZE)

validatetest ==
    <<Do(ForkOf(<<Want(OK, FetchOf(0)), Want(-1, FetchOf(ImageSize)), Do(ExitOf)>>)),
      Do(KillNext), Do(WaitOf), Want(-1, FetchOf(ImageSize))>>

bsstest == [i \in DOMAIN Image |-> IF Image[i] = "zero" THEN Want("zero", LoadOf((i - 1) * PGSIZE))
                                   ELSE Do(LoadOf((i - 1) * PGSIZE))]

bigargtest ==
    <<Do(ForkOf(<<Want(-1, ExecOf(2 * PGSIZE)), Want(ImageSize, SbrkOf(0)), Do(ExitOf)>>)),
      Do(WaitOf)>>

exectest == <<Do(ForkOf(<<Want(OK, ExecOf(1)), Do(ExitOf)>>)), Do(WaitOf)>>

\* The child takes memory until malloc() fails, and exits.
mem == <<Do(ForkOf(<<Do(SbrkOf(5)), Do(SbrkOf(5)), Do(SbrkOf(5)), Do(SbrkOf(5)), Do(ExitOf)>>)),
         Do(WaitOf)>>

forktest ==
    LET children == Cardinality(Slot) IN
    [i \in 1..children |-> Do(ForkOf(<<Do(ExitOf)>>))]
      \o [i \in 1..children |-> Do(WaitOf)] \o <<Want(-1, WaitOf)>>

\* Besides, processes that make any of these calls.  The first never frees itself.
Anything == <<[call |-> [op |-> "any"]]>>
AnyCall(p) ==
    {SbrkOf(n) : n \in {PGSIZE + 1, -1, -2 * PGSIZE, -BIG}}
      \cup {WaitOf, StoreOf(ImageSize), FetchOf(ImageSize - 1)}
      \cup (IF p = First THEN {ForkOf(<<>>), ExecOf(1)} ELSE {SbrkOf(-ImageSize), ExitOf})

Test == [sbrktest_small |-> sbrktest_small, sbrktest_big |-> sbrktest_big,
         sbrktest_kernel |-> sbrktest_kernel, sbrktest_full |-> sbrktest_full,
         validatetest |-> validatetest, bsstest |-> bsstest, bigargtest |-> bigargtest,
         exectest |-> exectest, mem |-> mem, forktest |-> forktest, anything |-> Anything]

-----------------------------------------------------------------------------
TestInit ==
    /\ Init
    /\ \E t \in Tests : script = [p \in Slot |-> Test[t]]
    /\ pc = [p \in Slot |-> 1]
    /\ called = [p \in Slot |-> FALSE]
    /\ pids = [p \in Slot |-> <<>>]
    /\ failed = FALSE

Random(p) == script[p] = Anything

CallsMade == SumFunction(pc) + Cardinality({p \in Slot : called[p]}) - Cardinality(Slot)

\* The calls p may make now.
Calls(p) ==
    IF ~InUser(p) \/ ~CanRun(p) \/ called[p] \/ proc[p].killed \/ failed \/ panicked THEN {}
    ELSE IF Random(p) THEN (IF CallsMade < MaxCalls THEN AnyCall(p) ELSE {})
    ELSE {script[p][i].call : i \in {pc[p]} \cap DOMAIN script[p]}

Sitting(p) == ~Random(p) /\ pc[p] <= Len(script[p]) /\ script[p][pc[p]].call = Sit

Called(p) == called' = [called EXCEPT ![p] = TRUE] /\ UNCHANGED <<script, pids, failed>>
ToNext(p, n) == pc' = [pc EXCEPT ![p] = @ + n]

Call(p, c) ==
    /\ \/ c.op = "sbrk" /\ Sbrk(p, c.n) /\ ToNext(p, 0) /\ Called(p)
       \/ c.op = "load" /\ Load(p, c.n) /\ ToNext(p, 0) /\ Called(p)
       \/ c.op = "store" /\ Store(p, c.n, "own") /\ ToNext(p, 0) /\ Called(p)
       \/ c.op = "fetch" /\ Fetch(p, c.n) /\ ToNext(p, 0) /\ Called(p)
       \/ c.op = "exec" /\ Exec(p, c.n) /\ ToNext(p, 0) /\ Called(p)
       \/ c.op = "wait" /\ Wait(p) /\ ToNext(p, 0) /\ Called(p)
       \/ c.op = "exit" /\ Exit(p) /\ ToNext(p, 0) /\ Called(p)
       \/ c.op = "fork" /\ Fork(p) /\ ToNext(p, 0) /\ Called(p)
       \/ /\ c.op = "kill" /\ pids[p] # <<>>
          /\ Kill(p, Head(pids[p])) /\ ToNext(p, 0) /\ Called(p)
       \/ /\ c.op = "kill" /\ pids[p] = <<>>
          /\ ToNext(p, 2) /\ UNCHANGED <<mvars, script, called, pids, failed>>
       \/ /\ c.op = "await" /\ (proc[p].ret = -1 \/ Sitting(Last(pids[p])))
          /\ ToNext(p, 1) /\ UNCHANGED <<mvars, script, called, pids, failed>>
       \/ /\ c.op = "oops" /\ failed' = TRUE
          /\ UNCHANGED <<mvars, script, pc, called, pids>>

\* The call has returned.  A new child starts its script.
Returned(p) ==
    LET instr == IF Random(p) THEN Do(WaitOf) ELSE script[p][pc[p]]
        ret == proc[p].ret
        forked == ~Random(p) /\ instr.call.op = "fork" /\ ret # -1 IN
    /\ InUser(p) /\ called[p]
    /\ ToNext(p, 1)
    /\ called' = [called EXCEPT ![p] = FALSE]
    /\ pids' = [pids EXCEPT ![p] = IF forked THEN Append(@, ret)
                                   ELSE IF instr.call.op = "wait"
                                   THEN SelectSeq(@, LAMBDA q : q # ret)
                                   ELSE @]
    /\ failed' = (instr.want # {} /\ ret \notin instr.want)
    /\ UNCHANGED <<mvars, script>>

\* Forked() gives the child its script before it runs.
Kernel(p) ==
    /\ InKernel(p)
    /\ LET child == job[p].child
           born == child # NoSlot /\ proc[child].state = "EMBRYO"
                     /\ proc'[child].state = "user" IN
       IF born
       THEN /\ script' = [script EXCEPT ![child] = IF Random(p) THEN Anything
                                                   ELSE script[p][pc[p]].call.child]
            /\ pc' = [pc EXCEPT ![child] = IF Random(p) THEN @ ELSE 1]
            /\ called' = [called EXCEPT ![child] = FALSE]
            /\ pids' = [pids EXCEPT ![child] = <<>>]
       ELSE UNCHANGED <<script, pc, called, pids>>
    /\ UNCHANGED failed

\* A process that has been killed, or whose code is gone.
Dies(p) ==
    /\ InUser(p) /\ (proc[p].killed \/ ~CanRun(p))
    /\ Exit(p)
    /\ UNCHANGED <<script, pc, called, pids, failed>>

TestNext ==
    \E p \in Slot :
      \/ \E c \in Calls(p) : Call(p, c)
      \/ Returned(p) \/ Kernel(p) \/ Dies(p)

Spec == TestInit /\ [][TestNext]_vars

-----------------------------------------------------------------------------
(* Property *)

\* No test of usertests.c finds fault with the kernel; in sbrktest, a process can
\* still grow after others have failed to and kept what they had before.
MemTestsPass == ~failed
=============================================================================
