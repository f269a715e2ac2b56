----------------------------- MODULE ProcProofs -----------------------------
(***************************************************************************)
(* Proofs about Proc, for every NPROC, every set of CPUs and every set of  *)
(* kill() arguments: ProcInv is inductive, and the safety properties of    *)
(* the process table follow from it.                                       *)
(***************************************************************************)
EXTENDS Proc, TLAPS

\* The null pointer is no slot, and initproc is one.
LEMMA SlotFacts == Nil \notin Slots /\ initproc \in Slots
BY SlotsAssumption DEF Slots, Nil, initproc

\* The loop variable of scheduler() stays within the table and its end.
LEMMA ScanRange ==
    /\ Nil \in 0..(NPROC + 1) /\ 1 \in 0..(NPROC + 1) /\ 1 # Nil
    /\ \A p \in Slots : p \in 0..(NPROC + 1) /\ p + 1 \in 0..(NPROC + 1) /\ p + 1 # Nil
BY SlotsAssumption DEF Slots, Nil

\* What the type invariant says of the pointers of the process table.
LEMMA Pointers ==
    ASSUME TypeOK
    PROVE  /\ \A p \in Slots : parent[p] # Nil => parent[p] \in Slots
           /\ \A p \in Slots : np[p] # Nil => np[p] \in Slots
BY DEF TypeOK

\* The state userinit() and mpmain() leave satisfies the invariant.
LEMMA InitInv == Init => ProcInv
<1> SUFFICES ASSUME Init PROVE ProcInv
    OBVIOUS
<1> USE SlotFacts, CpuAssumption DEF Init
<1>1. TypeOK
    BY ScanRange DEF TypeOK, States, Places, Contexts, Nil
<1>2. LockDiscipline
    BY DEF LockDiscipline
<1>3. StackDiscipline
    BY DEF StackDiscipline, Nil
<1>4. ForkDiscipline
    BY DEF ForkDiscipline
<1>5. FamilyTree
    BY DEF FamilyTree, Alive
<1>6. PidsInOrder
    BY DEF PidsInOrder, UniquePid
<1>7. NoLostWakeup
    BY DEF NoLostWakeup
<1> QED
    BY <1>1, <1>2, <1>3, <1>4, <1>5, <1>6, <1>7 DEF ProcInv

-----------------------------------------------------------------------------
(* The scheduler *)

\* A CPU that takes ptable.lock to scan the table (scheduler) keeps the invariant.
LEMMA SchedAcquireKeeps ==
    ASSUME ProcInv, NEW c \in Cpu, SchedAcquire(c) PROVE ProcInv'
<1> USE SlotFacts, CpuAssumption DEF ProcInv, SchedAcquire, LockFree, UNCHANGED_table
<1>1. TypeOK'
    BY ScanRange DEF TypeOK
<1>2. LockDiscipline'
    BY ScanRange DEF LockDiscipline, TypeOK, Nil
<1>3. StackDiscipline'
    BY DEF StackDiscipline, OnCpu
<1>4. ForkDiscipline'
    BY DEF ForkDiscipline
<1>5. FamilyTree'
    BY DEF FamilyTree
<1>6. PidsInOrder'
    BY DEF PidsInOrder, UniquePid
<1>7. NoLostWakeup'
    BY DEF NoLostWakeup, Children, Zombies
<1> QED
    BY <1>1, <1>2, <1>3, <1>4, <1>5, <1>6, <1>7

\* Picking a RUNNABLE process and swtch()ing to it (scheduler) keeps the invariant.
LEMMA DispatchKeeps ==
    ASSUME ProcInv, NEW c \in Cpu, Dispatch(c) PROVE ProcInv'
<1> USE SlotFacts, CpuAssumption DEF ProcInv, UNCHANGED_table, Ahead, IsFirst
<1> PICK p \in Slots : /\ cpuproc[c] = Nil /\ scan[c] # Nil
                       /\ state[p] = "RUNNABLE"
                       /\ cpuproc' = [cpuproc EXCEPT ![c] = p]
                       /\ scan'    = [scan EXCEPT ![c] = p]
                       /\ state'   = [state EXCEPT ![p] = "RUNNING"]
                       /\ UNCHANGED <<chan, ptableLock, pc, context>> /\ UNCHANGED_table
    BY DEF Dispatch
<1>0. \A d \in Cpu : cpuproc[d] # p
    BY DEF LockDiscipline, StackDiscipline, TypeOK
<1>1. TypeOK'
    BY ScanRange DEF TypeOK, States
<1>2. LockDiscipline'
    BY ScanRange, <1>0 DEF LockDiscipline, StackDiscipline, TypeOK
<1>3. StackDiscipline'
    BY <1>0 DEF StackDiscipline, OnCpu, TypeOK
<1>4. ForkDiscipline'
    BY DEF ForkDiscipline, TypeOK, Alive
<1>5. FamilyTree'
    BY DEF FamilyTree, TypeOK, Alive
<1>6. PidsInOrder'
    BY DEF PidsInOrder, UniquePid
<1>7. NoLostWakeup'
    BY DEF NoLostWakeup, Children, Zombies, TypeOK
<1> QED
    BY <1>1, <1>2, <1>3, <1>4, <1>5, <1>6, <1>7

\* Ending the scan and releasing ptable.lock (scheduler) keeps the invariant.
LEMMA SchedReleaseKeeps ==
    ASSUME ProcInv, NEW c \in Cpu, SchedRelease(c) PROVE ProcInv'
<1> USE SlotFacts, CpuAssumption DEF ProcInv, SchedRelease, UNCHANGED_table
<1>1. TypeOK'
    BY ScanRange DEF TypeOK, Nil
<1>2. LockDiscipline'
    BY ScanRange DEF LockDiscipline, TypeOK
<1>3. StackDiscipline'
    BY DEF StackDiscipline, OnCpu
<1>4. ForkDiscipline'
    BY DEF ForkDiscipline
<1>5. FamilyTree'
    BY DEF FamilyTree
<1>6. PidsInOrder'
    BY DEF PidsInOrder, UniquePid
<1>7. NoLostWakeup'
    BY DEF NoLostWakeup, Children, Zombies
<1> QED
    BY <1>1, <1>2, <1>3, <1>4, <1>5, <1>6, <1>7

\* The swtch() of sched() back into the scheduler, lock held, keeps the invariant.
LEMMA SwtchKeeps ==
    ASSUME ProcInv, NEW c \in Cpu, NEW p \in Slots, Swtch(c, p) PROVE ProcInv'
<1> USE SlotFacts, CpuAssumption DEF ProcInv, Swtch, UNCHANGED_table, Following
<1>1. TypeOK'
    BY ScanRange DEF TypeOK, LockDiscipline
<1>2. LockDiscipline'
    BY ScanRange DEF LockDiscipline, StackDiscipline, TypeOK
<1>3. StackDiscipline'
    BY DEF StackDiscipline, OnCpu, TypeOK
<1>4. ForkDiscipline'
    BY DEF ForkDiscipline, TypeOK, Alive
<1>5. FamilyTree'
    BY DEF FamilyTree, TypeOK, Alive
<1>6. PidsInOrder'
    BY DEF PidsInOrder, UniquePid, TypeOK
<1>7. NoLostWakeup'
    BY DEF NoLostWakeup, Children, Zombies, TypeOK
<1> QED
    BY <1>1, <1>2, <1>3, <1>4, <1>5, <1>6, <1>7

\* Coming back from sched() in yield(), sleep() or forkret() keeps the invariant.
LEMMA ResumeKeeps ==
    ASSUME ProcInv, NEW c \in Cpu, NEW p \in Slots, Resume(c, p) PROVE ProcInv'
<1> USE SlotFacts, CpuAssumption DEF ProcInv, Resume, Goto, UNCHANGED_table
<1>1. TypeOK'
    BY ScanRange DEF TypeOK, Contexts, Places, Nil
<1>2. LockDiscipline'
    BY DEF LockDiscipline, StackDiscipline, TypeOK
<1>3. StackDiscipline'
    BY DEF StackDiscipline, OnCpu, TypeOK
<1>4. ForkDiscipline'
    BY DEF ForkDiscipline, TypeOK, Alive, StackDiscipline
<1>5. FamilyTree'
    BY DEF FamilyTree, TypeOK, Alive
<1>6. PidsInOrder'
    BY DEF PidsInOrder, UniquePid, TypeOK
<1>7. NoLostWakeup'
    BY DEF NoLostWakeup, Children, Zombies, TypeOK
<1> QED
    BY <1>1, <1>2, <1>3, <1>4, <1>5, <1>6, <1>7

-----------------------------------------------------------------------------
(* trap() *)

\* A timer interrupt (trap), with its yield() or exit(), keeps the invariant.
LEMMA TimerKeeps ==
    ASSUME ProcInv, NEW c \in Cpu, NEW p \in Slots, Timer(c, p) PROVE ProcInv'
<1> USE SlotFacts, CpuAssumption DEF ProcInv, Timer, EnterSched, LockFree, Runs, Goto, UNCHANGED_table
<1>1. TypeOK'
    BY ScanRange DEF TypeOK, States, Contexts, Places
<1>2. LockDiscipline'
    BY DEF LockDiscipline, StackDiscipline, TypeOK
<1>3. StackDiscipline'
    BY DEF StackDiscipline, OnCpu, TypeOK
<1>4. ForkDiscipline'
    BY DEF ForkDiscipline, TypeOK, Alive
<1>5. FamilyTree'
    BY DEF FamilyTree, TypeOK, Alive
<1>6. PidsInOrder'
    BY DEF PidsInOrder, UniquePid, TypeOK
<1>7. NoLostWakeup'
    BY DEF NoLostWakeup, Children, Zombies, TypeOK
<1> QED
    BY <1>1, <1>2, <1>3, <1>4, <1>5, <1>6, <1>7

\* A fault in user mode (trap), which marks its process killed, keeps the invariant.
LEMMA FaultKeeps ==
    ASSUME ProcInv, NEW c \in Cpu, NEW p \in Slots, Fault(c, p) PROVE ProcInv'
<1> USE SlotFacts, CpuAssumption DEF ProcInv, Fault, Runs, Goto, UNCHANGED_table
<1>1. TypeOK'
    BY ScanRange DEF TypeOK, Places
<1>2. LockDiscipline'
    BY DEF LockDiscipline, StackDiscipline, TypeOK
<1>3. StackDiscipline'
    BY DEF StackDiscipline, OnCpu, TypeOK
<1>4. ForkDiscipline'
    BY DEF ForkDiscipline, TypeOK, Alive
<1>5. FamilyTree'
    BY DEF FamilyTree, TypeOK, Alive
<1>6. PidsInOrder'
    BY DEF PidsInOrder, UniquePid, TypeOK
<1>7. NoLostWakeup'
    BY DEF NoLostWakeup, Children, Zombies, TypeOK
<1> QED
    BY <1>1, <1>2, <1>3, <1>4, <1>5, <1>6, <1>7

\* Entering a system call (trap), whatever the call, keeps the invariant.
LEMMA SyscallEntryKeeps ==
    ASSUME ProcInv, NEW c \in Cpu, NEW p \in Slots, SyscallEntry(c, p) PROVE ProcInv'
<1> USE SlotFacts, CpuAssumption DEF ProcInv, SyscallEntry, MayCall, Runs, Goto, UNCHANGED_table
<1>1. TypeOK'
    BY ScanRange DEF TypeOK, Places
<1>2. LockDiscipline'
    BY DEF LockDiscipline, StackDiscipline, TypeOK
<1>3. StackDiscipline'
    BY DEF StackDiscipline, OnCpu, TypeOK
<1>4. ForkDiscipline'
    BY DEF ForkDiscipline, TypeOK, Alive
<1>5. FamilyTree'
    BY DEF FamilyTree, TypeOK, Alive
<1>6. PidsInOrder'
    BY DEF PidsInOrder, UniquePid, TypeOK
<1>7. NoLostWakeup'
    BY DEF NoLostWakeup, Children, Zombies, TypeOK
<1> QED
    BY <1>1, <1>2, <1>3, <1>4, <1>5, <1>6, <1>7

\* The test of killed on the way back to user mode (trap) keeps the invariant.
LEMMA ReturnToUserKeeps ==
    ASSUME ProcInv, NEW c \in Cpu, NEW p \in Slots, ReturnToUser(c, p) PROVE ProcInv'
<1> USE SlotFacts, CpuAssumption DEF ProcInv, ReturnToUser, Runs, Goto, UNCHANGED_table
<1>1. TypeOK'
    BY ScanRange DEF TypeOK, Places
<1>2. LockDiscipline'
    BY DEF LockDiscipline, StackDiscipline, TypeOK
<1>3. StackDiscipline'
    BY DEF StackDiscipline, OnCpu, TypeOK
<1>4. ForkDiscipline'
    BY DEF ForkDiscipline, TypeOK, Alive
<1>5. FamilyTree'
    BY DEF FamilyTree, TypeOK, Alive
<1>6. PidsInOrder'
    BY DEF PidsInOrder, UniquePid, TypeOK
<1>7. NoLostWakeup'
    BY DEF NoLostWakeup, Children, Zombies, TypeOK
<1> QED
    BY <1>1, <1>2, <1>3, <1>4, <1>5, <1>6, <1>7

-----------------------------------------------------------------------------
(* fork() *)

\* allocproc() taking the first UNUSED slot and a pid, or none, keeps the invariant.
LEMMA AllocProcKeeps ==
    ASSUME ProcInv, NEW c \in Cpu, NEW p \in Slots, AllocProc(c, p) PROVE ProcInv'
<1> USE SlotFacts, CpuAssumption DEF ProcInv, AllocProc, IsFirst, Unused, TakePid, LockFree, Runs, Goto, UNCHANGED_table
<1>1. TypeOK'
    BY ScanRange DEF TypeOK, Places, States, Nil
<1>2. LockDiscipline'
    BY DEF LockDiscipline, StackDiscipline, TypeOK
<1>3. StackDiscipline'
    BY DEF StackDiscipline, OnCpu, TypeOK
<1>4. ForkDiscipline'
  <2>1. CASE Unused = {}
    BY <2>1 DEF ForkDiscipline, TypeOK, Alive
  <2>2. CASE Unused # {}
    <3>1. PICK n \in Slots : /\ state[n] = "UNUSED"
                             /\ state' = [state EXCEPT ![n] = "EMBRYO"]
                             /\ np' = [np EXCEPT ![p] = n]
                             /\ pc' = [pc EXCEPT ![p] = "embryo"]
      BY <2>2
    <3>2. /\ n # p /\ n # Nil /\ pc[n] = "user" /\ parent[n] = Nil
          /\ state[p] = "RUNNING" /\ np[p] = Nil
          /\ \A q \in Slots : np[q] # n
      BY <3>1 DEF ForkDiscipline, FamilyTree
    <3> QED
      BY <3>1, <3>2 DEF ForkDiscipline, TypeOK, Alive
  <2> QED
    BY <2>1, <2>2
<1>5. FamilyTree'
    BY DEF FamilyTree, TypeOK, Alive
<1>6. PidsInOrder'
    BY DEF PidsInOrder, UniquePid, TypeOK
<1>7. NoLostWakeup'
    BY DEF NoLostWakeup, Children, Zombies, TypeOK
<1> QED
    BY <1>1, <1>2, <1>3, <1>4, <1>5, <1>6, <1>7

\* The unlocked store that gives a slot back in fork() keeps the invariant.
LEMMA ForkFailKeeps ==
    ASSUME ProcInv, NEW c \in Cpu, NEW p \in Slots, ForkFail(c, p) PROVE ProcInv'
<1> USE SlotFacts, CpuAssumption DEF ProcInv, ForkFail, Runs, Goto, UNCHANGED_table
<1>0. PICK n \in Slots : /\ n = np[p] /\ n # p
                         /\ state[n] = "EMBRYO" /\ pc[n] = "user"
                         /\ parent[n] = Nil
    BY Pointers DEF ForkDiscipline
<1>1. TypeOK'
    BY ScanRange, <1>0 DEF TypeOK, Places, States, Nil
<1>2. LockDiscipline'
    BY <1>0 DEF LockDiscipline, StackDiscipline, TypeOK
<1>3. StackDiscipline'
    BY <1>0 DEF StackDiscipline, OnCpu, TypeOK
<1>4. ForkDiscipline'
    BY <1>0 DEF ForkDiscipline, TypeOK, Alive
<1>5. FamilyTree'
    BY <1>0 DEF FamilyTree, TypeOK, Alive
<1>6. PidsInOrder'
    BY <1>0 DEF PidsInOrder, UniquePid, TypeOK
<1>7. NoLostWakeup'
    BY <1>0 DEF NoLostWakeup, Children, Zombies, TypeOK
<1> QED
    BY <1>1, <1>2, <1>3, <1>4, <1>5, <1>6, <1>7

\* fork() giving the slot it builds a context and a parent keeps the invariant.
LEMMA ForkCopyKeeps ==
    ASSUME ProcInv, NEW c \in Cpu, NEW p \in Slots, ForkCopy(c, p) PROVE ProcInv'
<1> USE SlotFacts, CpuAssumption DEF ProcInv, ForkCopy, Runs, Goto, UNCHANGED_table
<1>0. PICK n \in Slots : /\ n = np[p] /\ n # p
                         /\ state[n] = "EMBRYO" /\ pc[n] = "user"
                         /\ parent[n] = Nil
    BY Pointers DEF ForkDiscipline
<1>1. TypeOK'
    BY ScanRange, <1>0 DEF TypeOK, Places, Contexts
<1>2. LockDiscipline'
    BY <1>0 DEF LockDiscipline, StackDiscipline, TypeOK
<1>3. StackDiscipline'
    BY <1>0 DEF StackDiscipline, OnCpu, TypeOK
<1>4. ForkDiscipline'
    BY <1>0 DEF ForkDiscipline, TypeOK, Alive
<1>5. FamilyTree'
    BY <1>0 DEF FamilyTree, TypeOK, Alive
<1>6. PidsInOrder'
    BY <1>0 DEF PidsInOrder, UniquePid, TypeOK
<1>7. NoLostWakeup'
    BY <1>0 DEF NoLostWakeup, Children, Zombies, TypeOK
<1> QED
    BY <1>1, <1>2, <1>3, <1>4, <1>5, <1>6, <1>7

\* fork() making its child RUNNABLE keeps the invariant.
LEMMA ForkPublishKeeps ==
    ASSUME ProcInv, NEW c \in Cpu, NEW p \in Slots, ForkPublish(c, p) PROVE ProcInv'
<1> USE SlotFacts, CpuAssumption DEF ProcInv, ForkPublish, LockFree, Runs, Goto, UNCHANGED_table
<1>0. PICK n \in Slots : /\ n = np[p] /\ n # p
                         /\ state[n] = "EMBRYO" /\ pc[n] = "user"
                         /\ context[n] = "forkret" /\ parent[n] = p
    BY Pointers DEF ForkDiscipline
<1>1. TypeOK'
    BY ScanRange, <1>0 DEF TypeOK, Places, States, Nil
<1>2. LockDiscipline'
    BY <1>0 DEF LockDiscipline, StackDiscipline, TypeOK
<1>3. StackDiscipline'
    BY <1>0 DEF StackDiscipline, OnCpu, TypeOK
<1>4. ForkDiscipline'
    BY <1>0 DEF ForkDiscipline, TypeOK, Alive
<1>5. FamilyTree'
    BY <1>0 DEF FamilyTree, TypeOK, Alive
<1>6. PidsInOrder'
    BY <1>0 DEF PidsInOrder, UniquePid, TypeOK
<1>7. NoLostWakeup'
    BY <1>0 DEF NoLostWakeup, Children, Zombies, TypeOK
<1> QED
    BY <1>1, <1>2, <1>3, <1>4, <1>5, <1>6, <1>7

-----------------------------------------------------------------------------
(* exit(), wait() and kill() *)

\* The panic of exit() called by initproc keeps the invariant.
LEMMA ExitInitKeeps ==
    ASSUME ProcInv, NEW c \in Cpu, NEW p \in Slots, ExitInit(c, p) PROVE ProcInv'
<1> USE SlotFacts, CpuAssumption DEF ProcInv, ExitInit, Runs, Goto, UNCHANGED_table
<1>1. TypeOK'
    BY ScanRange DEF TypeOK, Places
<1>2. LockDiscipline'
    BY DEF LockDiscipline, StackDiscipline, TypeOK
<1>3. StackDiscipline'
    BY DEF StackDiscipline, OnCpu, TypeOK
<1>4. ForkDiscipline'
    BY DEF ForkDiscipline, TypeOK, Alive
<1>5. FamilyTree'
    BY DEF FamilyTree, TypeOK, Alive
<1>6. PidsInOrder'
    BY DEF PidsInOrder, UniquePid, TypeOK
<1>7. NoLostWakeup'
    BY DEF NoLostWakeup, Children, Zombies, TypeOK
<1> QED
    BY <1>1, <1>2, <1>3, <1>4, <1>5, <1>6, <1>7

\* exit(), which wakes the parent, reparents and becomes a ZOMBIE, keeps the invariant.
LEMMA ExitKeeps ==
    ASSUME ProcInv, NEW c \in Cpu, NEW p \in Slots, Exit(c, p) PROVE ProcInv'
<1> USE SlotFacts, CpuAssumption DEF ProcInv, Exit, AfterExit, Reparented, Wakeup1, EnterSched, LockFree, Runs, Goto, UNCHANGED_table
<1>1. TypeOK'
    BY ScanRange DEF TypeOK, States, Contexts
<1>2. LockDiscipline'
    BY DEF LockDiscipline, StackDiscipline, TypeOK
<1>3. StackDiscipline'
    BY DEF StackDiscipline, OnCpu, TypeOK
<1>4. ForkDiscipline'
    BY DEF ForkDiscipline, TypeOK, Alive
<1>5. FamilyTree'
    BY DEF FamilyTree, TypeOK, Alive, Children
<1>6. PidsInOrder'
    BY DEF PidsInOrder, UniquePid, TypeOK
<1>7. NoLostWakeup'
  <2> SUFFICES ASSUME NEW s \in Slots, state'[s] = "SLEEPING"
               PROVE  /\ chan'[s] = s
                      /\ Children(s)' # {} /\ Zombies(s)' = {}
                      /\ ~killed'[s]
    BY DEF NoLostWakeup
  <2>1. /\ s # p /\ state[s] = "SLEEPING" /\ chan[s] # parent[p]
        /\ (\E q \in Children(p) : state[q] = "ZOMBIE") => chan[s] # initproc
    BY DEF TypeOK
  <2>2. chan[s] = s /\ Children(s) # {} /\ Zombies(s) = {} /\ ~killed[s]
    BY <2>1 DEF NoLostWakeup
  <2>3. Children(s)' # {}
    BY <2>1, <2>2 DEF Children
  <2>4. ASSUME NEW z \in Slots, parent'[z] = s, state'[z] = "ZOMBIE" PROVE FALSE
    <3>1. CASE z = p
      BY <2>1, <2>2, <2>4, <3>1 DEF FamilyTree
    <3>2. CASE z # p
      <4>1. state[z] = "ZOMBIE"
        BY <2>4, <3>2 DEF TypeOK
      <4>2. parent[z] # s
        BY <2>2, <4>1 DEF Zombies, Children
      <4>3. parent[z] = p /\ s = initproc
        BY <2>4, <4>2
      <4> QED
        BY <2>1, <2>2, <4>1, <4>3 DEF Children
    <3> QED
      BY <3>1, <3>2
  <2>5. Zombies(s)' = {}
    BY <2>4 DEF Zombies, Children
  <2> QED
    BY <2>2, <2>3, <2>5
<1> QED
    BY <1>1, <1>2, <1>3, <1>4, <1>5, <1>6, <1>7

\* wait() clearing the slot of a ZOMBIE child keeps the invariant.
LEMMA WaitReapKeeps ==
    ASSUME ProcInv, NEW c \in Cpu, NEW p \in Slots, WaitReap(c, p) PROVE ProcInv'
<1> USE SlotFacts, CpuAssumption DEF ProcInv, WaitReap, InWait, IsFirst, Zombies, Children, LockFree, Runs, Goto, UNCHANGED_table
<1>1. TypeOK'
    BY ScanRange DEF TypeOK, States, Contexts, Places, Nil
<1>2. LockDiscipline'
    BY DEF LockDiscipline, StackDiscipline, TypeOK
<1>3. StackDiscipline'
    BY DEF StackDiscipline, OnCpu, TypeOK, LockDiscipline
<1>4. ForkDiscipline'
    BY DEF ForkDiscipline, TypeOK, Alive
<1>5. FamilyTree'
    BY DEF FamilyTree, TypeOK, Alive
<1>6. PidsInOrder'
    BY DEF PidsInOrder, UniquePid, TypeOK
<1>7. NoLostWakeup'
    BY DEF NoLostWakeup, Children, Zombies, TypeOK
<1> QED
    BY <1>1, <1>2, <1>3, <1>4, <1>5, <1>6, <1>7

\* wait() returning -1 keeps the invariant.
LEMMA WaitFailKeeps ==
    ASSUME ProcInv, NEW c \in Cpu, NEW p \in Slots, WaitFail(c, p) PROVE ProcInv'
<1> USE SlotFacts, CpuAssumption DEF ProcInv, WaitFail, InWait, LockFree, Runs, Goto, UNCHANGED_table
<1>1. TypeOK'
    BY ScanRange DEF TypeOK, Places
<1>2. LockDiscipline'
    BY DEF LockDiscipline, StackDiscipline, TypeOK
<1>3. StackDiscipline'
    BY DEF StackDiscipline, OnCpu, TypeOK
<1>4. ForkDiscipline'
    BY DEF ForkDiscipline, TypeOK, Alive
<1>5. FamilyTree'
    BY DEF FamilyTree, TypeOK, Alive
<1>6. PidsInOrder'
    BY DEF PidsInOrder, UniquePid, TypeOK
<1>7. NoLostWakeup'
    BY DEF NoLostWakeup, Children, Zombies, TypeOK
<1> QED
    BY <1>1, <1>2, <1>3, <1>4, <1>5, <1>6, <1>7

\* wait() going to sleep on its own slot keeps the invariant.
LEMMA WaitSleepKeeps ==
    ASSUME ProcInv, NEW c \in Cpu, NEW p \in Slots, WaitSleep(c, p) PROVE ProcInv'
<1> USE SlotFacts, CpuAssumption DEF ProcInv, WaitSleep, InWait, EnterSched, LockFree, Runs, Goto, UNCHANGED_table
<1>1. TypeOK'
    BY ScanRange DEF TypeOK, States, Contexts
<1>2. LockDiscipline'
    BY DEF LockDiscipline, StackDiscipline, TypeOK
<1>3. StackDiscipline'
    BY DEF StackDiscipline, OnCpu, TypeOK
<1>4. ForkDiscipline'
    BY DEF ForkDiscipline, TypeOK, Alive
<1>5. FamilyTree'
    BY DEF FamilyTree, TypeOK, Alive
<1>6. PidsInOrder'
    BY DEF PidsInOrder, UniquePid, TypeOK
<1>7. NoLostWakeup'
    BY DEF NoLostWakeup, Children, Zombies, TypeOK
<1> QED
    BY <1>1, <1>2, <1>3, <1>4, <1>5, <1>6, <1>7

\* kill(), with its wakeup of a sleeper, keeps the invariant.
LEMMA KillKeeps ==
    ASSUME ProcInv, NEW c \in Cpu, NEW p \in Slots, Kill(c, p) PROVE ProcInv'
<1> USE SlotFacts, CpuAssumption DEF ProcInv, Kill, IsFirst, Marked, LockFree, Runs, Goto, UNCHANGED_table
<1>1. TypeOK'
    <2>1. killed' \in [Slots -> BOOLEAN] /\ state' \in [Slots -> States]
        BY DEF TypeOK, States
    <2>2. pc' \in [Slots -> Places]
        BY DEF TypeOK, Places
    <2> QED
        BY <2>1, <2>2, ScanRange DEF TypeOK
<1>2. LockDiscipline'
    BY DEF LockDiscipline, StackDiscipline, TypeOK
<1>3. StackDiscipline'
    BY DEF StackDiscipline, OnCpu, TypeOK
<1>4. ForkDiscipline'
    BY DEF ForkDiscipline, TypeOK, Alive
<1>5. FamilyTree'
    BY DEF FamilyTree, TypeOK, Alive
<1>6. PidsInOrder'
    BY DEF PidsInOrder, UniquePid, TypeOK
<1>7. NoLostWakeup'
    BY DEF NoLostWakeup, Children, Zombies, TypeOK
<1> QED
    BY <1>1, <1>2, <1>3, <1>4, <1>5, <1>6, <1>7

-----------------------------------------------------------------------------
(* The theorems *)

\* No step leaves the invariant.
LEMMA NextInv == ProcInv /\ [Next]_vars => ProcInv'
<1> SUFFICES ASSUME ProcInv, [Next]_vars PROVE ProcInv'
    OBVIOUS
<1>1. CASE UNCHANGED vars
    BY <1>1 DEF vars, ProcInv, TypeOK, LockDiscipline, StackDiscipline, OnCpu,
       ForkDiscipline, FamilyTree, PidsInOrder, UniquePid, NoLostWakeup, Children,
       Zombies
<1>2. ASSUME NEW c \in Cpu, SchedStep(c) PROVE ProcInv'
    BY <1>2, SchedAcquireKeeps, DispatchKeeps, SchedReleaseKeeps, SwtchKeeps,
       ResumeKeeps DEF SchedStep
<1>3. ASSUME NEW c \in Cpu, NEW p \in Slots, ProcStep(c, p) PROVE ProcInv'
    <2>1. CASE KernelStep(c, p)
        BY <2>1, ReturnToUserKeeps, AllocProcKeeps, ForkFailKeeps, ForkCopyKeeps,
           ForkPublishKeeps, ExitInitKeeps, ExitKeeps, WaitReapKeeps, WaitFailKeeps,
           WaitSleepKeeps, KillKeeps DEF KernelStep
    <2>2. CASE PanicSpin(c, p)
        BY <2>2, <1>1 DEF PanicSpin
    <2> QED
        BY <1>3, <2>1, <2>2, TimerKeeps, FaultKeeps, SyscallEntryKeeps DEF ProcStep
<1> QED
    BY <1>1, <1>2, <1>3 DEF Next

\* The inductive invariant holds in every reachable state of the process table.
THEOREM ProcInvariant == Spec => []ProcInv
<1> QED
    BY InitInv, NextInv, PTL DEF Spec

\* Every variable keeps its type, for every table size, CPU set and kill().
THEOREM ProcTypes == Spec => []TypeOK
<1>1. ProcInv => TypeOK
    BY DEF ProcInv
<1> QED
    BY <1>1, ProcInvariant, PTL

\* Never two CPUs on one kernel stack; never a free, unfinished or reapable
\* slot on a CPU: the hand-off of ptable.lock across swtch() is sound.
THEOREM StacksAreExclusive == Spec => []OneStackOneCpu
<1>1. ProcInv => OneStackOneCpu
    BY SlotFacts DEF ProcInv, OneStackOneCpu, StackDiscipline, LockDiscipline, OnCpu,
       TypeOK
<1> QED
    BY <1>1, ProcInvariant, PTL

\* exit() leaves no process and no ZOMBIE without a parent that can wait().
THEOREM NobodyIsAbandoned == Spec => []NoOrphan
<1>1. ProcInv => NoOrphan
    BY DEF ProcInv, NoOrphan, FamilyTree
<1> QED
    BY <1>1, ProcInvariant, PTL

\* wait() never sleeps through the exit of a child or a kill().
THEOREM WaitMissesNothing == Spec => []NoLostWakeup
<1>1. ProcInv => NoLostWakeup
    BY DEF ProcInv
<1> QED
    BY <1>1, ProcInvariant, PTL

\* Two fork()s never build the same slot, and nobody else uses it meanwhile.
THEOREM ForksAreExclusive == Spec => []EmbryoOwned
<1>1. ProcInv => EmbryoOwned
    BY SlotFacts DEF ProcInv, EmbryoOwned, ForkDiscipline
<1> QED
    BY <1>1, ProcInvariant, PTL

\* A pid names at most one slot, stale pids of failed fork()s included.
THEOREM PidsAreUnique == Spec => []UniquePid
<1>1. ProcInv => UniquePid
    BY DEF ProcInv, PidsInOrder
<1> QED
    BY <1>1, ProcInvariant, PTL

\* No slot, kernel stack or pid ever serves two: the three theorems together.
THEOREM SlotsServeOne == Spec => []SlotsAreExclusive
<1>1. OneStackOneCpu /\ EmbryoOwned /\ UniquePid => SlotsAreExclusive
    BY DEF SlotsAreExclusive
<1> QED
    BY <1>1, StacksAreExclusive, ForksAreExclusive, PidsAreUnique, PTL

\* A ZOMBIE is cleared by nobody but its parent in wait(), off every CPU.
THEOREM OnlyParentReaps == Spec => ReapedByParent
<1>1. ASSUME ProcInv, [Next]_vars, NEW z \in Slots,
             state[z] = "ZOMBIE", state'[z] # "ZOMBIE"
      PROVE  Reaped(z)
    <2> USE <1>1, SlotFacts
    <2>0. ~UNCHANGED state
        OBVIOUS
    <2>1. ASSUME NEW c \in Cpu, SchedStep(c) PROVE FALSE
        BY <2>1 DEF SchedStep, SchedAcquire, Dispatch, Ahead, IsFirst, SchedRelease,
           Swtch, Resume, ProcInv, TypeOK
    <2>2. ASSUME NEW c \in Cpu, NEW p \in Slots, ProcStep(c, p) PROVE Reaped(z)
        <3>1. CASE WaitReap(c, p)
            <4>1. /\ cpuproc[c] = p /\ state[p] = "RUNNING" /\ pc[p] \in {"wait", "waiting"}
                  /\ parent[z] = p /\ state'[z] = "UNUSED"
                BY <3>1 DEF WaitReap, InWait, Runs, IsFirst, Zombies, Children, ProcInv,
                   TypeOK
            <4>2. ptableLock = c \/ LockFree
                BY <3>1 DEF WaitReap, InWait, Runs, ProcInv, LockDiscipline
            <4>3. ~OnCpu(z)
                BY <4>1, <4>2, CpuAssumption
                   DEF OnCpu, LockFree, ProcInv, LockDiscipline, StackDiscipline
            <4> QED
                BY <4>1, <4>3 DEF Reaped
        <3>2. CASE AllocProc(c, p) \/ ForkFail(c, p) \/ ForkPublish(c, p)
            BY <3>2, Pointers DEF AllocProc, Unused, IsFirst, ForkFail, ForkPublish,
               ProcInv, TypeOK, ForkDiscipline
        <3>3. CASE Timer(c, p) \/ WaitSleep(c, p)
            BY <3>3 DEF Timer, WaitSleep, InWait, Runs, ProcInv, TypeOK
        <3>4. CASE Exit(c, p)
            BY <3>4 DEF Exit, AfterExit, Wakeup1, Runs, ProcInv, TypeOK
        <3>5. CASE Kill(c, p)
            BY <3>5 DEF Kill, Marked, IsFirst, ProcInv, TypeOK
        <3> QED
            BY <2>0, <2>2, <3>1, <3>2, <3>3, <3>4, <3>5 DEF ProcStep, KernelStep, Fault, SyscallEntry,
               ReturnToUser, ForkCopy, ExitInit, WaitFail, PanicSpin, vars
    <2> QED
        BY <2>0, <2>1, <2>2 DEF Next, vars
<1>2. ProcInv /\ [Next]_vars =>
        [\A p \in Slots : state[p] = "ZOMBIE" /\ state'[p] # "ZOMBIE" => Reaped(p)]_vars
    BY <1>1
<1> QED
    BY <1>2, ProcInvariant, PTL DEF Spec, ReapedByParent

=============================================================================
