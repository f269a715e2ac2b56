----------------------------- MODULE PipeProofs -----------------------------
(***************************************************************************)
(* Proofs about Pipe, for every set of processes, PIPESIZE, WRAP and       *)
(* MaxCount: PipeInv is inductive, nobody sleeps for nothing, and Pipe     *)
(* implements ByteQueue, however often the counters wrap.                  *)
(***************************************************************************)
EXTENDS Pipe, FiniteSetTheorems, SequenceTheorems, TLAPS

-----------------------------------------------------------------------------
(* The counters, which wrap *)

\* Reducing a sum or a difference of counters modulo WRAP.
LEMMA Wrapping ==
    /\ \A x \in 0..(WRAP - 1) : x % WRAP = x
    /\ \A x \in Int : -WRAP <= x /\ x < 0 => x % WRAP = x + WRAP
    /\ \A x \in 0..(2 * WRAP - 1) : x % WRAP = IF x < WRAP THEN x ELSE x - WRAP
BY SizeAssumption

\* Places in p->data.
LEMMA Slots == \A x \in Int : x % PIPESIZE \in 0..(PIPESIZE - 1)
BY SizeAssumption

\* How many bytes there are between two counters.
LEMMA Distance ==
    ASSUME NEW r \in 0..(WRAP - 1), NEW w \in 0..(WRAP - 1)
    PROVE  (w - r) % WRAP = IF w >= r THEN w - r ELSE w - r + WRAP
BY Wrapping, SizeAssumption

\* A counter after one more byte.
LEMMA Increment ==
    ASSUME NEW x \in 0..(WRAP - 1)
    PROVE  (x + 1) % WRAP = IF x = WRAP - 1 THEN 0 ELSE x + 1
BY Wrapping, SizeAssumption

\* The counter of the writer when the pipe is full: PIPESIZE past the reader's.
LEMMA NextTurn ==
    ASSUME NEW x \in 0..(WRAP - 1)
    PROVE  (x + PIPESIZE) % WRAP = IF x + PIPESIZE < WRAP THEN x + PIPESIZE
                                   ELSE x + PIPESIZE - WRAP
<1>1. PICK y \in Int : y = x + PIPESIZE
    BY SizeAssumption
<1>2. 0 <= y /\ y < 2 * WRAP
    BY <1>1, SizeAssumption
<1>3. y % WRAP = IF y < WRAP THEN y ELSE y - WRAP
    BY <1>2, SizeAssumption
<1>4. WRAP \in Nat /\ PIPESIZE \in Nat
    BY SizeAssumption
<1> QED
    BY <1>1, <1>3, <1>4

\* What the tests of piperead() and pipewrite() on the counters say of the bytes queued.
LEMMA EmptyIsNone ==
    ASSUME TypeOK
    PROVE  Queued \in 0..PIPESIZE /\ (Empty <=> Queued = 0) /\ (Full <=> Queued = PIPESIZE)
<1>1. Queued = IF nwrite >= nread THEN nwrite - nread ELSE nwrite - nread + WRAP
    BY Distance DEF TypeOK, Queued
<1>2. (nread + PIPESIZE) % WRAP = IF nread + PIPESIZE < WRAP THEN nread + PIPESIZE
                                  ELSE nread + PIPESIZE - WRAP
    BY NextTurn DEF TypeOK
<1>3. nread \in 0..(WRAP - 1) /\ nwrite \in 0..(WRAP - 1) /\ Queued <= PIPESIZE
    BY DEF TypeOK, Queued
<1>4. Queued \in 0..PIPESIZE
    BY <1>1, <1>3, SizeAssumption
<1>5. Empty <=> Queued = 0
    BY <1>1, <1>3, SizeAssumption DEF Empty
<1>6. Full <=> Queued = PIPESIZE
    BY <1>1, <1>2, <1>3, SizeAssumption DEF Full
<1> QED
    BY <1>4, <1>5, <1>6

\* A byte more in a pipe that is not full.
LEMMA OneMore ==
    ASSUME TypeOK, ~Full, nwrite' = (nwrite + 1) % WRAP, nread' = nread
    PROVE  nwrite' \in 0..(WRAP - 1) /\ Queued' = Queued + 1 /\ Queued' <= PIPESIZE
<1>1. nwrite' = IF nwrite = WRAP - 1 THEN 0 ELSE nwrite + 1
    BY Increment DEF TypeOK
<1>2. nwrite' \in 0..(WRAP - 1)
    BY <1>1, SizeAssumption DEF TypeOK
<1>3. Queued = IF nwrite >= nread THEN nwrite - nread ELSE nwrite - nread + WRAP
    BY Distance DEF TypeOK, Queued
<1>4. Queued' = IF nwrite' >= nread THEN nwrite' - nread ELSE nwrite' - nread + WRAP
    BY <1>2, Distance DEF TypeOK, Queued
<1> QED
    BY <1>1, <1>2, <1>3, <1>4, EmptyIsNone, SizeAssumption DEF TypeOK

\* A byte less in a pipe that is not empty.
LEMMA OneLess ==
    ASSUME TypeOK, ~Empty, nread' = (nread + 1) % WRAP, nwrite' = nwrite
    PROVE  nread' \in 0..(WRAP - 1) /\ Queued' = Queued - 1 /\ Queued' <= PIPESIZE
<1>1. nread' = IF nread = WRAP - 1 THEN 0 ELSE nread + 1
    BY Increment DEF TypeOK
<1>2. nread' \in 0..(WRAP - 1)
    BY <1>1, SizeAssumption DEF TypeOK
<1>3. Queued = IF nwrite >= nread THEN nwrite - nread ELSE nwrite - nread + WRAP
    BY Distance DEF TypeOK, Queued
<1>4. Queued' = IF nwrite >= nread' THEN nwrite - nread' ELSE nwrite - nread' + WRAP
    BY <1>2, Distance DEF TypeOK, Queued
<1> QED
    BY <1>1, <1>2, <1>3, <1>4, EmptyIsNone, SizeAssumption DEF TypeOK

-----------------------------------------------------------------------------
(* The references *)

\* Who has a descriptor of an end is counted, and somebody has if the count is not 0.
LEMMA HoldersAreFinite ==
    ASSUME PipeInv, NEW e \in Ends
    PROVE  /\ IsFiniteSet(Holders(e)) /\ ref[e] \in Nat
           /\ ref[e] = 0 <=> Holders(e) = {}
           /\ \A p \in Proc : e \in holds[p] => ref[e] >= 1
<1>1. IsFiniteSet(Holders(e))
    BY ProcAssumption, FS_Subset DEF Holders
<1>2. ref[e] \in Nat /\ ref[e] = Cardinality(Holders(e))
    BY DEF PipeInv, TypeOK, RefsAreHeld
<1>3. ref[e] = 0 <=> Holders(e) = {}
    BY <1>1, <1>2, FS_EmptySet
<1> QED
    BY <1>1, <1>2, <1>3 DEF Holders

-----------------------------------------------------------------------------
(* The steps *)

\* A process in user space that calls read() has no lock, and a descriptor.
LEMMA CallReadKeeps ==
    ASSUME PipeInv, NEW p \in Proc, CallRead(p) PROVE PipeInv'
<1> USE ProcAssumption DEF PipeInv, CallRead, Goto, Holding, pipe, files
<1>1. TypeOK'
    BY SizeAssumption DEF TypeOK, Calls, Places, Ends
<1>2. LockDiscipline'
    BY DEF TypeOK, LockDiscipline
<1>3. CallDiscipline'
    BY DEF TypeOK, LockDiscipline, CallDiscipline
<1>4. RefsAreHeld'
    BY DEF RefsAreHeld, Holders
<1>5. ClosedByLast'
    BY DEF TypeOK, LockDiscipline, CallDiscipline, ClosedByLast, IsOpen, Closer, Ends
<1>6. NotFreedInUse'
    BY DEF TypeOK, CallDiscipline, NotFreedInUse
<1> QED
    BY <1>1, <1>2, <1>3, <1>4, <1>5, <1>6

\* The same of write().
LEMMA CallWriteKeeps ==
    ASSUME PipeInv, NEW p \in Proc, CallWrite(p) PROVE PipeInv'
<1> USE ProcAssumption DEF PipeInv, CallWrite, Goto, Holding, pipe, files
<1>1. TypeOK'
    BY SizeAssumption DEF TypeOK, Calls, Places, Ends
<1>2. LockDiscipline'
    BY DEF TypeOK, LockDiscipline
<1>3. CallDiscipline'
    BY DEF TypeOK, LockDiscipline, CallDiscipline
<1>4. RefsAreHeld'
    BY DEF RefsAreHeld, Holders
<1>5. ClosedByLast'
    BY DEF TypeOK, LockDiscipline, CallDiscipline, ClosedByLast, IsOpen, Closer, Ends
<1>6. NotFreedInUse'
    BY DEF TypeOK, CallDiscipline, NotFreedInUse
<1> QED
    BY <1>1, <1>2, <1>3, <1>4, <1>5, <1>6

\* The child gets as many descriptors as references are added.
LEMMA ForkKeeps ==
    ASSUME PipeInv, NEW p \in Proc, NEW q \in Proc, Fork(p, q) PROVE PipeInv'
<1> USE ProcAssumption DEF PipeInv, Fork, Goto, Holding, pipe, files
<1>1. TypeOK'
    BY SizeAssumption DEF TypeOK, Calls, Places, Ends
<1>2. LockDiscipline'
    BY DEF TypeOK, LockDiscipline
<1>3. CallDiscipline'
    BY DEF TypeOK, LockDiscipline, CallDiscipline
<1>4. RefsAreHeld'
    <2> SUFFICES ASSUME NEW e \in Ends PROVE ref'[e] = Cardinality(Holders(e)')
        BY DEF RefsAreHeld, Holders
    <2>1. q \notin Holders(e)
        BY DEF Holders, CallDiscipline
    <2>2. Holders(e)' = IF e \in holds[p] THEN Holders(e) \cup {q} ELSE Holders(e)
        BY <2>1 DEF Holders, TypeOK
    <2>3. ref'[e] = IF e \in holds[p] THEN ref[e] + 1 ELSE ref[e]
        OBVIOUS
    <2>4. IsFiniteSet(Holders(e)) /\ ref[e] = Cardinality(Holders(e))
        BY HoldersAreFinite DEF RefsAreHeld
    <2>5. Cardinality(Holders(e) \cup {q}) = Cardinality(Holders(e)) + 1
        BY <2>1, <2>4, FS_AddElement
    <2> QED
        BY <2>2, <2>3, <2>4, <2>5
<1>5. ClosedByLast'
    <2>1. \A e \in Ends : /\ ref[e] \in Nat /\ (e \in holds[p] => ref[e] >= 1)
                          /\ ref'[e] = IF e \in holds[p] THEN ref[e] + 1 ELSE ref[e]
        BY HoldersAreFinite
    <2>2. \A e \in Ends : (ref'[e] > 0 <=> ref[e] > 0) /\ (ref'[e] = 0 <=> ref[e] = 0)
        BY <2>1
    <2>3. \A e \in Ends : Closer(e) # "none"
        BY DEF Closer
    <2> QED
        BY <2>2, <2>3 DEF TypeOK, CallDiscipline, ClosedByLast, IsOpen
<1>6. NotFreedInUse'
    BY DEF TypeOK, CallDiscipline, NotFreedInUse
<1> QED
    BY <1>1, <1>2, <1>3, <1>4, <1>5, <1>6

\* The reference of a closed descriptor is dropped; the last one makes its process the closer.
LEMMA CloseFdKeeps ==
    ASSUME PipeInv, NEW p \in Proc, NEW e \in Ends, CloseFd(p, e) PROVE PipeInv'
<1> USE ProcAssumption DEF PipeInv, CloseFd, Goto, Holding, pipe, files, IsLast
<1>0. ref[e] \in Nat /\ ref[e] >= 1
    BY HoldersAreFinite
<1>1. TypeOK'
    <2>1. ref' \in [Ends -> Nat]
        BY <1>0 DEF TypeOK
    <2>2. holds' \in [Proc -> SUBSET Ends]
        BY DEF TypeOK
    <2>3. pc' \in [Proc -> Places] /\ call' \in [Proc -> Calls]
        BY DEF TypeOK, Places, Calls
    <2> QED
        BY <2>1, <2>2, <2>3 DEF TypeOK
<1>2. LockDiscipline'
    BY DEF TypeOK, LockDiscipline
<1>3. CallDiscipline'
    BY DEF TypeOK, LockDiscipline, CallDiscipline
<1>4. RefsAreHeld'
    <2> SUFFICES ASSUME NEW d \in Ends PROVE ref'[d] = Cardinality(Holders(d)')
        BY DEF RefsAreHeld, Holders
    <2>1. Holders(d)' = IF d = e THEN Holders(d) \ {p} ELSE Holders(d)
        BY DEF Holders, TypeOK
    <2>2. p \in Holders(e)
        BY DEF Holders
    <2>3. ref'[d] = IF d = e THEN ref[d] - 1 ELSE ref[d]
        BY DEF TypeOK
    <2>4. IsFiniteSet(Holders(e)) /\ ref[e] = Cardinality(Holders(e))
        BY HoldersAreFinite DEF RefsAreHeld
    <2>5. Cardinality(Holders(e) \ {p}) = Cardinality(Holders(e)) - 1
        BY <2>2, <2>4, FS_RemoveElement
    <2>6. ref[d] = Cardinality(Holders(d))
        BY DEF RefsAreHeld
    <2> QED
        BY <2>1, <2>3, <2>4, <2>5, <2>6
<1>5. ClosedByLast'
    <2>1. \A d \in Ends : ref'[d] = IF d = e THEN ref[d] - 1 ELSE ref[d]
        BY DEF TypeOK
    <2>2. IsOpen(e) /\ \A q \in Proc : call[q] # Closer(e)
        BY <1>0 DEF ClosedByLast
    <2>3. call[p] = "none"
        BY DEF CallDiscipline
    <2>4. CASE IsLast(e)
        <3>1. call' = [call EXCEPT ![p] = Closer(e)] /\ pc' = [pc EXCEPT ![p] = "acquire"]
            BY <2>4 DEF Closer
        <3>2. \A d \in Ends : d # e => Closer(d) # Closer(e)
            BY DEF Closer, Ends
        <3>3. ref'[e] = 0
            BY <2>1, <2>4
        <3> QED
            BY <2>1, <2>2, <2>3, <3>1, <3>2, <3>3 DEF TypeOK, ClosedByLast, IsOpen
    <2>5. CASE ~IsLast(e)
        <3>1. call' = call /\ pc' = pc
            BY <2>5
        <3> QED
            BY <1>0, <2>1, <2>2, <3>1 DEF TypeOK, ClosedByLast, IsOpen
    <2> QED
        BY <2>4, <2>5
<1>6. NotFreedInUse'
    BY DEF TypeOK, CallDiscipline, NotFreedInUse
<1> QED
    BY <1>1, <1>2, <1>3, <1>4, <1>5, <1>6

\* A process without descriptors leaves its slot.
LEMMA ExitKeeps ==
    ASSUME PipeInv, NEW p \in Proc, Exit(p) PROVE PipeInv'
<1> USE ProcAssumption DEF PipeInv, Exit, Goto, Holding, pipe, files
<1>1. TypeOK'
    BY SizeAssumption DEF TypeOK, Calls, Places, Ends
<1>2. LockDiscipline'
    BY DEF TypeOK, LockDiscipline
<1>3. CallDiscipline'
    BY DEF TypeOK, LockDiscipline, CallDiscipline
<1>4. RefsAreHeld'
    BY DEF RefsAreHeld, Holders
<1>5. ClosedByLast'
    BY DEF TypeOK, LockDiscipline, CallDiscipline, ClosedByLast, IsOpen, Closer, Ends
<1>6. NotFreedInUse'
    BY DEF TypeOK, CallDiscipline, NotFreedInUse
<1> QED
    BY <1>1, <1>2, <1>3, <1>4, <1>5, <1>6

\* kill() changes the place of a sleeper only.
LEMMA KillKeeps ==
    ASSUME PipeInv, NEW p \in Proc, Kill(p) PROVE PipeInv'
<1> USE ProcAssumption DEF PipeInv, Kill, Goto, Holding, pipe, files
<1>1. TypeOK'
    BY SizeAssumption DEF TypeOK, Calls, Places, Ends
<1>2. LockDiscipline'
    BY DEF TypeOK, LockDiscipline
<1>3. CallDiscipline'
    BY DEF TypeOK, LockDiscipline, CallDiscipline
<1>4. RefsAreHeld'
    BY DEF RefsAreHeld, Holders
<1>5. ClosedByLast'
    BY DEF TypeOK, LockDiscipline, CallDiscipline, ClosedByLast, IsOpen, Closer, Ends
<1>6. NotFreedInUse'
    BY DEF TypeOK, CallDiscipline, NotFreedInUse
<1> QED
    BY <1>1, <1>2, <1>3, <1>4, <1>5, <1>6

\* The lock is taken by one process.
LEMMA AcquireKeeps ==
    ASSUME PipeInv, NEW p \in Proc, Acquire(p) PROVE PipeInv'
<1> USE ProcAssumption DEF PipeInv, Acquire, Goto, Holding, pipe, files
<1>1. TypeOK'
    BY SizeAssumption DEF TypeOK, Calls, Places, Ends
<1>2. LockDiscipline'
    BY DEF TypeOK, LockDiscipline
<1>3. CallDiscipline'
    BY DEF TypeOK, LockDiscipline, CallDiscipline
<1>4. RefsAreHeld'
    BY DEF RefsAreHeld, Holders
<1>5. ClosedByLast'
    BY DEF TypeOK, LockDiscipline, CallDiscipline, ClosedByLast, IsOpen, Closer, Ends
<1>6. NotFreedInUse'
    BY DEF TypeOK, CallDiscipline, NotFreedInUse
<1> QED
    BY <1>1, <1>2, <1>3, <1>4, <1>5, <1>6

\* sleep() takes ptable.lock, and gives the lock of the pipe back.
LEMMA DozeKeeps ==
    ASSUME PipeInv, NEW p \in Proc, Doze(p) PROVE PipeInv'
<1> USE ProcAssumption DEF PipeInv, Doze, Goto, Holding, pipe, files, TakePtable
<1>1. TypeOK'
    BY SizeAssumption DEF TypeOK, Calls, Places, Ends
<1>2. LockDiscipline'
    BY DEF TypeOK, LockDiscipline
<1>3. CallDiscipline'
    BY DEF TypeOK, LockDiscipline, CallDiscipline
<1>4. RefsAreHeld'
    BY DEF RefsAreHeld, Holders
<1>5. ClosedByLast'
    BY DEF TypeOK, LockDiscipline, CallDiscipline, ClosedByLast, IsOpen, Closer, Ends
<1>6. NotFreedInUse'
    BY DEF TypeOK, CallDiscipline, NotFreedInUse
<1> QED
    BY <1>1, <1>2, <1>3, <1>4, <1>5, <1>6

\* sched() gives ptable.lock away.
LEMMA SleepKeeps ==
    ASSUME PipeInv, NEW p \in Proc, Sleep(p) PROVE PipeInv'
<1> USE ProcAssumption DEF PipeInv, Sleep, Goto, Holding, pipe, files
<1>1. TypeOK'
    BY SizeAssumption DEF TypeOK, Calls, Places, Ends
<1>2. LockDiscipline'
    BY DEF TypeOK, LockDiscipline
<1>3. CallDiscipline'
    BY DEF TypeOK, LockDiscipline, CallDiscipline
<1>4. RefsAreHeld'
    BY DEF RefsAreHeld, Holders
<1>5. ClosedByLast'
    BY DEF TypeOK, LockDiscipline, CallDiscipline, ClosedByLast, IsOpen, Closer, Ends
<1>6. NotFreedInUse'
    BY DEF TypeOK, CallDiscipline, NotFreedInUse
<1> QED
    BY <1>1, <1>2, <1>3, <1>4, <1>5, <1>6

\* piperead() returns -1 of an empty pipe.
LEMMA ReadFailKeeps ==
    ASSUME PipeInv, NEW p \in Proc, ReadFail(p) PROVE PipeInv'
<1> USE ProcAssumption DEF PipeInv, ReadFail, Goto, Holding, pipe, files, Return
<1>1. TypeOK'
    BY SizeAssumption DEF TypeOK, Calls, Places, Ends
<1>2. LockDiscipline'
    BY DEF TypeOK, LockDiscipline
<1>3. CallDiscipline'
    BY DEF TypeOK, LockDiscipline, CallDiscipline
<1>4. RefsAreHeld'
    BY DEF RefsAreHeld, Holders
<1>5. ClosedByLast'
    BY DEF TypeOK, LockDiscipline, CallDiscipline, ClosedByLast, IsOpen, Closer, Ends
<1>6. NotFreedInUse'
    BY DEF TypeOK, CallDiscipline, NotFreedInUse
<1> QED
    BY <1>1, <1>2, <1>3, <1>4, <1>5, <1>6

\* piperead() goes to sleep.
LEMMA ReadBlockKeeps ==
    ASSUME PipeInv, NEW p \in Proc, ReadBlock(p) PROVE PipeInv'
<1> USE ProcAssumption DEF PipeInv, ReadBlock, Goto, Holding, pipe, files
<1>1. TypeOK'
    BY SizeAssumption DEF TypeOK, Calls, Places, Ends
<1>2. LockDiscipline'
    BY DEF TypeOK, LockDiscipline
<1>3. CallDiscipline'
    BY DEF TypeOK, LockDiscipline, CallDiscipline
<1>4. RefsAreHeld'
    BY DEF RefsAreHeld, Holders
<1>5. ClosedByLast'
    BY DEF TypeOK, LockDiscipline, CallDiscipline, ClosedByLast, IsOpen, Closer, Ends
<1>6. NotFreedInUse'
    BY DEF TypeOK, CallDiscipline, NotFreedInUse
<1> QED
    BY <1>1, <1>2, <1>3, <1>4, <1>5, <1>6

\* piperead() starts to copy.
LEMMA ReadStartKeeps ==
    ASSUME PipeInv, NEW p \in Proc, ReadStart(p) PROVE PipeInv'
<1> USE ProcAssumption DEF PipeInv, ReadStart, Goto, Holding, pipe, files
<1>1. TypeOK'
    BY SizeAssumption DEF TypeOK, Calls, Places, Ends
<1>2. LockDiscipline'
    BY DEF TypeOK, LockDiscipline
<1>3. CallDiscipline'
    BY DEF TypeOK, LockDiscipline, CallDiscipline
<1>4. RefsAreHeld'
    BY DEF RefsAreHeld, Holders
<1>5. ClosedByLast'
    BY DEF TypeOK, LockDiscipline, CallDiscipline, ClosedByLast, IsOpen, Closer, Ends
<1>6. NotFreedInUse'
    BY DEF TypeOK, CallDiscipline, NotFreedInUse
<1> QED
    BY <1>1, <1>2, <1>3, <1>4, <1>5, <1>6

\* A byte less: the counters stay within PIPESIZE.
LEMMA ReadByteKeeps ==
    ASSUME PipeInv, NEW p \in Proc, ReadByte(p) PROVE PipeInv'
<1> USE ProcAssumption DEF PipeInv, ReadByte, Goto, Holding, pipe, files
<1>1. TypeOK'
    <2>1. nread' \in 0..(WRAP - 1) /\ nwrite' \in 0..(WRAP - 1) /\ Queued' <= PIPESIZE
        BY OneLess DEF TypeOK
    <2>2. data' \in [0..(PIPESIZE - 1) -> Byte] /\ out' \in Byte
        BY Slots DEF TypeOK
    <2>3. count' \in [Proc -> 0..MaxCount]
        BY SizeAssumption DEF TypeOK
    <2> QED
        BY <2>1, <2>2, <2>3 DEF TypeOK, Queued
<1>2. LockDiscipline'
    BY DEF TypeOK, LockDiscipline
<1>3. CallDiscipline'
    BY DEF TypeOK, LockDiscipline, CallDiscipline
<1>4. RefsAreHeld'
    BY DEF RefsAreHeld, Holders
<1>5. ClosedByLast'
    BY DEF TypeOK, LockDiscipline, CallDiscipline, ClosedByLast, IsOpen, Closer, Ends
<1>6. NotFreedInUse'
    BY DEF TypeOK, CallDiscipline, NotFreedInUse
<1> QED
    BY <1>1, <1>2, <1>3, <1>4, <1>5, <1>6

\* piperead() has copied.
LEMMA ReadDoneKeeps ==
    ASSUME PipeInv, NEW p \in Proc, ReadDone(p) PROVE PipeInv'
<1> USE ProcAssumption DEF PipeInv, ReadDone, Goto, Holding, pipe, files
<1>1. TypeOK'
    BY SizeAssumption DEF TypeOK, Calls, Places, Ends
<1>2. LockDiscipline'
    BY DEF TypeOK, LockDiscipline
<1>3. CallDiscipline'
    BY DEF TypeOK, LockDiscipline, CallDiscipline
<1>4. RefsAreHeld'
    BY DEF RefsAreHeld, Holders
<1>5. ClosedByLast'
    BY DEF TypeOK, LockDiscipline, CallDiscipline, ClosedByLast, IsOpen, Closer, Ends
<1>6. NotFreedInUse'
    BY DEF TypeOK, CallDiscipline, NotFreedInUse
<1> QED
    BY <1>1, <1>2, <1>3, <1>4, <1>5, <1>6

\* pipewrite() returns -1 of a full pipe.
LEMMA WriteFailKeeps ==
    ASSUME PipeInv, NEW p \in Proc, WriteFail(p) PROVE PipeInv'
<1> USE ProcAssumption DEF PipeInv, WriteFail, Goto, Holding, pipe, files, Return
<1>1. TypeOK'
    BY SizeAssumption DEF TypeOK, Calls, Places, Ends
<1>2. LockDiscipline'
    BY DEF TypeOK, LockDiscipline
<1>3. CallDiscipline'
    BY DEF TypeOK, LockDiscipline, CallDiscipline
<1>4. RefsAreHeld'
    BY DEF RefsAreHeld, Holders
<1>5. ClosedByLast'
    BY DEF TypeOK, LockDiscipline, CallDiscipline, ClosedByLast, IsOpen, Closer, Ends
<1>6. NotFreedInUse'
    BY DEF TypeOK, CallDiscipline, NotFreedInUse
<1> QED
    BY <1>1, <1>2, <1>3, <1>4, <1>5, <1>6

\* pipewrite() goes to wake the readers.
LEMMA WriteBlockKeeps ==
    ASSUME PipeInv, NEW p \in Proc, WriteBlock(p) PROVE PipeInv'
<1> USE ProcAssumption DEF PipeInv, WriteBlock, Goto, Holding, pipe, files
<1>1. TypeOK'
    BY SizeAssumption DEF TypeOK, Calls, Places, Ends
<1>2. LockDiscipline'
    BY DEF TypeOK, LockDiscipline
<1>3. CallDiscipline'
    BY DEF TypeOK, LockDiscipline, CallDiscipline
<1>4. RefsAreHeld'
    BY DEF RefsAreHeld, Holders
<1>5. ClosedByLast'
    BY DEF TypeOK, LockDiscipline, CallDiscipline, ClosedByLast, IsOpen, Closer, Ends
<1>6. NotFreedInUse'
    BY DEF TypeOK, CallDiscipline, NotFreedInUse
<1> QED
    BY <1>1, <1>2, <1>3, <1>4, <1>5, <1>6

\* A byte more: the pipe was not full, and the counters stay within PIPESIZE.
LEMMA WriteByteKeeps ==
    ASSUME PipeInv, NEW p \in Proc, WriteByte(p) PROVE PipeInv'
<1> USE ProcAssumption DEF PipeInv, WriteByte, Goto, Holding, pipe, files
<1>1. TypeOK'
    <2>1. nread' \in 0..(WRAP - 1) /\ nwrite' \in 0..(WRAP - 1) /\ Queued' <= PIPESIZE
        BY OneMore DEF TypeOK
    <2>2. data' \in [0..(PIPESIZE - 1) -> Byte] /\ out' \in Byte
        BY Slots DEF TypeOK
    <2>3. count' \in [Proc -> 0..MaxCount]
        BY SizeAssumption DEF TypeOK
    <2> QED
        BY <2>1, <2>2, <2>3 DEF TypeOK, Queued
<1>2. LockDiscipline'
    BY DEF TypeOK, LockDiscipline
<1>3. CallDiscipline'
    BY DEF TypeOK, LockDiscipline, CallDiscipline
<1>4. RefsAreHeld'
    BY DEF RefsAreHeld, Holders
<1>5. ClosedByLast'
    BY DEF TypeOK, LockDiscipline, CallDiscipline, ClosedByLast, IsOpen, Closer, Ends
<1>6. NotFreedInUse'
    BY DEF TypeOK, CallDiscipline, NotFreedInUse
<1> QED
    BY <1>1, <1>2, <1>3, <1>4, <1>5, <1>6

\* pipewrite() has written all.
LEMMA WriteDoneKeeps ==
    ASSUME PipeInv, NEW p \in Proc, WriteDone(p) PROVE PipeInv'
<1> USE ProcAssumption DEF PipeInv, WriteDone, Goto, Holding, pipe, files
<1>1. TypeOK'
    BY SizeAssumption DEF TypeOK, Calls, Places, Ends
<1>2. LockDiscipline'
    BY DEF TypeOK, LockDiscipline
<1>3. CallDiscipline'
    BY DEF TypeOK, LockDiscipline, CallDiscipline
<1>4. RefsAreHeld'
    BY DEF RefsAreHeld, Holders
<1>5. ClosedByLast'
    BY DEF TypeOK, LockDiscipline, CallDiscipline, ClosedByLast, IsOpen, Closer, Ends
<1>6. NotFreedInUse'
    BY DEF TypeOK, CallDiscipline, NotFreedInUse
<1> QED
    BY <1>1, <1>2, <1>3, <1>4, <1>5, <1>6

\* pipeclose() clears the flag of its end, once.
LEMMA CloseEndKeeps ==
    ASSUME PipeInv, NEW p \in Proc, CloseEnd(p) PROVE PipeInv'
<1> USE ProcAssumption DEF PipeInv, CloseEnd, Goto, Holding, pipe, files
<1>1. TypeOK'
    BY SizeAssumption DEF TypeOK, Calls, Places, Ends
<1>2. LockDiscipline'
    BY DEF TypeOK, LockDiscipline
<1>3. CallDiscipline'
    BY DEF TypeOK, LockDiscipline, CallDiscipline
<1>4. RefsAreHeld'
    BY DEF RefsAreHeld, Holders
<1>5. ClosedByLast'
    BY DEF TypeOK, LockDiscipline, CallDiscipline, ClosedByLast, IsOpen, Closer, Ends
<1>6. NotFreedInUse'
    BY DEF TypeOK, CallDiscipline, NotFreedInUse
<1> QED
    BY <1>1, <1>2, <1>3, <1>4, <1>5, <1>6

\* wakeup() moves the sleepers, and the writer goes to sleep.
LEMMA WakeAndSleepKeeps ==
    ASSUME PipeInv, NEW p \in Proc, WakeAndSleep(p) PROVE PipeInv'
<1> USE ProcAssumption DEF PipeInv, WakeAndSleep, Goto, Holding, pipe, files, Woken, Sleeper
<1>1. TypeOK'
    BY SizeAssumption DEF TypeOK, Calls, Places, Ends
<1>2. LockDiscipline'
    BY DEF TypeOK, LockDiscipline
<1>3. CallDiscipline'
    BY DEF TypeOK, LockDiscipline, CallDiscipline
<1>4. RefsAreHeld'
    BY DEF RefsAreHeld, Holders
<1>5. ClosedByLast'
    BY DEF TypeOK, LockDiscipline, CallDiscipline, ClosedByLast, IsOpen, Closer, Ends
<1>6. NotFreedInUse'
    BY DEF TypeOK, CallDiscipline, NotFreedInUse
<1> QED
    BY <1>1, <1>2, <1>3, <1>4, <1>5, <1>6

\* The last call to leave frees the pipe only when nobody can use it.
LEMMA WakeAndReturnKeeps ==
    ASSUME PipeInv, NEW p \in Proc, WakeAndReturn(p) PROVE PipeInv'
<1> USE ProcAssumption DEF PipeInv, WakeAndReturn, Goto, Holding, pipe, files, Woken, Sleeper,
                           BothClosed
<1>1. TypeOK'
    BY SizeAssumption DEF TypeOK, Calls, Places, Ends
<1>2. LockDiscipline'
    BY DEF TypeOK, LockDiscipline
<1>3. CallDiscipline'
    BY DEF TypeOK, LockDiscipline, CallDiscipline
<1>4. RefsAreHeld'
    BY DEF RefsAreHeld, Holders
<1>5. ClosedByLast'
    BY DEF TypeOK, LockDiscipline, CallDiscipline, ClosedByLast, IsOpen, Closer, Ends
<1>6. NotFreedInUse'
    <2> SUFFICES ASSUME freed', NEW q \in Proc PROVE call'[q] = "none" /\ holds[q] = {}
        BY DEF NotFreedInUse
    <2>1. call[p] # "none"
        BY DEF CallDiscipline
    <2>2. call[p] \in {"closeR", "closeW"} /\ BothClosed
        BY <2>1 DEF NotFreedInUse
    <2>3. \A e \in Ends : ref[e] = 0 /\ ~IsOpen(e)
        BY <2>2, HoldersAreFinite DEF ClosedByLast, IsOpen, Ends
    <2>4. \A e \in Ends : e \notin holds[q]
        BY <2>3, HoldersAreFinite
    <2>5. holds[q] = {}
        BY <2>4 DEF TypeOK
    <2>6. call[q] \notin {"read", "write"}
        BY <2>4 DEF CallDiscipline, Ends
    <2>7. \A e \in Ends : call[q] = Closer(e) => q = p
        BY <2>3 DEF ClosedByLast, LockDiscipline
    <2>8. q # p => call[q] = "none"
        BY <2>6, <2>7 DEF TypeOK, Calls, Closer, Ends
    <2> QED
        BY <2>5, <2>8 DEF TypeOK
<1> QED
    BY <1>1, <1>2, <1>3, <1>4, <1>5, <1>6

-----------------------------------------------------------------------------
(* The invariant *)

\* pipealloc() leaves a well formed pipe.
LEMMA InitInv == Init => PipeInv
<1> SUFFICES ASSUME Init PROVE PipeInv
    OBVIOUS
<1> USE ProcAssumption DEF Init
<1>1. TypeOK
    <2>1. Queued <= PIPESIZE
        BY Wrapping, SizeAssumption DEF Queued
    <2>2. nread \in 0..(WRAP - 1) /\ nwrite \in 0..(WRAP - 1) /\ count \in [Proc -> 0..MaxCount]
        BY SizeAssumption
    <2> QED
        BY <2>1, <2>2 DEF TypeOK, Queued, Calls, Places, Ends
<1>2. LockDiscipline
    BY DEF LockDiscipline
<1>3. CallDiscipline
    BY DEF CallDiscipline
<1>4. RefsAreHeld
    <2>1. \A e \in Ends : Holders(e) = {First}
        BY DEF Holders, Ends
    <2>2. Cardinality({First}) = 1
        BY FS_Singleton
    <2> QED
        BY <2>1, <2>2 DEF RefsAreHeld
<1>5. ClosedByLast
    BY DEF ClosedByLast, IsOpen, Closer, Ends
<1>6. NotFreedInUse
    BY DEF NotFreedInUse
<1> QED
    BY <1>1, <1>2, <1>3, <1>4, <1>5, <1>6 DEF PipeInv

\* No step of any process breaks it.
LEMMA NextInv == PipeInv /\ [Next]_vars => PipeInv'
<1> SUFFICES ASSUME PipeInv, [Next]_vars PROVE PipeInv'
    OBVIOUS
<1>1. CASE UNCHANGED vars
    BY <1>1 DEF vars, pipe, files, PipeInv, TypeOK, LockDiscipline, CallDiscipline,
                RefsAreHeld, Holders, ClosedByLast, IsOpen, NotFreedInUse
<1>2. ASSUME NEW p \in Proc, PipeStep(p) PROVE PipeInv'
    BY <1>2, AcquireKeeps, DozeKeeps, SleepKeeps, ReadFailKeeps, ReadBlockKeeps,
       ReadStartKeeps, ReadByteKeeps, ReadDoneKeeps, WriteFailKeeps, WriteBlockKeeps,
       WriteByteKeeps, WriteDoneKeeps, CloseEndKeeps, WakeAndSleepKeeps,
       WakeAndReturnKeeps DEF PipeStep
<1>3. ASSUME NEW p \in Proc, UserStep(p) PROVE PipeInv'
    BY <1>3, CallReadKeeps, CallWriteKeeps, KillKeeps, ExitKeeps, ForkKeeps,
       CloseFdKeeps DEF UserStep
<1> QED
    BY <1>1, <1>2, <1>3 DEF Next

\* In every reachable state the counters, the locks, the reference counts and the
\* ends of the pipe agree, and it is not freed while a process is in pipe.c.
THEOREM PipeInvariant == Spec => []PipeInv
<1> QED
    BY InitInv, NextInv, PTL DEF Spec

\* kfree() of the struct pipe comes after the last use of it by any process.
THEOREM FreedLast == Spec => []NotFreedInUse
<1>1. PipeInv => NotFreedInUse
    BY DEF PipeInv
<1> QED
    BY <1>1, PipeInvariant, PTL

-----------------------------------------------------------------------------
(* Sleeping, when no write() asks for more than PIPESIZE bytes *)

\* p has to wait for another process.
Waits(p) ==
    /\ call[p] = "read" => Empty /\ writeopen
    /\ call[p] = "write" => Full /\ readopen

\* q holds the lock, and will call the wakeup() p sleeps for before it returns it.
WillWake(q, p) ==
    /\ lock = q /\ Sleeper(call[q]) = call[p]
    /\ \/ pc[q] \in {"copy", "wake"}
       \/ pc[q] = "loop" /\ call[q] = "write" /\ Queued + count[q] <= PIPESIZE

\* A process goes to sleep for a reason, and it stays one until somebody who holds
\* the lock is on the way to the wakeup().
GoesForAReason ==
    \A p \in Proc :
        /\ pc[p] = "sleep" => Waits(p)
        /\ pc[p] = "wake" /\ call[p] = "write" /\ count[p] > 0 => Full /\ readopen
StaysForAReason ==
    \A p \in Proc : InSleep(p) => Waits(p) \/ \E q \in Proc : WillWake(q, p)
SleepInv == GoesForAReason /\ StaysForAReason

-----------------------------------------------------------------------------
\* read() has not looked at the pipe yet.
LEMMA CallReadJustified ==
    ASSUME PipeInv, SleepInv, MaxCount <= PIPESIZE, NEW p \in Proc, CallRead(p)
    PROVE  SleepInv'
<1> USE ProcAssumption DEF CallRead, Goto, Return, Holding, pipe, files, SleepInv
<1>1. GoesForAReason'
    BY DEF PipeInv, TypeOK, LockDiscipline, CallDiscipline, GoesForAReason, Waits, Empty, Full
<1>2. StaysForAReason'
    BY DEF PipeInv, TypeOK, LockDiscipline, CallDiscipline, GoesForAReason, StaysForAReason,
           InSleep, Waits, WillWake, Empty, Full, Queued, Sleeper
<1> QED
    BY <1>1, <1>2

\* write() asks for at most PIPESIZE bytes.
LEMMA CallWriteJustified ==
    ASSUME PipeInv, SleepInv, MaxCount <= PIPESIZE, NEW p \in Proc, CallWrite(p)
    PROVE  SleepInv'
<1> USE ProcAssumption DEF CallWrite, Goto, Return, Holding, pipe, files, SleepInv
<1>1. GoesForAReason'
    BY DEF PipeInv, TypeOK, LockDiscipline, CallDiscipline, GoesForAReason, Waits, Empty, Full
<1>2. StaysForAReason'
    BY DEF PipeInv, TypeOK, LockDiscipline, CallDiscipline, GoesForAReason, StaysForAReason,
           InSleep, Waits, WillWake, Empty, Full, Queued, Sleeper
<1> QED
    BY <1>1, <1>2

\* The child of a fork() is outside the pipe.
LEMMA ForkJustified ==
    ASSUME PipeInv, SleepInv, MaxCount <= PIPESIZE, NEW p \in Proc, NEW r \in Proc, Fork(p, r)
    PROVE  SleepInv'
<1> USE ProcAssumption DEF Fork, Goto, Return, Holding, pipe, files, SleepInv
<1>1. GoesForAReason'
    BY DEF PipeInv, TypeOK, LockDiscipline, CallDiscipline, GoesForAReason, Waits, Empty, Full
<1>2. StaysForAReason'
    BY DEF PipeInv, TypeOK, LockDiscipline, CallDiscipline, GoesForAReason, StaysForAReason,
           InSleep, Waits, WillWake, Empty, Full, Queued, Sleeper
<1> QED
    BY <1>1, <1>2

\* The lock is not held by whoever calls close().
LEMMA CloseFdJustified ==
    ASSUME PipeInv, SleepInv, MaxCount <= PIPESIZE, NEW p \in Proc, NEW e \in Ends, CloseFd(p, e)
    PROVE  SleepInv'
<1> USE ProcAssumption DEF CloseFd, Goto, Return, Holding, pipe, files, SleepInv
<1>1. GoesForAReason'
    BY DEF PipeInv, TypeOK, LockDiscipline, CallDiscipline, GoesForAReason, Waits, Empty, Full
<1>2. StaysForAReason'
    <2> SUFFICES ASSUME NEW s \in Proc, InSleep(s)'
                 PROVE  Waits(s)' \/ \E q \in Proc : WillWake(q, s)'
        BY DEF StaysForAReason
    <2>1. pc[p] = "user" /\ call[p] = "none" /\ lock # p
        BY DEF PipeInv, LockDiscipline, CallDiscipline
    <2>2. s # p /\ InSleep(s) /\ call'[s] = call[s]
        BY <2>1 DEF PipeInv, TypeOK, InSleep
    <2>3. CASE Waits(s)
        BY <2>2, <2>3 DEF Waits, Empty, Full
    <2>4. ASSUME NEW q \in Proc, WillWake(q, s) PROVE WillWake(q, s)'
        <3>1. q # p
            BY <2>1, <2>4 DEF WillWake
        <3>2. pc'[q] = pc[q] /\ call'[q] = call[q] /\ count'[q] = count[q] /\ Queued' = Queued
            BY <3>1 DEF PipeInv, TypeOK, Queued
        <3> QED
            BY <2>2, <2>4, <3>2 DEF WillWake
    <2> QED
        BY <2>2, <2>3, <2>4 DEF StaysForAReason
<1> QED
    BY <1>1, <1>2

\* An exiting process is outside the pipe.
LEMMA ExitJustified ==
    ASSUME PipeInv, SleepInv, MaxCount <= PIPESIZE, NEW p \in Proc, Exit(p)
    PROVE  SleepInv'
<1> USE ProcAssumption DEF Exit, Goto, Return, Holding, pipe, files, SleepInv
<1>1. GoesForAReason'
    BY DEF PipeInv, TypeOK, LockDiscipline, CallDiscipline, GoesForAReason, Waits, Empty, Full
<1>2. StaysForAReason'
    BY DEF PipeInv, TypeOK, LockDiscipline, CallDiscipline, GoesForAReason, StaysForAReason,
           InSleep, Waits, WillWake, Empty, Full, Queued, Sleeper
<1> QED
    BY <1>1, <1>2

\* A kill() takes a sleeper out of sleep().
LEMMA KillJustified ==
    ASSUME PipeInv, SleepInv, MaxCount <= PIPESIZE, NEW p \in Proc, Kill(p)
    PROVE  SleepInv'
<1> USE ProcAssumption DEF Kill, Goto, Return, Holding, pipe, files, SleepInv
<1>1. GoesForAReason'
    BY DEF PipeInv, TypeOK, LockDiscipline, CallDiscipline, GoesForAReason, Waits, Empty, Full
<1>2. StaysForAReason'
    BY DEF PipeInv, TypeOK, LockDiscipline, CallDiscipline, GoesForAReason, StaysForAReason,
           InSleep, Waits, WillWake, Empty, Full, Queued, Sleeper
<1> QED
    BY <1>1, <1>2

\* Whoever gets the lock finds every sleeper with a reason: no one was on the way.
LEMMA AcquireJustified ==
    ASSUME PipeInv, SleepInv, MaxCount <= PIPESIZE, NEW p \in Proc, Acquire(p)
    PROVE  SleepInv'
<1> USE ProcAssumption DEF Acquire, Goto, Return, Holding, pipe, files, SleepInv
<1>1. GoesForAReason'
    BY DEF PipeInv, TypeOK, LockDiscipline, CallDiscipline, GoesForAReason, Waits, Empty, Full
<1>2. StaysForAReason'
    BY DEF PipeInv, TypeOK, LockDiscipline, CallDiscipline, GoesForAReason, StaysForAReason,
           InSleep, Waits, WillWake, Empty, Full, Queued, Sleeper
<1> QED
    BY <1>1, <1>2

\* Nothing changed between the test in the while loop and sleep().
LEMMA DozeJustified ==
    ASSUME PipeInv, SleepInv, MaxCount <= PIPESIZE, NEW p \in Proc, Doze(p)
    PROVE  SleepInv'
<1> USE ProcAssumption DEF Doze, Goto, Return, Holding, pipe, files, SleepInv
<1>1. GoesForAReason'
    BY DEF PipeInv, TypeOK, LockDiscipline, CallDiscipline, GoesForAReason, Waits, Empty, Full
<1>2. StaysForAReason'
    <2> SUFFICES ASSUME NEW s \in Proc, InSleep(s)'
                 PROVE  Waits(s)' \/ \E q \in Proc : WillWake(q, s)'
        BY DEF StaysForAReason
    <2>1. lock = p /\ pc[p] = "sleep"
        BY DEF PipeInv, LockDiscipline
    <2>2. Waits(s)
        <3>1. CASE s = p
            BY <2>1, <3>1 DEF GoesForAReason
        <3>2. CASE s # p
            <4>1. InSleep(s)
                BY <3>2 DEF PipeInv, TypeOK, InSleep
            <4> QED
                BY <2>1, <4>1 DEF StaysForAReason, WillWake
        <3> QED
            BY <3>1, <3>2
    <2> QED
        BY <2>2 DEF Waits, Empty, Full
<1> QED
    BY <1>1, <1>2

\* From drowsy to asleep.
LEMMA SleepJustified ==
    ASSUME PipeInv, SleepInv, MaxCount <= PIPESIZE, NEW p \in Proc, Sleep(p)
    PROVE  SleepInv'
<1> USE ProcAssumption DEF Sleep, Goto, Return, Holding, pipe, files, SleepInv
<1>1. GoesForAReason'
    BY DEF PipeInv, TypeOK, LockDiscipline, CallDiscipline, GoesForAReason, Waits, Empty, Full
<1>2. StaysForAReason'
    BY DEF PipeInv, TypeOK, LockDiscipline, CallDiscipline, GoesForAReason, StaysForAReason,
           InSleep, Waits, WillWake, Empty, Full, Queued, Sleeper
<1> QED
    BY <1>1, <1>2

\* piperead() returns -1 of an empty pipe: writers do not sleep then.
LEMMA ReadFailJustified ==
    ASSUME PipeInv, SleepInv, MaxCount <= PIPESIZE, NEW p \in Proc, ReadFail(p)
    PROVE  SleepInv'
<1> USE ProcAssumption DEF ReadFail, Goto, Return, Holding, pipe, files, SleepInv
<1>1. GoesForAReason'
    BY DEF PipeInv, TypeOK, LockDiscipline, CallDiscipline, GoesForAReason, Waits, Empty, Full
<1>2. StaysForAReason'
    BY DEF PipeInv, TypeOK, LockDiscipline, CallDiscipline, GoesForAReason, StaysForAReason,
           InSleep, Waits, WillWake, Empty, Full, Queued, Sleeper
<1> QED
    BY <1>1, <1>2

\* piperead() finds the pipe empty and open.
LEMMA ReadBlockJustified ==
    ASSUME PipeInv, SleepInv, MaxCount <= PIPESIZE, NEW p \in Proc, ReadBlock(p)
    PROVE  SleepInv'
<1> USE ProcAssumption DEF ReadBlock, Goto, Return, Holding, pipe, files, SleepInv
<1>1. GoesForAReason'
    BY DEF PipeInv, TypeOK, LockDiscipline, CallDiscipline, GoesForAReason, Waits, Empty, Full
<1>2. StaysForAReason'
    BY DEF PipeInv, TypeOK, LockDiscipline, CallDiscipline, GoesForAReason, StaysForAReason,
           InSleep, Waits, WillWake, Empty, Full, Queued, Sleeper
<1> QED
    BY <1>1, <1>2

\* piperead() is going to copy, and to wake.
LEMMA ReadStartJustified ==
    ASSUME PipeInv, SleepInv, MaxCount <= PIPESIZE, NEW p \in Proc, ReadStart(p)
    PROVE  SleepInv'
<1> USE ProcAssumption DEF ReadStart, Goto, Return, Holding, pipe, files, SleepInv
<1>1. GoesForAReason'
    BY DEF PipeInv, TypeOK, LockDiscipline, CallDiscipline, GoesForAReason, Waits, Empty, Full
<1>2. StaysForAReason'
    BY DEF PipeInv, TypeOK, LockDiscipline, CallDiscipline, GoesForAReason, StaysForAReason,
           InSleep, Waits, WillWake, Empty, Full, Queued, Sleeper
<1> QED
    BY <1>1, <1>2

\* The reader that takes a byte out of a full pipe wakes the writers later.
LEMMA ReadByteJustified ==
    ASSUME PipeInv, SleepInv, MaxCount <= PIPESIZE, NEW p \in Proc, ReadByte(p)
    PROVE  SleepInv'
<1> USE ProcAssumption DEF ReadByte, Goto, Return, Holding, pipe, files, SleepInv
<1>1. GoesForAReason'
    BY DEF PipeInv, TypeOK, LockDiscipline, CallDiscipline, GoesForAReason, Waits, Empty, Full
<1>2. StaysForAReason'
    BY DEF PipeInv, TypeOK, LockDiscipline, CallDiscipline, GoesForAReason, StaysForAReason,
           InSleep, Waits, WillWake, Empty, Full, Queued, Sleeper
<1> QED
    BY <1>1, <1>2

\* piperead() leaves its loop, for the wakeup().
LEMMA ReadDoneJustified ==
    ASSUME PipeInv, SleepInv, MaxCount <= PIPESIZE, NEW p \in Proc, ReadDone(p)
    PROVE  SleepInv'
<1> USE ProcAssumption DEF ReadDone, Goto, Return, Holding, pipe, files, SleepInv
<1>1. GoesForAReason'
    BY DEF PipeInv, TypeOK, LockDiscipline, CallDiscipline, GoesForAReason, Waits, Empty, Full
<1>2. StaysForAReason'
    BY DEF PipeInv, TypeOK, LockDiscipline, CallDiscipline, GoesForAReason, StaysForAReason,
           InSleep, Waits, WillWake, Empty, Full, Queued, Sleeper
<1> QED
    BY <1>1, <1>2

\* pipewrite() returns -1 of a full pipe, without wakeup(): no reader sleeps then.
LEMMA WriteFailJustified ==
    ASSUME PipeInv, SleepInv, MaxCount <= PIPESIZE, NEW p \in Proc, WriteFail(p)
    PROVE  SleepInv'
<1> USE ProcAssumption DEF WriteFail, Goto, Return, Holding, pipe, files, SleepInv
<1>1. GoesForAReason'
    BY DEF PipeInv, TypeOK, LockDiscipline, CallDiscipline, GoesForAReason, Waits, Empty, Full
<1>2. StaysForAReason'
    <2> SUFFICES ASSUME NEW s \in Proc, InSleep(s)'
                 PROVE  Waits(s)' \/ \E q \in Proc : WillWake(q, s)'
        BY DEF StaysForAReason
    <2>1. lock = p
        BY DEF PipeInv, LockDiscipline
    <2>2. s # p /\ InSleep(s)
        BY DEF PipeInv, TypeOK, InSleep
    <2>3. Queued + count[p] > PIPESIZE
        BY EmptyIsNone, SizeAssumption DEF PipeInv, TypeOK
    <2>4. ~\E q \in Proc : WillWake(q, s)
        BY <2>1, <2>3, EmptyIsNone, SizeAssumption DEF WillWake, PipeInv, TypeOK
    <2>5. Waits(s)
        BY <2>2, <2>4 DEF StaysForAReason
    <2> QED
        BY <2>2, <2>5 DEF Waits, Empty, Full, PipeInv, TypeOK
<1> QED
    BY <1>1, <1>2

\* pipewrite() finds the pipe full and open.
LEMMA WriteBlockJustified ==
    ASSUME PipeInv, SleepInv, MaxCount <= PIPESIZE, NEW p \in Proc, WriteBlock(p)
    PROVE  SleepInv'
<1> USE ProcAssumption DEF WriteBlock, Goto, Return, Holding, pipe, files, SleepInv
<1>1. GoesForAReason'
    BY DEF PipeInv, TypeOK, LockDiscipline, CallDiscipline, GoesForAReason, Waits, Empty, Full
<1>2. StaysForAReason'
    BY DEF PipeInv, TypeOK, LockDiscipline, CallDiscipline, GoesForAReason, StaysForAReason,
           InSleep, Waits, WillWake, Empty, Full, Queued, Sleeper
<1> QED
    BY <1>1, <1>2

\* The writer that puts a byte into an empty pipe will not fill it before its wakeup().
LEMMA WriteByteJustified ==
    ASSUME PipeInv, SleepInv, MaxCount <= PIPESIZE, NEW p \in Proc, WriteByte(p)
    PROVE  SleepInv'
<1> USE ProcAssumption DEF WriteByte, Goto, Return, Holding, pipe, files, SleepInv
<1>1. GoesForAReason'
    BY DEF PipeInv, TypeOK, LockDiscipline, CallDiscipline, GoesForAReason, Waits, Empty, Full
<1>2. StaysForAReason'
    <2> SUFFICES ASSUME NEW s \in Proc, InSleep(s)'
                 PROVE  Waits(s)' \/ \E q \in Proc : WillWake(q, s)'
        BY DEF StaysForAReason
    <2>1. lock = p /\ lock' = p /\ call[p] = "write" /\ call' = call /\ pc' = pc
        BY DEF PipeInv, LockDiscipline
    <2>2. InSleep(s) /\ call[s] \in {"read", "write"}
        BY <2>1 DEF PipeInv, CallDiscipline, InSleep
    <2>3. call[s] = "read"
        BY <2>1, <2>2 DEF StaysForAReason, Waits, WillWake, Sleeper
    <2>4. Queued \in Nat /\ count[p] \in 1..MaxCount /\ count'[p] = count[p] - 1
        BY EmptyIsNone, SizeAssumption DEF PipeInv, TypeOK
    <2>5. Queued + count[p] <= PIPESIZE
        <3>1. CASE Waits(s)
            <4>1. Queued = 0
                BY <2>3, <3>1, EmptyIsNone DEF Waits, PipeInv
            <4> QED
                BY <2>4, <4>1, SizeAssumption
        <3>2. CASE \E q \in Proc : WillWake(q, s)
            BY <2>1, <3>2 DEF WillWake
        <3> QED
            BY <2>2, <3>1, <3>2 DEF StaysForAReason
    <2>6. Queued' = Queued + 1
        BY OneMore DEF PipeInv
    <2>7. Queued' + count'[p] <= PIPESIZE
        BY <2>4, <2>5, <2>6, SizeAssumption
    <2>8. WillWake(p, s)'
        BY <2>1, <2>3, <2>7 DEF WillWake, Sleeper
    <2> QED
        BY <2>8
<1> QED
    BY <1>1, <1>2

\* pipewrite() leaves its loop, for the wakeup().
LEMMA WriteDoneJustified ==
    ASSUME PipeInv, SleepInv, MaxCount <= PIPESIZE, NEW p \in Proc, WriteDone(p)
    PROVE  SleepInv'
<1> USE ProcAssumption DEF WriteDone, Goto, Return, Holding, pipe, files, SleepInv
<1>1. GoesForAReason'
    BY DEF PipeInv, TypeOK, LockDiscipline, CallDiscipline, GoesForAReason, Waits, Empty, Full
<1>2. StaysForAReason'
    BY DEF PipeInv, TypeOK, LockDiscipline, CallDiscipline, GoesForAReason, StaysForAReason,
           InSleep, Waits, WillWake, Empty, Full, Queued, Sleeper
<1> QED
    BY <1>1, <1>2

\* Closing an end is followed by a wakeup().
LEMMA CloseEndJustified ==
    ASSUME PipeInv, SleepInv, MaxCount <= PIPESIZE, NEW p \in Proc, CloseEnd(p)
    PROVE  SleepInv'
<1> USE ProcAssumption DEF CloseEnd, Goto, Return, Holding, pipe, files, SleepInv
<1>1. GoesForAReason'
    BY DEF PipeInv, TypeOK, LockDiscipline, CallDiscipline, GoesForAReason, Waits, Empty, Full
<1>2. StaysForAReason'
    BY DEF PipeInv, TypeOK, LockDiscipline, CallDiscipline, GoesForAReason, StaysForAReason,
           InSleep, Waits, WillWake, Empty, Full, Queued, Sleeper
<1> QED
    BY <1>1, <1>2

\* The wakeup() before the sleep() of pipewrite(): the rest of the sleepers have a reason.
LEMMA WakeAndSleepJustified ==
    ASSUME PipeInv, SleepInv, MaxCount <= PIPESIZE, NEW p \in Proc, WakeAndSleep(p)
    PROVE  SleepInv'
<1> USE ProcAssumption DEF WakeAndSleep, Goto, Return, Holding, pipe, files, SleepInv
<1>1. GoesForAReason'
    <2>1. lock = p
        BY DEF PipeInv, LockDiscipline
    <2>2. \A s \in Proc : pc'[s] \in {"sleep", "wake"} => s = p
        BY <2>1 DEF PipeInv, LockDiscipline, Woken
    <2>3. Waits(p)' /\ pc'[p] = "sleep"
        BY DEF GoesForAReason, Waits, Empty, Full, Woken
    <2> QED
        BY <2>2, <2>3 DEF GoesForAReason
<1>2. StaysForAReason'
    <2> SUFFICES ASSUME NEW s \in Proc, InSleep(s)'
                 PROVE  Waits(s)' \/ \E q \in Proc : WillWake(q, s)'
        BY DEF StaysForAReason
    <2>1. lock = p
        BY DEF PipeInv, LockDiscipline
    <2>2. s # p /\ InSleep(s) /\ pc[s] = "asleep" /\ call[s] # Sleeper(call[p])
        BY DEF PipeInv, LockDiscipline, InSleep, Woken
    <2>3. Waits(s)
        BY <2>1, <2>2 DEF StaysForAReason, WillWake
    <2> QED
        BY <2>2, <2>3 DEF Waits, Empty, Full, PipeInv, TypeOK
<1> QED
    BY <1>1, <1>2

\* The last wakeup() of a call: the rest of the sleepers have a reason.
LEMMA WakeAndReturnJustified ==
    ASSUME PipeInv, SleepInv, MaxCount <= PIPESIZE, NEW p \in Proc, WakeAndReturn(p)
    PROVE  SleepInv'
<1> USE ProcAssumption DEF WakeAndReturn, Goto, Return, Holding, pipe, files, SleepInv
<1>1. GoesForAReason'
    <2>1. lock = p
        BY DEF PipeInv, LockDiscipline
    <2>2. \A s \in Proc : pc'[s] \notin {"sleep", "wake"}
        BY <2>1 DEF PipeInv, LockDiscipline, Woken
    <2> QED
        BY <2>2 DEF GoesForAReason
<1>2. StaysForAReason'
    <2> SUFFICES ASSUME NEW s \in Proc, InSleep(s)'
                 PROVE  Waits(s)' \/ \E q \in Proc : WillWake(q, s)'
        BY DEF StaysForAReason
    <2>1. lock = p
        BY DEF PipeInv, LockDiscipline
    <2>2. s # p /\ InSleep(s) /\ pc[s] = "asleep" /\ call[s] # Sleeper(call[p])
        BY DEF PipeInv, LockDiscipline, InSleep, Woken
    <2>3. Waits(s)
        BY <2>1, <2>2 DEF StaysForAReason, WillWake
    <2> QED
        BY <2>2, <2>3 DEF Waits, Empty, Full, PipeInv, TypeOK
<1> QED
    BY <1>1, <1>2

-----------------------------------------------------------------------------
(* The invariant *)

\* Nobody sleeps when the pipe is made.
LEMMA InitSleep == Init => SleepInv
BY ProcAssumption DEF Init, SleepInv, GoesForAReason, StaysForAReason, InSleep

\* No step of any process leaves a sleeper without a reason or a waker.
LEMMA NextSleep ==
    ASSUME MaxCount <= PIPESIZE
    PROVE  PipeInv /\ SleepInv /\ [Next]_vars => SleepInv'
<1> SUFFICES ASSUME PipeInv, SleepInv, [Next]_vars PROVE SleepInv'
    OBVIOUS
<1>1. CASE UNCHANGED vars
    BY <1>1 DEF vars, pipe, files, SleepInv, GoesForAReason, StaysForAReason, InSleep,
                Waits, WillWake, Empty, Full, Queued
<1>2. ASSUME NEW p \in Proc, PipeStep(p) PROVE SleepInv'
    BY <1>2, AcquireJustified, DozeJustified, SleepJustified, ReadFailJustified,
       ReadBlockJustified, ReadStartJustified, ReadByteJustified, ReadDoneJustified,
       WriteFailJustified, WriteBlockJustified, WriteByteJustified, WriteDoneJustified,
       CloseEndJustified, WakeAndSleepJustified, WakeAndReturnJustified DEF PipeStep
<1>3. ASSUME NEW p \in Proc, UserStep(p) PROVE SleepInv'
    BY <1>3, CallReadJustified, CallWriteJustified, KillJustified, ExitJustified,
       ForkJustified, CloseFdJustified DEF UserStep
<1> QED
    BY <1>1, <1>2, <1>3 DEF Next

\* The invariant says what the run checks.
LEMMA Justified == PipeInv /\ SleepInv => SleepIsJustified
<1> SUFFICES ASSUME PipeInv, SleepInv, NEW p \in Proc, InSleep(p)
             PROVE  /\ call[p] = "read"  => (Empty /\ writeopen) \/ WakeupDue("read")
                    /\ call[p] = "write" => (Full /\ readopen) \/ WakeupDue("write")
    BY DEF SleepIsJustified
<1>1. CASE Waits(p)
    BY <1>1 DEF Waits
<1>2. ASSUME NEW q \in Proc, WillWake(q, p) PROVE WakeupDue(call[p])
    BY <1>2 DEF WillWake, WakeupDue, PipeInv, CallDiscipline
<1> QED
    BY <1>1, <1>2 DEF SleepInv, StaysForAReason

\* No wakeup is lost: a process that sleeps in piperead() finds the pipe empty and
\* its write end open, one in pipewrite() full and its read end open, or else the
\* process in the pipe is about to wake it.  Provided that no write() is larger
\* than the pipe, for pipewrite() may return -1 without its wakeup().
THEOREM NobodySleepsForNothing ==
    ASSUME MaxCount <= PIPESIZE
    PROVE  Spec => []SleepIsJustified
<1>1. Init => SleepInv
    BY InitSleep
<1>2. PipeInv /\ SleepInv /\ [Next]_vars => SleepInv'
    BY NextSleep
<1>3. PipeInv /\ SleepInv => SleepIsJustified
    BY Justified
<1> QED
    BY <1>1, <1>2, <1>3, PipeInvariant, PTL DEF Spec

-----------------------------------------------------------------------------
(* The ring *)

\* Division by PIPESIZE.
LEMMA Division ==
    ASSUME NEW x \in Int
    PROVE  /\ x = PIPESIZE * (x \div PIPESIZE) + (x % PIPESIZE)
           /\ x % PIPESIZE \in 0..(PIPESIZE - 1) /\ x \div PIPESIZE \in Int
BY SizeAssumption

\* A multiple of PIPESIZE is no smaller than PIPESIZE.
LEMMA Multiple == ASSUME NEW k \in Int PROVE k >= 1 => PIPESIZE * k >= PIPESIZE
<1>1. k >= 1 => PIPESIZE * (k - 1) >= 0
    BY SizeAssumption
<1>2. PIPESIZE * (k - 1) = PIPESIZE * k - PIPESIZE
    BY SizeAssumption
<1> QED
    BY <1>1, <1>2, SizeAssumption

\* A remainder is unique.
LEMMA Remainder ==
    ASSUME NEW a \in Int, NEW b \in Int, NEW r \in 0..(PIPESIZE - 1),
           NEW s \in 0..(PIPESIZE - 1), PIPESIZE * a + r = PIPESIZE * b + s
    PROVE  r = s
<1>1. PIPESIZE * (a - b) = s - r /\ PIPESIZE * (b - a) = r - s
    BY SizeAssumption
<1>2. ~(a - b >= 1) /\ ~(b - a >= 1)
    BY <1>1, Multiple, SizeAssumption
<1>3. a = b
    BY <1>2
<1> QED
    BY <1>1, <1>3, SizeAssumption

\* A counter that has wrapped still names its slot: PIPESIZE divides WRAP.
LEMMA Turn == ASSUME NEW x \in Int PROVE (x - WRAP) % PIPESIZE = x % PIPESIZE
<1> DEFINE k == WRAP \div PIPESIZE
<1>1. WRAP = PIPESIZE * k /\ k \in Int
    BY Division, SizeAssumption
<1> HIDE DEF k
<1>2. PICK y \in Int : y = x - WRAP
    BY SizeAssumption
<1>3. y = PIPESIZE * (x \div PIPESIZE - k) + (x % PIPESIZE)
    <2>1. PICK q \in Int : q = x \div PIPESIZE
        BY Division
    <2>2. x % PIPESIZE \in 0..(PIPESIZE - 1) /\ x = PIPESIZE * q + (x % PIPESIZE)
        BY <2>1, Division
    <2>3. PIPESIZE * (q - k) = PIPESIZE * q - PIPESIZE * k
        BY <1>1, SizeAssumption
    <2> QED
        BY <1>1, <1>2, <2>1, <2>2, <2>3, SizeAssumption
<1>4. y = PIPESIZE * (y \div PIPESIZE) + (y % PIPESIZE)
    BY Division
<1>5. /\ x \div PIPESIZE - k \in Int /\ y \div PIPESIZE \in Int
      /\ x % PIPESIZE \in 0..(PIPESIZE - 1) /\ y % PIPESIZE \in 0..(PIPESIZE - 1)
    BY <1>1, Division
<1>6. y % PIPESIZE = x % PIPESIZE
    BY <1>3, <1>4, <1>5, Remainder
<1> QED
    BY <1>2, <1>6, SizeAssumption

\* Less than PIPESIZE apart, two bytes have two slots.
LEMMA Apart ==
    ASSUME NEW x \in Int, NEW y \in Int, x < y, y < x + PIPESIZE
    PROVE  x % PIPESIZE # y % PIPESIZE
<1> SUFFICES ASSUME x % PIPESIZE = y % PIPESIZE PROVE FALSE
    OBVIOUS
<1>1. PICK a \in Int, b \in Int, r \in 0..(PIPESIZE - 1) :
          x = PIPESIZE * a + r /\ y = PIPESIZE * b + r
    BY Division
<1>2. PIPESIZE * (b - a) = y - x /\ PIPESIZE * (a - b) = x - y
    BY <1>1, SizeAssumption
<1>3. ~(b - a >= 1)
    BY <1>2, Multiple, SizeAssumption
<1>4. b - a = 0 \/ a - b >= 1
    BY <1>3
<1>5. CASE b - a = 0
    BY <1>2, <1>5, SizeAssumption
<1>6. CASE a - b >= 1
    BY <1>2, <1>6, Multiple, SizeAssumption
<1> QED
    BY <1>4, <1>5, <1>6

-----------------------------------------------------------------------------
(* The queue between the counters *)

\* The n bytes from counter r on, in the array d.
SlotOf(r, i) == (r + i - 1) % PIPESIZE
Ring(r, n, d) == [i \in 1..n |-> d[SlotOf(r, i)]]

\* What lies between the counters is a sequence of bytes.
LEMMA RingIsQueue ==
    ASSUME NEW r \in Int, NEW n \in 0..PIPESIZE, NEW d \in [0..(PIPESIZE - 1) -> Byte]
    PROVE  /\ Ring(r, n, d) \in Seq(Byte) /\ Len(Ring(r, n, d)) = n
           /\ \A i \in 1..n : SlotOf(r, i) \in 0..(PIPESIZE - 1)
<1>1. n \in Nat
    BY SizeAssumption
<1>2. \A i \in 1..n : r + i - 1 \in Int
    OBVIOUS
<1>3. \A i \in 1..n : SlotOf(r, i) \in 0..(PIPESIZE - 1)
    BY <1>2, Division DEF SlotOf
<1>4. \A i \in 1..n : d[SlotOf(r, i)] \in Byte
    BY <1>3
<1>5. Ring(r, n, d) \in Seq(Byte)
    BY <1>1, <1>4, IsASeq DEF Ring
<1> QED
    BY <1>1, <1>3, <1>5 DEF Ring

\* A byte that goes in right behind the last one is appended; no other byte changes.
LEMMA RingPut ==
    ASSUME NEW r \in Int, NEW n \in 0..PIPESIZE, n < PIPESIZE,
           NEW d \in [0..(PIPESIZE - 1) -> Byte], NEW b \in Byte
    PROVE  Ring(r, n + 1, [d EXCEPT ![SlotOf(r, n + 1)] = b]) = Append(Ring(r, n, d), b)
<1> DEFINE e == [d EXCEPT ![SlotOf(r, n + 1)] = b]
           s == Ring(r, n + 1, e)
           t == Append(Ring(r, n, d), b)
<1>1. n \in Nat /\ n + 1 \in 0..PIPESIZE /\ e \in [0..(PIPESIZE - 1) -> Byte]
    <2>1. n \in Nat /\ n + 1 \in 0..PIPESIZE
        BY SizeAssumption
    <2>2. e \in [0..(PIPESIZE - 1) -> Byte]
        OBVIOUS
    <2> QED
        BY <2>1, <2>2
<1>2. s \in Seq(Byte) /\ Len(s) = n + 1 /\ SlotOf(r, n + 1) \in 0..(PIPESIZE - 1)
    <2> HIDE DEF e
    <2>1. n + 1 \in 1..(n + 1)
        BY <1>1
    <2> QED
        BY <1>1, <2>1, RingIsQueue
<1>3. /\ Ring(r, n, d) \in Seq(Byte) /\ Len(Ring(r, n, d)) = n
      /\ \A i \in 1..n : SlotOf(r, i) \in 0..(PIPESIZE - 1)
    BY RingIsQueue
<1>4. /\ t \in Seq(Byte) /\ Len(t) = n + 1 /\ t[n + 1] = b
      /\ \A i \in 1..n : t[i] = Ring(r, n, d)[i]
    BY <1>3, AppendProperties
<1>5. \A i \in 1..n : e[SlotOf(r, i)] = d[SlotOf(r, i)]
    <2> SUFFICES ASSUME NEW i \in 1..n PROVE SlotOf(r, i) # SlotOf(r, n + 1)
        BY <1>2, <1>3
    <2>1. r + i - 1 \in Int /\ r + (n + 1) - 1 \in Int
        BY <1>1
    <2>2. r + i - 1 < r + (n + 1) - 1 /\ r + (n + 1) - 1 < (r + i - 1) + PIPESIZE
        BY <1>1, SizeAssumption
    <2> QED
        BY <2>1, <2>2, Apart DEF SlotOf
<1>6. e[SlotOf(r, n + 1)] = b
    BY <1>2
<1>7. \A i \in 1..(n + 1) : s[i] = t[i]
    <2> SUFFICES ASSUME NEW i \in 1..(n + 1) PROVE s[i] = t[i]
        OBVIOUS
    <2>1. s[i] = e[SlotOf(r, i)]
        BY DEF Ring
    <2> HIDE DEF e, s, t
    <2>2. CASE i = n + 1
        BY <1>4, <1>6, <2>1, <2>2
    <2>3. CASE i \in 1..n
        <3>1. t[i] = d[SlotOf(r, i)]
            BY <1>4, <2>3 DEF Ring
        <3> QED
            BY <1>5, <2>1, <2>3, <3>1
    <2> QED
        BY <1>1, <2>2, <2>3
<1> HIDE DEF s, t
<1>8. s = t
    BY <1>2, <1>4, <1>7, SeqEqual
<1> QED
    BY <1>8 DEF s, t

\* A counter that moves on by one, wrapping or not, takes the first byte out.
LEMMA RingGet ==
    ASSUME NEW r \in Int, NEW n \in 0..PIPESIZE, n > 0, NEW m \in Int,
           m = r + 1 \/ m = r + 1 - WRAP, NEW d \in [0..(PIPESIZE - 1) -> Byte]
    PROVE  /\ Ring(r, n, d) # <<>> /\ Head(Ring(r, n, d)) = d[r % PIPESIZE]
           /\ Ring(m, n - 1, d) = Tail(Ring(r, n, d))
<1>1. n \in Nat /\ n - 1 \in 0..PIPESIZE /\ WRAP \in Int
    BY SizeAssumption
<1>2. Ring(r, n, d) \in Seq(Byte) /\ Len(Ring(r, n, d)) = n /\ Ring(r, n, d) # <<>>
    <2>1. Ring(r, n, d) \in Seq(Byte) /\ Len(Ring(r, n, d)) = n
        BY RingIsQueue
    <2> QED
        BY <1>1, <2>1
<1>3. Ring(m, n - 1, d) \in Seq(Byte) /\ Len(Ring(m, n - 1, d)) = n - 1
    BY <1>1, RingIsQueue
<1>4. Head(Ring(r, n, d)) = d[r % PIPESIZE]
    <2>1. Head(Ring(r, n, d)) = Ring(r, n, d)[1]
        BY <1>2
    <2>2. Ring(r, n, d)[1] = d[SlotOf(r, 1)]
        BY <1>1 DEF Ring
    <2>3. r + 1 - 1 = r
        OBVIOUS
    <2> QED
        BY <2>1, <2>2, <2>3 DEF SlotOf
<1>5. \A i \in 1..(n - 1) : SlotOf(m, i) = SlotOf(r, i + 1)
    <2> SUFFICES ASSUME NEW i \in 1..(n - 1)
                 PROVE  (m + i - 1) % PIPESIZE = (r + (i + 1) - 1) % PIPESIZE
        BY DEF SlotOf
    <2>1. PICK x \in Int : x = r + (i + 1) - 1
        OBVIOUS
    <2>2. m + i - 1 = x \/ m + i - 1 = x - WRAP
        BY <1>1, <2>1
    <2> QED
        BY <2>1, <2>2, Turn
<1>6. /\ Tail(Ring(r, n, d)) \in Seq(Byte) /\ Len(Tail(Ring(r, n, d))) = n - 1
      /\ \A i \in 1..(n - 1) : Tail(Ring(r, n, d))[i] = Ring(r, n, d)[i + 1]
    BY <1>2, HeadTailProperties
<1>7. \A i \in 1..(n - 1) : Ring(m, n - 1, d)[i] = Tail(Ring(r, n, d))[i]
    <2> SUFFICES ASSUME NEW i \in 1..(n - 1)
                 PROVE  Ring(m, n - 1, d)[i] = Ring(r, n, d)[i + 1]
        BY <1>6
    <2>1. i + 1 \in 1..n
        BY <1>1
    <2> QED
        BY <1>5, <2>1 DEF Ring
<1> QED
    BY <1>2, <1>3, <1>4, <1>6, <1>7, SeqEqual

-----------------------------------------------------------------------------
(* The refinement *)

\* The queue that Pipe's mapping gives ByteQueue.
Contents == Ring(nread, Queued, data)

\* The next byte written goes right behind the last one.
LEMMA SlotIsBehind == ASSUME TypeOK PROVE Slot = SlotOf(nread, Queued + 1)
<1>1. Queued \in Nat /\ nread \in Int /\ nwrite \in Int /\ WRAP \in Int
    BY EmptyIsNone, SizeAssumption DEF TypeOK
<1>2. nread + Queued = nwrite \/ nread + Queued = nwrite + WRAP
    <2>1. Queued = IF nwrite >= nread THEN nwrite - nread ELSE nwrite - nread + WRAP
        BY Distance DEF TypeOK, Queued
    <2> QED
        BY <1>1, <2>1
<1>3. PICK x \in Int : x = nread + (Queued + 1) - 1
    BY <1>1
<1>4. x = nwrite \/ x - WRAP = nwrite
    BY <1>1, <1>2, <1>3
<1>5. x % PIPESIZE = nwrite % PIPESIZE
    BY <1>4, Turn
<1> QED
    BY <1>3, <1>5 DEF Slot, SlotOf

\* A new pipe is an empty queue.
LEMMA InitQueue == Init => Queue!Init
<1> SUFFICES ASSUME Init PROVE Queue!Init
    OBVIOUS
<1>1. Queued = 0
    BY Wrapping, SizeAssumption DEF Init, Queued
<1>2. [i \in 1..Queued |-> data[(nread + i - 1) % PIPESIZE]] = <<>>
    BY <1>1
<1> QED
    BY <1>2 DEF Init, Queue!Init

\* A byte that pipewrite() copies is put into the queue, which has room and is open.
LEMMA WriteIsPut ==
    ASSUME PipeInv, NEW p \in Proc, WriteByte(p) PROVE \E b \in Byte : Queue!Put(b)
<1>1. PICK b \in Byte : data' = [data EXCEPT ![Slot] = b]
    BY DEF WriteByte
<1>2. TypeOK /\ ~Full /\ nwrite' = (nwrite + 1) % WRAP /\ nread' = nread
    BY DEF WriteByte, PipeInv
<1>3. Queued' = Queued + 1 /\ Queued \in 0..PIPESIZE /\ Queued < PIPESIZE
    BY <1>2, OneMore, EmptyIsNone, SizeAssumption
<1>4. nread \in Int /\ data \in [0..(PIPESIZE - 1) -> Byte]
    BY <1>2, SizeAssumption DEF TypeOK
<1>5. Ring(nread', Queued', data') = Append(Contents, b)
    BY <1>1, <1>2, <1>3, <1>4, SlotIsBehind, RingPut DEF Contents
<1>6. Len(Contents) < PIPESIZE
    BY <1>3, <1>4, RingIsQueue DEF Contents
<1>7. writeopen
    <2>1. "w" \in Ends /\ "w" \in holds[p]
        BY DEF WriteByte, Holding, PipeInv, CallDiscipline, Ends
    <2> QED
        BY <2>1, HoldersAreFinite DEF PipeInv, ClosedByLast, IsOpen
<1>8. UNCHANGED <<out, readopen, writeopen>>
    BY DEF WriteByte
<1> QED
    BY <1>5, <1>6, <1>7, <1>8 DEF Queue!Put, Contents, Ring, SlotOf

\* A byte that piperead() copies is the first of the queue, which is open.
LEMMA ReadIsGet ==
    ASSUME PipeInv, NEW p \in Proc, ReadByte(p) PROVE Queue!Get
<1>1. /\ TypeOK /\ ~Empty /\ nread' = (nread + 1) % WRAP /\ nwrite' = nwrite
      /\ out' = data[nread % PIPESIZE] /\ UNCHANGED <<data, readopen, writeopen>>
    BY DEF ReadByte, PipeInv
<1>2. Queued' = Queued - 1 /\ Queued \in 0..PIPESIZE /\ Queued > 0
    BY <1>1, OneLess, EmptyIsNone, SizeAssumption
<1>3. nread \in Int /\ data \in [0..(PIPESIZE - 1) -> Byte]
    BY <1>1, SizeAssumption DEF TypeOK
<1>4. nread' \in Int /\ (nread' = nread + 1 \/ nread' = nread + 1 - WRAP)
    <2>1. nread' = IF nread = WRAP - 1 THEN 0 ELSE nread + 1
        BY <1>1, Increment DEF TypeOK
    <2> QED
        BY <1>3, <2>1, SizeAssumption
<1>5. /\ Contents # <<>> /\ out' = Head(Contents)
      /\ Ring(nread', Queued', data') = Tail(Contents)
    BY <1>1, <1>2, <1>3, <1>4, RingGet DEF Contents
<1>6. readopen
    <2>1. "r" \in Ends /\ "r" \in holds[p]
        BY DEF ReadByte, PipeInv, CallDiscipline, Ends
    <2> QED
        BY <2>1, HoldersAreFinite DEF PipeInv, ClosedByLast, IsOpen
<1> QED
    BY <1>1, <1>5, <1>6 DEF Queue!Get, Contents, Ring, SlotOf

\* Every step of Pipe is a step of ByteQueue, or leaves the queue as it is.
LEMMA StepQueue == PipeInv /\ [Next]_vars => [Queue!Next]_(Queue!vars)
<1> SUFFICES ASSUME PipeInv, [Next]_vars PROVE [Queue!Next]_(Queue!vars)
    OBVIOUS
<1>1. UNCHANGED pipe => UNCHANGED Queue!vars
    BY DEF pipe, Queue!vars, Queued
<1>2. CASE UNCHANGED vars
    BY <1>1, <1>2 DEF vars
<1>3. ASSUME NEW p \in Proc, PipeStep(p) PROVE [Queue!Next]_(Queue!vars)
    <2>1. CASE WriteByte(p)
        BY <2>1, WriteIsPut DEF Queue!Next
    <2>2. CASE ReadByte(p)
        BY <2>2, ReadIsGet DEF Queue!Next
    <2>3. CASE CloseEnd(p)
        BY <2>3 DEF CloseEnd, Queue!Next, Queue!CloseRead, Queue!CloseWrite, Queued
    <2>4. CASE WakeAndReturn(p)
        BY <2>4 DEF WakeAndReturn, Queue!vars, Queued
    <2>5. CASE ~(WriteByte(p) \/ ReadByte(p) \/ CloseEnd(p) \/ WakeAndReturn(p))
        <3>1. UNCHANGED pipe
            BY <1>3, <2>5 DEF PipeStep, Acquire, Doze, Sleep, ReadFail, ReadBlock,
               ReadStart, ReadDone, WriteFail, WriteBlock, WriteDone, WakeAndSleep
        <3> QED
            BY <1>1, <3>1
    <2> QED
        BY <2>1, <2>2, <2>3, <2>4, <2>5
<1>4. ASSUME NEW p \in Proc, UserStep(p) PROVE [Queue!Next]_(Queue!vars)
    <2>1. UNCHANGED pipe
        BY <1>4 DEF UserStep, CallRead, CallWrite, Kill, Exit, Fork, CloseFd
    <2> QED
        BY <1>1, <2>1
<1> QED
    BY <1>2, <1>3, <1>4 DEF Next

\* A pipe is a first-in first-out queue of at most PIPESIZE bytes: whatever is
\* interrupted, killed or closed, piperead() returns the bytes pipewrite() took, in
\* their order, none twice, however often the counters have wrapped.
THEOREM PipeIsAQueue == Spec => ImplementsByteQueue
<1> QED
    BY InitQueue, StepQueue, PipeInvariant, PTL DEF Spec, ImplementsByteQueue, Queue!Spec

=============================================================================
