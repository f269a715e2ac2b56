--------------------------- MODULE BufCacheProofs ---------------------------
(***************************************************************************)
(* Proofs about BufCache, for every finite set of processes and every      *)
(* number of buffers, blocks and values: the buffer cache counts its users *)
(* and keeps one copy of a block, the disk driver loses no request, and    *)
(* BufCache implements BlockStore: a block is one register under one lock. *)
(***************************************************************************)
EXTENDS BufCache, FiniteSetTheorems, WellFoundedInduction, TLAPS

\* A buffer for each process beyond those log_write() keeps dirty.
Enough == Cardinality(Proc) + MaxPinned <= NBUF

IInv == WellFormed /\ SleepersAreServed

-----------------------------------------------------------------------------
(* What the actions have in common *)

\* The users of a buffer, and the buffers, are finitely many.
LEMMA Finite ==
    /\ IsFiniteSet(Buf) /\ Cardinality(Buf) = NBUF
    /\ Cardinality(Proc) \in Nat
    /\ \A x : IsFiniteSet(Users(x))
<1>1. IsFiniteSet(Buf) /\ Cardinality(Buf) = NBUF
    BY SizeAssumption, FS_Interval DEF Buf
<1>2. Cardinality(Proc) \in Nat
    BY ProcAssumption, FS_CardinalityType
<1>3. ASSUME NEW x PROVE IsFiniteSet(Users(x))
    BY ProcAssumption, FS_Subset DEF Users
<1> QED
    BY <1>1, <1>2, <1>3

\* Who begins or ends to use a buffer counts; else the count stays.
LEMMA SameUsers ==
    ASSUME WellFormed, UNCHANGED <<refcnt, blockno>>,
           \A p \in Proc : at'[p] = at[p] /\ (pc'[p] = "idle" <=> pc[p] = "idle")
    PROVE  RefcntCountsUsers'
<1>1. \A x : Users(x)' = Users(x)
    BY DEF Users
<1>2. \A x \in Buf : refcnt'[x] = Cardinality(Users(x)')
    BY <1>1 DEF WellFormed, RefcntCountsUsers
<1>3. \A p \in Proc : pc'[p] # "idle" => blockno'[at'[p]] # NoBlock
    BY DEF WellFormed, RefcntCountsUsers
<1> QED
    BY <1>2, <1>3 DEF RefcntCountsUsers

\* The log pins no more than before.
LEMMA NoMoreKept ==
    ASSUME WellFormed, Kept' \subseteq Kept PROVE Cardinality(Kept') <= MaxPinned
<1>1. IsFiniteSet(Kept)
    BY Finite, FS_Subset DEF Kept, Pinned
<1>2. Cardinality(Kept') <= Cardinality(Kept) /\ Cardinality(Kept) \in Nat
    BY <1>1, FS_Subset, FS_CardinalityType
<1>3. Cardinality(Kept') \in Nat
    BY <1>1, FS_Subset, FS_CardinalityType
<1> QED
    BY <1>2, <1>3, SizeAssumption DEF WellFormed

\* The first request in the queue is a request.
LEMMA HeadIsRequested ==
    ASSUME TypeOK, QueueMatchesRequests, idequeue # <<>>
    PROVE  Head(idequeue) \in Requested /\ Head(idequeue) \in Buf /\ Head(idequeue) = idequeue[1]
<1>1. Len(idequeue) >= 1 /\ 1 \in 1..Len(idequeue) /\ Head(idequeue) = idequeue[1]
    BY DEF TypeOK
<1> QED
    BY <1>1 DEF QueueMatchesRequests, Requested

\* The driver has nothing to do with what changes elsewhere.
LEMMA SameQueue ==
    ASSUME IInv, UNCHANGED <<idequeue, chip>>, Requested' = Requested,
           \A x \in Requested :
              /\ flags'[x] = flags[x] /\ data'[x] = data[x]
              /\ blockno'[x] = blockno[x] /\ disk'[blockno[x]] = disk[blockno[x]]
    PROVE  QueueMatchesRequests'
<1>1. QueueMatchesRequests /\ TypeOK
    BY DEF IInv, WellFormed, SleepersAreServed
<1>2. CASE idequeue = <<>>
    BY <1>1, <1>2 DEF QueueMatchesRequests
<1>3. CASE idequeue # <<>>
    <2> DEFINE h == Head(idequeue)
    <2>1. h \in Requested
        BY <1>1, <1>3, HeadIsRequested
    <2>2. chip = Command(h) \/ Answers(h)
        BY <1>1, <1>3 DEF QueueMatchesRequests
    <2>0. h' = h
        OBVIOUS
    <2> HIDE DEF h
    <2>3. Command(h)' = Command(h)
        BY <2>0, <2>1 DEF Command
    <2>4. Answers(h) => Answers(h)'
        BY <2>0, <2>1 DEF Answers
    <2>5. chip = Command(h)' \/ Answers(h)'
        BY <2>2, <2>3, <2>4
    <2> QED
        BY <1>1, <1>3, <2>5 DEF QueueMatchesRequests, h
<1> QED
    BY <1>2, <1>3

\* A buffer has one holder, who alone may have a request for it.
LEMMA OneHolder ==
    ASSUME WellFormed, NEW p \in Proc, pc[p] \in Holding
    PROVE  /\ at[p] \in Buf /\ owner[at[p]] = p
           /\ \A q \in Proc : pc[q] \in Holding /\ at[q] = at[p] => q = p
           /\ pc[p] \notin {"io", "iosleep"} => at[p] \notin Requested
BY DEF WellFormed, TypeOK, Locked, Holding, Waiting, Requested

\* The list has a last place among any of its places.
LEMMA HasLast ==
    ASSUME NEW n \in Nat, NEW S, S \subseteq 1..n, S # {}
    PROVE  \E i \in S : \A j \in S : j <= i
<1> DEFINE R == {ij \in Nat \X Nat : ij[1] < ij[2]}
           D == {n - i : i \in S}
<1>1. IsWellFoundedOn(R, Nat)
    <2>1. R = OpToRel(<, Nat)
        BY DEF OpToRel
    <2> QED
        BY <2>1, NatLessThanWellFounded
<1>2. D \subseteq Nat /\ D # {}
    <2>1. \A i \in S : n - i \in Nat
        OBVIOUS
    <2>2. \A d \in D : d \in Nat
        BY <2>1
    <2>3. PICK s \in S : TRUE
        OBVIOUS
    <2>4. n - s \in D
        OBVIOUS
    <2> HIDE DEF D
    <2> QED
        BY <2>2, <2>4
<1>3. PICK d \in D : \A e \in D : ~(<<e, d>> \in R)
    <2> HIDE DEF R, D
    <2> QED
        BY <1>1, <1>2, WFMin
<1>4. PICK i \in S : d = n - i
    OBVIOUS
<1>5. ASSUME NEW j \in S PROVE j <= i
    <2>1. n - j \in D /\ n - j \in Nat /\ d \in Nat
        OBVIOUS
    <2>2. ~(n - j < d)
        <3> HIDE DEF D
        <3> QED
            BY <2>1, <1>3
    <2> QED
        BY <2>2, <1>4
<1> QED
    BY <1>5

\* What bget() recycles is unused and clean.
LEMMA Recycled ==
    ASSUME WellFormed, Recyclable # {}
    PROVE  /\ LeastRecent \in Buf /\ refcnt[LeastRecent] = 0
           /\ "DIRTY" \notin flags[LeastRecent]
<1>1. Recyclable \subseteq 1..NBUF
    BY DEF Recyclable
<1>2. PICK i \in Recyclable : \A j \in Recyclable : j <= i
    BY <1>1, SizeAssumption, HasLast
<1>3. PICK k \in Recyclable : LeastRecent = mru[k]
    BY <1>2 DEF LeastRecent
<1> QED
    BY <1>3 DEF Recyclable, WellFormed, TypeOK, Buf

\* Nobody uses a buffer whose count is zero.
LEMMA Unused ==
    ASSUME WellFormed, NEW x \in Buf, refcnt[x] = 0
    PROVE  /\ Users(x) = {} /\ owner[x] = NoProc
           /\ \A p \in Proc : pc[p] # "idle" => at[p] # x
<1>1. Users(x) = {}
    BY Finite, FS_EmptySet DEF WellFormed, RefcntCountsUsers
<1>2. \A p \in Proc : pc[p] # "idle" => at[p] # x
    BY <1>1 DEF Users
<1>3. owner[x] \in Proc => pc[owner[x]] \in Holding /\ at[owner[x]] = x
    BY DEF WellFormed, Locked
<1>4. owner[x] \notin Proc
    BY <1>2, <1>3 DEF Holding
<1> QED
    BY <1>1, <1>2, <1>4 DEF WellFormed, TypeOK

-----------------------------------------------------------------------------
(* One lemma per action *)

\* Moved to the front, a buffer is still in the list, with all the others.
LEMMA ToFrontKeepsAll ==
    ASSUME TypeOK, ListComplete, NEW x \in Buf
    PROVE  ToFront(x) \in [Buf -> Buf] /\ \A y \in Buf : \E j \in Buf : ToFront(x)[j] = y
<1>1. PICK i \in Buf : mru[i] = x /\ i = CHOOSE k \in Buf : mru[k] = x
    BY DEF ListComplete
<1> DEFINE m == [j \in Buf |-> IF j = 1 THEN x ELSE IF j <= i THEN mru[j - 1] ELSE mru[j]]
<1>2. ToFront(x) = m
    BY <1>1 DEF ToFront
<1>3. m \in [Buf -> Buf]
    <2>1. ASSUME NEW j \in Buf, j # 1 PROVE j - 1 \in Buf
        BY <2>1, SizeAssumption DEF Buf
    <2> QED
        BY <2>1 DEF TypeOK
<1>4. ASSUME NEW y \in Buf PROVE \E j \in Buf : m[j] = y
    <2>1. PICK k \in Buf : mru[k] = y
        BY DEF ListComplete
    <2>2. CASE k = i
        <3>1. 1 \in Buf /\ m[1] = y
            BY <1>1, <2>1, <2>2, SizeAssumption DEF Buf
        <3> QED
            BY <3>1
    <2>3. CASE k < i
        <3>1. k + 1 \in Buf /\ k + 1 # 1 /\ k + 1 <= i /\ (k + 1) - 1 = k
            BY <2>3, SizeAssumption DEF Buf
        <3>2. m[k + 1] = y
            BY <2>1, <3>1
        <3> QED
            BY <3>1, <3>2
    <2>4. CASE k > i
        <3>1. m[k] = y
            BY <2>1, <2>4 DEF Buf
        <3> QED
            BY <3>1
    <2> QED
        BY <2>2, <2>3, <2>4 DEF Buf
<1> QED
    BY <1>2, <1>3, <1>4

\* bget() of a cached block counts its caller.
LEMMA BgetHitKeeps ==
    ASSUME IInv, NEW p \in Proc, NEW k \in Block, BgetHit(p, k)
    PROVE  IInv'
<1>i. /\ WellFormed /\ TypeOK /\ ListComplete /\ RefcntCountsUsers /\ OneCopy /\ Locked /\ Coherent
      /\ QueueMatchesRequests /\ NoLostWakeup
    BY DEF IInv, WellFormed, SleepersAreServed
<1>0. PICK x \in Buf :
        /\ pc[p] = "idle" /\ pc'[p] = "lock" /\ at'[p] = x
        /\ \A q \in Proc \ {p} : pc'[q] = pc[q] /\ at'[q] = at[q]
        /\ blockno[x] = k
        /\ refcnt'[x] = refcnt[x] + 1 /\ \A y \in Buf \ {x} : refcnt'[y] = refcnt[y]
        /\ UNCHANGED <<blockno, mru, flags, data, owner, idequeue, chip, disk, memide>>
    BY <1>i DEF TypeOK, BgetHit, Goto, Cached, driver
<1>1. TypeOK'
    BY <1>i DEF TypeOK, Places, BgetHit, Goto, Cached, driver
<1>2. ListComplete'
    BY <1>i, <1>0 DEF ListComplete
<1>3. RefcntCountsUsers'
    <2>1. Users(x)' = Users(x) \cup {p} /\ p \notin Users(x)
        BY <1>0 DEF Users
    <2>2. \A y \in Buf \ {x} : Users(y)' = Users(y)
        BY <1>0 DEF Users
    <2>3. refcnt'[x] = Cardinality(Users(x)')
        <3>1. refcnt[x] = Cardinality(Users(x)) /\ IsFiniteSet(Users(x))
            BY <1>i, Finite DEF RefcntCountsUsers
        <3>2. Cardinality(Users(x) \cup {p}) = Cardinality(Users(x)) + 1
            BY <2>1, <3>1, FS_AddElement
        <3> QED
            BY <1>0, <2>1, <3>1, <3>2
    <2>4. \A q \in Proc : pc'[q] # "idle" => blockno'[at'[q]] # NoBlock
        BY <1>i, <1>0, NoneAssumption DEF RefcntCountsUsers
    <2> QED
        BY <1>i, <1>0, <2>2, <2>3, <2>4 DEF RefcntCountsUsers
<1>4. OneCopy'
    BY <1>i, <1>0 DEF OneCopy
<1>5. Locked'
    <2> SUFFICES ASSUME NEW y \in Buf, NEW q \in Proc
                 PROVE  owner'[y] = q <=> at'[q] = y /\ pc'[q] \in Holding
        BY DEF Locked
    <2>1. owner[y] = q <=> at[q] = y /\ pc[q] \in Holding
        BY <1>i DEF Locked
    <2> QED
        BY <1>i, <1>0, <2>1, NoneAssumption DEF Holding
<1>6. Coherent'
    <2>1. /\ (\A y \in Buf : "VALID" \in flags[y] => blockno[y] # NoBlock)'
          /\ (\A y \in Buf : "DIRTY" \in flags[y] => "VALID" \in flags[y])'
        BY <1>i, <1>0, NoneAssumption DEF TypeOK, Coherent
    <2>2. ASSUME NEW y \in Buf, Clean(y)', Settled(y)'
          PROVE  data'[y] = disk'[blockno'[y]]
        <3>1. Clean(y) /\ Settled(y)
            BY <1>0, <2>2 DEF Clean, Settled
        <3>2. data[y] = disk[blockno[y]]
            BY <1>i, <3>1 DEF Coherent
        <3> QED
            BY <1>0, <3>2
    <2>3. (\A y \in Buf, q \in Proc : at[q] = y =>
              /\ pc[q] \in {"using", "changed"} => "VALID" \in flags[y]
              /\ pc[q] = "iderw" => ~Clean(y))'
        <3> SUFFICES ASSUME NEW y \in Buf, NEW q \in Proc, at'[q] = y
                     PROVE  /\ pc'[q] \in {"using", "changed"} => "VALID" \in flags'[y]
                            /\ pc'[q] = "iderw" => ~Clean(y)'
            OBVIOUS
        <3>1. at[q] = y => /\ pc[q] \in {"using", "changed"} => "VALID" \in flags[y]
                           /\ pc[q] = "iderw" => ~Clean(y)
            BY <1>i DEF Coherent
        <3> QED
            BY <1>i, <1>0, <3>1 DEF TypeOK, Holding, Clean
    <2>4. (\A y \in Buf : Clean(y) /\ Settled(y) => data[y] = disk[blockno[y]])'
        BY <2>2
    <2> QED
        BY <2>1, <2>3, <2>4 DEF Coherent
<1>7. (Cardinality(Kept) <= MaxPinned)'
    <2>1. Kept' \subseteq Kept
        BY <1>i, <1>0 DEF TypeOK, Kept, Pinned, Waiting, Clean
    <2> QED
        BY <1>i, <2>1, NoMoreKept
<1>8. QueueMatchesRequests'
    <2>1. Requested' = Requested
        BY <1>i, <1>0 DEF TypeOK, Requested, Holding, Clean
    <2>2. \A y \in Requested : y \in Buf /\ blockno[y] # NoBlock
        BY <1>i DEF TypeOK, Requested, RefcntCountsUsers
    <2> QED
        BY <1>i, <1>0, <2>1, <2>2, SameQueue
<1>9. NoLostWakeup'
    <2> SUFFICES ASSUME NEW q \in Proc
                 PROVE  /\ pc'[q] = "asleep" => owner'[at'[q]] # NoProc
                        /\ pc'[q] = "iosleep" => ~Clean(at[q])'
        BY DEF NoLostWakeup, Clean
    <2>1. /\ pc[q] = "asleep" => owner[at[q]] # NoProc
          /\ pc[q] = "iosleep" => ~Clean(at[q])
        BY <1>i DEF NoLostWakeup
    <2> QED
        BY <1>i, <1>0, <2>1, NoneAssumption DEF TypeOK, Holding, Clean
<1> QED
    BY <1>1, <1>2, <1>3, <1>4, <1>5, <1>6, <1>7, <1>8, <1>9
       DEF IInv, WellFormed, SleepersAreServed

\* bget() recycles a buffer that nobody uses and that is not dirty.
LEMMA BgetRecycleKeeps ==
    ASSUME IInv, NEW p \in Proc, NEW k \in Block, BgetRecycle(p, k)
    PROVE  IInv'
<1>i. /\ WellFormed /\ TypeOK /\ ListComplete /\ RefcntCountsUsers /\ OneCopy /\ Locked /\ Coherent
      /\ QueueMatchesRequests /\ NoLostWakeup
    BY DEF IInv, WellFormed, SleepersAreServed
<1>0. PICK x \in Buf :
        /\ refcnt[x] = 0 /\ "DIRTY" \notin flags[x]
        /\ pc[p] = "idle" /\ pc'[p] = "lock" /\ at'[p] = x
        /\ \A q \in Proc \ {p} : pc'[q] = pc[q] /\ at'[q] = at[q]
        /\ \A y \in Buf : blockno[y] # k
        /\ blockno'[x] = k /\ refcnt'[x] = 1
        /\ "VALID" \notin flags'[x] /\ "DIRTY" \notin flags'[x]
        /\ \A y \in Buf \ {x} :
              blockno'[y] = blockno[y] /\ flags'[y] = flags[y] /\ refcnt'[y] = refcnt[y]
        /\ UNCHANGED <<mru, data, owner, idequeue, chip, disk, memide>>
    <2>1. PICK x : x = LeastRecent
        OBVIOUS
    <2>2. x \in Buf /\ refcnt[x] = 0 /\ "DIRTY" \notin flags[x]
        BY <1>i, <2>1, Recycled DEF BgetRecycle
    <2> QED
        BY <1>i, <2>1, <2>2 DEF TypeOK, BgetRecycle, Goto, Cached, driver
<1>a. owner[x] = NoProc /\ Users(x) = {} /\ \A q \in Proc : pc[q] # "idle" => at[q] # x
    BY <1>i, <1>0, Unused DEF TypeOK
<1>b. x \notin Requested /\ \A q \in Proc : pc[q] # "idle" => q # p
    BY <1>0, <1>a DEF Requested
<1>1. TypeOK'
    <2>1. at' \in [Proc -> Buf]
        BY <1>i, <1>0 DEF TypeOK, BgetRecycle
    <2> QED
        BY <1>i, <1>0, <2>1 DEF TypeOK, Places, BgetRecycle, Goto, driver
<1>2. ListComplete'
    BY <1>i, <1>0 DEF ListComplete
<1>3. RefcntCountsUsers'
    <2>1. Users(x)' = {p} /\ \A y \in Buf \ {x} : Users(y)' = Users(y)
        BY <1>0, <1>a DEF Users
    <2>2. refcnt'[x] = Cardinality(Users(x)')
        <3>1. Cardinality({p}) = 1
            BY FS_Singleton
        <3> QED
            BY <1>0, <2>1, <3>1
    <2>3. \A q \in Proc : pc'[q] # "idle" => blockno'[at'[q]] # NoBlock
        <3>1. blockno'[at'[p]] # NoBlock
            BY <1>0, NoneAssumption
        <3>2. ASSUME NEW q \in Proc \ {p}, pc[q] # "idle"
              PROVE  blockno'[at[q]] # NoBlock
            BY <1>i, <1>0, <1>a, <3>2 DEF TypeOK, RefcntCountsUsers
        <3> QED
            BY <1>0, <3>1, <3>2
    <2> QED
        BY <1>i, <1>0, <2>1, <2>2, <2>3 DEF RefcntCountsUsers
<1>4. OneCopy'
    BY <1>i, <1>0 DEF OneCopy
<1>5. Locked'
    <2> SUFFICES ASSUME NEW y \in Buf, NEW q \in Proc
                 PROVE  owner'[y] = q <=> at'[q] = y /\ pc'[q] \in Holding
        BY DEF Locked
    <2>1. owner[y] = q <=> at[q] = y /\ pc[q] \in Holding
        BY <1>i DEF Locked
    <2> QED
        BY <1>i, <1>0, <1>a, <1>b, <2>1, NoneAssumption DEF Holding
<1>6. Coherent'
    <2>1. /\ (\A y \in Buf : "VALID" \in flags[y] => blockno[y] # NoBlock)'
          /\ (\A y \in Buf : "DIRTY" \in flags[y] => "VALID" \in flags[y])'
        <3> SUFFICES ASSUME NEW y \in Buf
                     PROVE  /\ "VALID" \in flags'[y] => blockno'[y] # NoBlock
                            /\ "DIRTY" \in flags'[y] => "VALID" \in flags'[y]
            OBVIOUS
        <3>1. CASE y = x
            BY <1>0, <3>1
        <3>2. CASE y # x
            BY <1>i, <1>0, <3>2 DEF Coherent
        <3> QED
            BY <3>1, <3>2
    <2>2. ASSUME NEW y \in Buf, Clean(y)', Settled(y)'
          PROVE  data'[y] = disk'[blockno'[y]]
        <3>1. CASE y = x
            BY <1>0, <2>2, <3>1 DEF Clean
        <3>2. CASE y # x
            <4>1. Clean(y) /\ Settled(y)
                BY <1>i, <1>0, <1>a, <1>b, <2>2, <3>2 DEF Clean, Settled
            <4>2. data[y] = disk[blockno[y]]
                BY <1>i, <4>1 DEF Coherent
            <4> QED
                BY <1>i, <1>0, <1>a, <1>b, <3>2, <4>2 DEF TypeOK
        <3> QED
            BY <3>1, <3>2
    <2>3. (\A y \in Buf, q \in Proc : at[q] = y =>
              /\ pc[q] \in {"using", "changed"} => "VALID" \in flags[y]
              /\ pc[q] = "iderw" => ~Clean(y))'
        <3> SUFFICES ASSUME NEW y \in Buf, NEW q \in Proc, at'[q] = y
                     PROVE  /\ pc'[q] \in {"using", "changed"} => "VALID" \in flags'[y]
                            /\ pc'[q] = "iderw" => ~Clean(y)'
            OBVIOUS
        <3>1. at[q] = y => /\ pc[q] \in {"using", "changed"} => "VALID" \in flags[y]
                           /\ pc[q] = "iderw" => ~Clean(y)
            BY <1>i DEF Coherent
        <3> QED
            BY <1>i, <1>0, <1>a, <1>b, <3>1 DEF TypeOK, Holding, Clean
    <2>4. (\A y \in Buf : Clean(y) /\ Settled(y) => data[y] = disk[blockno[y]])'
        BY <2>2
    <2> QED
        BY <2>1, <2>3, <2>4 DEF Coherent
<1>7. (Cardinality(Kept) <= MaxPinned)'
    <2>1. Kept' \subseteq Kept
        BY <1>i, <1>0, <1>a, <1>b DEF TypeOK, Kept, Pinned, Waiting, Clean
    <2> QED
        BY <1>i, <2>1, NoMoreKept
<1>8. QueueMatchesRequests'
    <2>1. Requested' = Requested
        <3>1. ASSUME NEW y \in Buf, NEW q \in Proc, pc[q] \in {"io", "iosleep"}, at[q] = y
              PROVE  at'[q] = y /\ pc'[q] = pc[q] /\ (Clean(y)' <=> Clean(y))
            BY <1>0, <1>a, <1>b, <3>1 DEF Clean
        <3>2. ASSUME NEW y \in Buf, NEW q \in Proc, pc'[q] \in {"io", "iosleep"}, at'[q] = y
              PROVE  at[q] = y /\ pc[q] = pc'[q] /\ (Clean(y)' <=> Clean(y))
            BY <1>0, <1>a, <1>b, <3>2 DEF Clean
        <3> QED
            BY <3>1, <3>2 DEF Requested
    <2>2. \A y \in Requested : y \in Buf /\ blockno[y] # NoBlock
        BY <1>i DEF TypeOK, Requested, RefcntCountsUsers
    <2> QED
        BY <1>i, <1>0, <1>a, <1>b, <2>1, <2>2, SameQueue
<1>9. NoLostWakeup'
    <2> SUFFICES ASSUME NEW q \in Proc
                 PROVE  /\ pc'[q] = "asleep" => owner'[at'[q]] # NoProc
                        /\ pc'[q] = "iosleep" => ~Clean(at[q])'
        BY DEF NoLostWakeup, Clean
    <2>1. /\ pc[q] = "asleep" => owner[at[q]] # NoProc
          /\ pc[q] = "iosleep" => ~Clean(at[q])
        BY <1>i DEF NoLostWakeup
    <2> QED
        BY <1>i, <1>0, <1>a, <1>b, <2>1, NoneAssumption DEF TypeOK, Holding, Clean
<1> QED
    BY <1>1, <1>2, <1>3, <1>4, <1>5, <1>6, <1>7, <1>8, <1>9
       DEF IInv, WellFormed, SleepersAreServed

\* acquiresleep() lets one process past.
LEMMA AcquireSleepKeeps ==
    ASSUME IInv, NEW p \in Proc, AcquireSleep(p)
    PROVE  IInv'
<1>i. /\ WellFormed /\ TypeOK /\ ListComplete /\ RefcntCountsUsers /\ OneCopy /\ Locked /\ Coherent
      /\ QueueMatchesRequests /\ NoLostWakeup
    BY DEF IInv, WellFormed, SleepersAreServed
<1>0. /\ at[p] \in Buf
      /\ pc[p] = "lock"
      /\ \A q \in Proc \ {p} : pc'[q] = pc[q]
      /\ \/ /\ owner[at[p]] = NoProc /\ owner'[at[p]] = p /\ pc'[p] = "locked"
            /\ \A y \in Buf \ {at[p]} : owner'[y] = owner[y]
         \/ owner[at[p]] # NoProc /\ owner' = owner /\ pc'[p] = "asleep"
      /\ UNCHANGED <<refcnt, blockno, mru, flags, data, idequeue, chip, disk, memide, at>>
    BY <1>i DEF TypeOK, AcquireSleep, Goto, cache, driver, CanLock
<1>1. TypeOK'
    <2>1. owner' \in [Buf -> Proc \cup {NoProc}]
        BY <1>i DEF TypeOK, AcquireSleep
    <2>2. pc' \in [Proc -> Places]
        BY <1>i DEF TypeOK, Places, AcquireSleep, Goto
    <2> QED
        BY <1>i, <1>0, <2>1, <2>2 DEF TypeOK
<1>2. ListComplete'
    BY <1>i, <1>0 DEF ListComplete
<1>3. RefcntCountsUsers'
    BY <1>i, <1>0, SameUsers
<1>4. OneCopy'
    BY <1>i, <1>0 DEF OneCopy
<1>5. Locked'
    <2> SUFFICES ASSUME NEW y \in Buf, NEW q \in Proc
                 PROVE  owner'[y] = q <=> at'[q] = y /\ pc'[q] \in Holding
        BY DEF Locked
    <2>1. owner[y] = q <=> at[q] = y /\ pc[q] \in Holding
        BY <1>i DEF Locked
    <2> QED
        BY <1>i, <1>0, <2>1, NoneAssumption DEF Holding
<1>6. Coherent'
    <2>1. /\ (\A y \in Buf : "VALID" \in flags[y] => blockno[y] # NoBlock)'
          /\ (\A y \in Buf : "DIRTY" \in flags[y] => "VALID" \in flags[y])'
        BY <1>i, <1>0, NoneAssumption DEF TypeOK, Coherent
    <2>2. ASSUME NEW y \in Buf, Clean(y)', Settled(y)'
          PROVE  data'[y] = disk'[blockno'[y]]
        <3>1. Clean(y) /\ Settled(y)
            BY <1>0, <2>2 DEF Clean, Settled
        <3>2. data[y] = disk[blockno[y]]
            BY <1>i, <3>1 DEF Coherent
        <3> QED
            BY <1>0, <3>2
    <2>3. (\A y \in Buf, q \in Proc : at[q] = y =>
              /\ pc[q] \in {"using", "changed"} => "VALID" \in flags[y]
              /\ pc[q] = "iderw" => ~Clean(y))'
        <3> SUFFICES ASSUME NEW y \in Buf, NEW q \in Proc, at'[q] = y
                     PROVE  /\ pc'[q] \in {"using", "changed"} => "VALID" \in flags'[y]
                            /\ pc'[q] = "iderw" => ~Clean(y)'
            OBVIOUS
        <3>1. at[q] = y => /\ pc[q] \in {"using", "changed"} => "VALID" \in flags[y]
                           /\ pc[q] = "iderw" => ~Clean(y)
            BY <1>i DEF Coherent
        <3> QED
            BY <1>i, <1>0, <3>1 DEF TypeOK, Holding, Clean
    <2>4. (\A y \in Buf : Clean(y) /\ Settled(y) => data[y] = disk[blockno[y]])'
        BY <2>2
    <2> QED
        BY <2>1, <2>3, <2>4 DEF Coherent
<1>7. (Cardinality(Kept) <= MaxPinned)'
    <2>1. Kept' \subseteq Kept
        BY <1>i, <1>0 DEF TypeOK, Kept, Pinned, Waiting, Clean
    <2> QED
        BY <1>i, <2>1, NoMoreKept
<1>8. QueueMatchesRequests'
    <2>1. Requested' = Requested
        BY <1>i, <1>0 DEF TypeOK, Requested, Holding, Clean
    <2>2. \A y \in Requested : y \in Buf /\ blockno[y] # NoBlock
        BY <1>i DEF TypeOK, Requested, RefcntCountsUsers
    <2> QED
        BY <1>i, <1>0, <2>1, <2>2, SameQueue
<1>9. NoLostWakeup'
    <2> SUFFICES ASSUME NEW q \in Proc
                 PROVE  /\ pc'[q] = "asleep" => owner'[at'[q]] # NoProc
                        /\ pc'[q] = "iosleep" => ~Clean(at[q])'
        BY DEF NoLostWakeup, Clean
    <2>1. /\ pc[q] = "asleep" => owner[at[q]] # NoProc
          /\ pc[q] = "iosleep" => ~Clean(at[q])
        BY <1>i DEF NoLostWakeup
    <2> QED
        BY <1>i, <1>0, <2>1, NoneAssumption DEF TypeOK, Holding, Clean
<1> QED
    BY <1>1, <1>2, <1>3, <1>4, <1>5, <1>6, <1>7, <1>8, <1>9
       DEF IInv, WellFormed, SleepersAreServed

\* A process that kill() has woken tests again.
LEMMA KillWakesKeeps ==
    ASSUME IInv, NEW p \in Proc, KillWakes(p)
    PROVE  IInv'
<1>i. /\ WellFormed /\ TypeOK /\ ListComplete /\ RefcntCountsUsers /\ OneCopy /\ Locked /\ Coherent
      /\ QueueMatchesRequests /\ NoLostWakeup
    BY DEF IInv, WellFormed, SleepersAreServed
<1>0. /\ at[p] \in Buf
      /\ pc[p] \in {"asleep", "iosleep"}
      /\ \A q \in Proc \ {p} : pc'[q] = pc[q]
      /\ \/ pc[p] = "asleep" /\ pc'[p] = "lock"
         \/ pc[p] = "iosleep" /\ pc'[p] = "io"
      /\ UNCHANGED <<refcnt, blockno, mru, flags, data, owner, idequeue, chip, disk, memide, at>>
    BY <1>i DEF TypeOK, KillWakes, Goto, cache, driver
<1>1. TypeOK'
    BY <1>i, <1>0 DEF TypeOK, Places, KillWakes, Goto, cache, driver
<1>2. ListComplete'
    BY <1>i, <1>0 DEF ListComplete
<1>3. RefcntCountsUsers'
    BY <1>i, <1>0, SameUsers
<1>4. OneCopy'
    BY <1>i, <1>0 DEF OneCopy
<1>5. Locked'
    <2> SUFFICES ASSUME NEW y \in Buf, NEW q \in Proc
                 PROVE  owner'[y] = q <=> at'[q] = y /\ pc'[q] \in Holding
        BY DEF Locked
    <2>1. owner[y] = q <=> at[q] = y /\ pc[q] \in Holding
        BY <1>i DEF Locked
    <2> QED
        BY <1>i, <1>0, <2>1, NoneAssumption DEF Holding
<1>6. Coherent'
    <2>1. /\ (\A y \in Buf : "VALID" \in flags[y] => blockno[y] # NoBlock)'
          /\ (\A y \in Buf : "DIRTY" \in flags[y] => "VALID" \in flags[y])'
        BY <1>i, <1>0, NoneAssumption DEF TypeOK, Coherent
    <2>2. ASSUME NEW y \in Buf, Clean(y)', Settled(y)'
          PROVE  data'[y] = disk'[blockno'[y]]
        <3>1. Clean(y) /\ Settled(y)
            BY <1>0, <2>2 DEF Clean, Settled
        <3>2. data[y] = disk[blockno[y]]
            BY <1>i, <3>1 DEF Coherent
        <3> QED
            BY <1>0, <3>2
    <2>3. (\A y \in Buf, q \in Proc : at[q] = y =>
              /\ pc[q] \in {"using", "changed"} => "VALID" \in flags[y]
              /\ pc[q] = "iderw" => ~Clean(y))'
        <3> SUFFICES ASSUME NEW y \in Buf, NEW q \in Proc, at'[q] = y
                     PROVE  /\ pc'[q] \in {"using", "changed"} => "VALID" \in flags'[y]
                            /\ pc'[q] = "iderw" => ~Clean(y)'
            OBVIOUS
        <3>1. at[q] = y => /\ pc[q] \in {"using", "changed"} => "VALID" \in flags[y]
                           /\ pc[q] = "iderw" => ~Clean(y)
            BY <1>i DEF Coherent
        <3> QED
            BY <1>i, <1>0, <3>1 DEF TypeOK, Holding, Clean
    <2>4. (\A y \in Buf : Clean(y) /\ Settled(y) => data[y] = disk[blockno[y]])'
        BY <2>2
    <2> QED
        BY <2>1, <2>3, <2>4 DEF Coherent
<1>7. (Cardinality(Kept) <= MaxPinned)'
    <2>1. Kept' \subseteq Kept
        BY <1>i, <1>0 DEF TypeOK, Kept, Pinned, Waiting, Clean
    <2> QED
        BY <1>i, <2>1, NoMoreKept
<1>8. QueueMatchesRequests'
    <2>1. Requested' = Requested
        BY <1>i, <1>0 DEF TypeOK, Requested, Holding, Clean
    <2>2. \A y \in Requested : y \in Buf /\ blockno[y] # NoBlock
        BY <1>i DEF TypeOK, Requested, RefcntCountsUsers
    <2> QED
        BY <1>i, <1>0, <2>1, <2>2, SameQueue
<1>9. NoLostWakeup'
    <2> SUFFICES ASSUME NEW q \in Proc
                 PROVE  /\ pc'[q] = "asleep" => owner'[at'[q]] # NoProc
                        /\ pc'[q] = "iosleep" => ~Clean(at[q])'
        BY DEF NoLostWakeup, Clean
    <2>1. /\ pc[q] = "asleep" => owner[at[q]] # NoProc
          /\ pc[q] = "iosleep" => ~Clean(at[q])
        BY <1>i DEF NoLostWakeup
    <2> QED
        BY <1>i, <1>0, <2>1, NoneAssumption DEF TypeOK, Holding, Clean
<1> QED
    BY <1>1, <1>2, <1>3, <1>4, <1>5, <1>6, <1>7, <1>8, <1>9
       DEF IInv, WellFormed, SleepersAreServed

\* releasesleep() wakes all who wait for the buffer.
LEMMA ReleaseSleepKeeps ==
    ASSUME IInv, NEW p \in Proc, ReleaseSleep(p)
    PROVE  IInv'
<1>i. /\ WellFormed /\ TypeOK /\ ListComplete /\ RefcntCountsUsers /\ OneCopy /\ Locked /\ Coherent
      /\ QueueMatchesRequests /\ NoLostWakeup
    BY DEF IInv, WellFormed, SleepersAreServed
<1>0. /\ at[p] \in Buf /\ pc[p] = "using" /\ pc'[p] = "brelse"
      /\ \A q \in Proc \ {p} : pc'[q] = IF pc[q] = "asleep" /\ at[q] = at[p] THEN "lock" ELSE pc[q]
      /\ owner'[at[p]] = NoProc /\ \A y \in Buf \ {at[p]} : owner'[y] = owner[y]
      /\ UNCHANGED <<refcnt, blockno, mru, flags, data, idequeue, chip, disk, memide, at>>
    BY <1>i DEF TypeOK, ReleaseSleep, WakeAnd, cache, driver
<1>a. /\ at[p] \notin Requested /\ owner[at[p]] = p
      /\ \A q \in Proc : pc[q] \in Holding /\ at[q] = at[p] => q = p
    BY <1>i, <1>0, OneHolder DEF Holding, Waiting
<1>1. TypeOK'
    BY <1>i DEF TypeOK, Places, ReleaseSleep, WakeAnd, cache, driver
<1>2. ListComplete'
    BY <1>i, <1>0 DEF ListComplete
<1>3. RefcntCountsUsers'
    BY <1>i, <1>0, SameUsers
<1>4. OneCopy'
    BY <1>i, <1>0 DEF OneCopy
<1>5. Locked'
    <2> SUFFICES ASSUME NEW y \in Buf, NEW q \in Proc
                 PROVE  owner'[y] = q <=> at'[q] = y /\ pc'[q] \in Holding
        BY DEF Locked
    <2>1. owner[y] = q <=> at[q] = y /\ pc[q] \in Holding
        BY <1>i DEF Locked
    <2> QED
        BY <1>i, <1>0, <1>a, <2>1, NoneAssumption DEF Holding
<1>6. Coherent'
    <2>1. /\ (\A y \in Buf : "VALID" \in flags[y] => blockno[y] # NoBlock)'
          /\ (\A y \in Buf : "DIRTY" \in flags[y] => "VALID" \in flags[y])'
        BY <1>i, <1>0, <1>a, NoneAssumption DEF TypeOK, Coherent
    <2>2. ASSUME NEW y \in Buf, Clean(y)', Settled(y)'
          PROVE  data'[y] = disk'[blockno'[y]]
        <3>1. Clean(y) /\ Settled(y)
            BY <1>0, <2>2 DEF Clean, Settled
        <3>2. data[y] = disk[blockno[y]]
            BY <1>i, <3>1 DEF Coherent
        <3> QED
            BY <1>0, <3>2
    <2>3. (\A y \in Buf, q \in Proc : at[q] = y =>
              /\ pc[q] \in {"using", "changed"} => "VALID" \in flags[y]
              /\ pc[q] = "iderw" => ~Clean(y))'
        <3> SUFFICES ASSUME NEW y \in Buf, NEW q \in Proc, at'[q] = y
                     PROVE  /\ pc'[q] \in {"using", "changed"} => "VALID" \in flags'[y]
                            /\ pc'[q] = "iderw" => ~Clean(y)'
            OBVIOUS
        <3>1. at[q] = y => /\ pc[q] \in {"using", "changed"} => "VALID" \in flags[y]
                           /\ pc[q] = "iderw" => ~Clean(y)
            BY <1>i DEF Coherent
        <3> QED
            BY <1>i, <1>0, <1>a, <3>1 DEF TypeOK, Holding, Clean
    <2>4. (\A y \in Buf : Clean(y) /\ Settled(y) => data[y] = disk[blockno[y]])'
        BY <2>2
    <2> QED
        BY <2>1, <2>3, <2>4 DEF Coherent
<1>7. (Cardinality(Kept) <= MaxPinned)'
    <2>1. Kept' \subseteq Kept
        BY <1>i, <1>0, <1>a DEF TypeOK, Kept, Pinned, Waiting, Clean
    <2> QED
        BY <1>i, <2>1, NoMoreKept
<1>8. QueueMatchesRequests'
    <2>1. Requested' = Requested
        <3>1. ASSUME NEW y \in Buf, NEW q \in Proc
              PROVE  (at'[q] = y /\ pc'[q] \in {"io", "iosleep"} /\ ~Clean(y)')
                       <=> (at[q] = y /\ pc[q] \in {"io", "iosleep"} /\ ~Clean(y))
            BY <1>i, <1>0, <1>a DEF TypeOK, Holding, Clean
        <3> QED
            BY <3>1 DEF Requested
    <2>2. \A y \in Requested : y \in Buf /\ blockno[y] # NoBlock
        BY <1>i DEF TypeOK, Requested, RefcntCountsUsers
    <2> QED
        BY <1>i, <1>0, <1>a, <2>1, <2>2, SameQueue
<1>9. NoLostWakeup'
    <2> SUFFICES ASSUME NEW q \in Proc
                 PROVE  /\ pc'[q] = "asleep" => owner'[at'[q]] # NoProc
                        /\ pc'[q] = "iosleep" => ~Clean(at[q])'
        BY <1>i DEF NoLostWakeup, Clean
    <2>1. pc'[q] = "asleep" \/ pc'[q] = "iosleep" => pc[q] = pc'[q] /\ q # p
        BY <1>0
    <2>2. pc'[q] = "asleep" => at[q] # at[p] /\ at[q] \in Buf
        BY <1>i, <1>0, <2>1 DEF TypeOK
    <2> QED
        BY <1>i, <1>0, <2>1, <2>2 DEF NoLostWakeup, Clean
<1> QED
    BY <1>1, <1>2, <1>3, <1>4, <1>5, <1>6, <1>7, <1>8, <1>9
       DEF IInv, WellFormed, SleepersAreServed

\* bread() reads the block unless it is valid.
LEMMA BreadKeeps ==
    ASSUME IInv, NEW p \in Proc, Bread(p)
    PROVE  IInv'
<1>i. /\ WellFormed /\ TypeOK /\ ListComplete /\ RefcntCountsUsers /\ OneCopy /\ Locked /\ Coherent
      /\ QueueMatchesRequests /\ NoLostWakeup
    BY DEF IInv, WellFormed, SleepersAreServed
<1>0. /\ at[p] \in Buf
      /\ pc[p] = "locked"
      /\ \A q \in Proc \ {p} : pc'[q] = pc[q]
      /\ \/ "VALID" \in flags[at[p]] /\ pc'[p] = "using"
         \/ "VALID" \notin flags[at[p]] /\ pc'[p] = "iderw"
      /\ UNCHANGED <<refcnt, blockno, mru, flags, data, owner, idequeue, chip, disk, memide, at>>
    BY <1>i DEF TypeOK, Bread, Goto, cache, driver
<1>a. /\ at[p] \notin Requested /\ owner[at[p]] = p
      /\ \A q \in Proc : pc[q] \in Holding /\ at[q] = at[p] => q = p
    BY <1>i, <1>0, OneHolder DEF Holding, Waiting
<1>1. TypeOK'
    BY <1>i, <1>0 DEF TypeOK, Places, Bread, Goto, cache, driver
<1>2. ListComplete'
    BY <1>i, <1>0 DEF ListComplete
<1>3. RefcntCountsUsers'
    BY <1>i, <1>0, SameUsers
<1>4. OneCopy'
    BY <1>i, <1>0 DEF OneCopy
<1>5. Locked'
    <2> SUFFICES ASSUME NEW y \in Buf, NEW q \in Proc
                 PROVE  owner'[y] = q <=> at'[q] = y /\ pc'[q] \in Holding
        BY DEF Locked
    <2>1. owner[y] = q <=> at[q] = y /\ pc[q] \in Holding
        BY <1>i DEF Locked
    <2> QED
        BY <1>i, <1>0, <1>a, <2>1, NoneAssumption DEF Holding
<1>6. Coherent'
    <2>1. /\ (\A y \in Buf : "VALID" \in flags[y] => blockno[y] # NoBlock)'
          /\ (\A y \in Buf : "DIRTY" \in flags[y] => "VALID" \in flags[y])'
        BY <1>i, <1>0, <1>a, NoneAssumption DEF TypeOK, Coherent
    <2>2. ASSUME NEW y \in Buf, Clean(y)', Settled(y)'
          PROVE  data'[y] = disk'[blockno'[y]]
        <3>1. Clean(y) /\ Settled(y)
            BY <1>0, <2>2 DEF Clean, Settled
        <3>2. data[y] = disk[blockno[y]]
            BY <1>i, <3>1 DEF Coherent
        <3> QED
            BY <1>0, <3>2
    <2>3. (\A y \in Buf, q \in Proc : at[q] = y =>
              /\ pc[q] \in {"using", "changed"} => "VALID" \in flags[y]
              /\ pc[q] = "iderw" => ~Clean(y))'
        <3> SUFFICES ASSUME NEW y \in Buf, NEW q \in Proc, at'[q] = y
                     PROVE  /\ pc'[q] \in {"using", "changed"} => "VALID" \in flags'[y]
                            /\ pc'[q] = "iderw" => ~Clean(y)'
            OBVIOUS
        <3>1. at[q] = y => /\ pc[q] \in {"using", "changed"} => "VALID" \in flags[y]
                           /\ pc[q] = "iderw" => ~Clean(y)
            BY <1>i DEF Coherent
        <3> QED
            BY <1>i, <1>0, <1>a, <3>1 DEF TypeOK, Holding, Clean
    <2>4. (\A y \in Buf : Clean(y) /\ Settled(y) => data[y] = disk[blockno[y]])'
        BY <2>2
    <2> QED
        BY <2>1, <2>3, <2>4 DEF Coherent
<1>7. (Cardinality(Kept) <= MaxPinned)'
    <2>1. Kept' \subseteq Kept
        BY <1>i, <1>0, <1>a DEF TypeOK, Kept, Pinned, Waiting, Clean
    <2> QED
        BY <1>i, <2>1, NoMoreKept
<1>8. QueueMatchesRequests'
    <2>1. Requested' = Requested
        <3>1. ASSUME NEW y \in Buf, NEW q \in Proc
              PROVE  (at'[q] = y /\ pc'[q] \in {"io", "iosleep"} /\ ~Clean(y)')
                       <=> (at[q] = y /\ pc[q] \in {"io", "iosleep"} /\ ~Clean(y))
            BY <1>i, <1>0, <1>a DEF TypeOK, Holding, Clean
        <3> QED
            BY <3>1 DEF Requested
    <2>2. \A y \in Requested : y \in Buf /\ blockno[y] # NoBlock
        BY <1>i DEF TypeOK, Requested, RefcntCountsUsers
    <2> QED
        BY <1>i, <1>0, <1>a, <2>1, <2>2, SameQueue
<1>9. NoLostWakeup'
    <2> SUFFICES ASSUME NEW q \in Proc
                 PROVE  /\ pc'[q] = "asleep" => owner'[at'[q]] # NoProc
                        /\ pc'[q] = "iosleep" => ~Clean(at[q])'
        BY DEF NoLostWakeup, Clean
    <2>1. /\ pc[q] = "asleep" => owner[at[q]] # NoProc
          /\ pc[q] = "iosleep" => ~Clean(at[q])
        BY <1>i DEF NoLostWakeup
    <2> QED
        BY <1>i, <1>0, <1>a, <2>1, NoneAssumption DEF TypeOK, Holding, Clean
<1> QED
    BY <1>1, <1>2, <1>3, <1>4, <1>5, <1>6, <1>7, <1>8, <1>9
       DEF IInv, WellFormed, SleepersAreServed

\* A holder changes its buffer.
LEMMA ChangeKeeps ==
    ASSUME IInv, NEW p \in Proc, NEW v \in Value, Change(p, v)
    PROVE  IInv'
<1>i. /\ WellFormed /\ TypeOK /\ ListComplete /\ RefcntCountsUsers /\ OneCopy /\ Locked /\ Coherent
      /\ QueueMatchesRequests /\ NoLostWakeup
    BY DEF IInv, WellFormed, SleepersAreServed
<1>0. /\ at[p] \in Buf
      /\ pc[p] = "using"
      /\ pc'[p] = "changed"
      /\ \A q \in Proc \ {p} : pc'[q] = pc[q]
      /\ \A y \in Buf \ {at[p]} : data'[y] = data[y]
      /\ UNCHANGED <<refcnt, blockno, mru, flags, owner, idequeue, chip, disk, memide, at>>
    BY <1>i DEF TypeOK, Change, Goto, cache, driver
<1>a. /\ at[p] \notin Requested /\ owner[at[p]] = p
      /\ \A q \in Proc : pc[q] \in Holding /\ at[q] = at[p] => q = p
    BY <1>i, <1>0, OneHolder DEF Holding, Waiting
<1>1. TypeOK'
    BY <1>i, <1>0 DEF TypeOK, Places, Change, Goto, cache, driver
<1>2. ListComplete'
    BY <1>i, <1>0 DEF ListComplete
<1>3. RefcntCountsUsers'
    BY <1>i, <1>0, SameUsers
<1>4. OneCopy'
    BY <1>i, <1>0 DEF OneCopy
<1>5. Locked'
    <2> SUFFICES ASSUME NEW y \in Buf, NEW q \in Proc
                 PROVE  owner'[y] = q <=> at'[q] = y /\ pc'[q] \in Holding
        BY DEF Locked
    <2>1. owner[y] = q <=> at[q] = y /\ pc[q] \in Holding
        BY <1>i DEF Locked
    <2> QED
        BY <1>i, <1>0, <1>a, <2>1, NoneAssumption DEF Holding
<1>6. Coherent'
    <2>1. /\ (\A y \in Buf : "VALID" \in flags[y] => blockno[y] # NoBlock)'
          /\ (\A y \in Buf : "DIRTY" \in flags[y] => "VALID" \in flags[y])'
        BY <1>i, <1>0, <1>a, NoneAssumption DEF TypeOK, Coherent
    <2>2. ASSUME NEW y \in Buf, Clean(y)', Settled(y)'
          PROVE  data'[y] = disk'[blockno'[y]]
        <3>1. CASE y = at[p]
            BY <1>0, <2>2, <3>1 DEF Settled
        <3>2. CASE y # at[p]
            <4>1. Clean(y) /\ Settled(y)
                BY <1>i, <1>0, <1>a, <2>2, <3>2 DEF Clean, Settled
            <4>2. data[y] = disk[blockno[y]]
                BY <1>i, <4>1 DEF Coherent
            <4> QED
                BY <1>i, <1>0, <1>a, <3>2, <4>2 DEF TypeOK
        <3> QED
            BY <3>1, <3>2
    <2>3. (\A y \in Buf, q \in Proc : at[q] = y =>
              /\ pc[q] \in {"using", "changed"} => "VALID" \in flags[y]
              /\ pc[q] = "iderw" => ~Clean(y))'
        <3> SUFFICES ASSUME NEW y \in Buf, NEW q \in Proc, at'[q] = y
                     PROVE  /\ pc'[q] \in {"using", "changed"} => "VALID" \in flags'[y]
                            /\ pc'[q] = "iderw" => ~Clean(y)'
            OBVIOUS
        <3>1. at[q] = y => /\ pc[q] \in {"using", "changed"} => "VALID" \in flags[y]
                           /\ pc[q] = "iderw" => ~Clean(y)
            BY <1>i DEF Coherent
        <3> QED
            BY <1>i, <1>0, <1>a, <3>1 DEF TypeOK, Holding, Clean
    <2>4. (\A y \in Buf : Clean(y) /\ Settled(y) => data[y] = disk[blockno[y]])'
        BY <2>2
    <2> QED
        BY <2>1, <2>3, <2>4 DEF Coherent
<1>7. (Cardinality(Kept) <= MaxPinned)'
    <2>1. Kept' \subseteq Kept
        BY <1>i, <1>0, <1>a DEF TypeOK, Kept, Pinned, Waiting, Clean
    <2> QED
        BY <1>i, <2>1, NoMoreKept
<1>8. QueueMatchesRequests'
    <2>1. Requested' = Requested
        <3>1. ASSUME NEW y \in Buf, NEW q \in Proc
              PROVE  (at'[q] = y /\ pc'[q] \in {"io", "iosleep"} /\ ~Clean(y)')
                       <=> (at[q] = y /\ pc[q] \in {"io", "iosleep"} /\ ~Clean(y))
            BY <1>i, <1>0, <1>a DEF TypeOK, Holding, Clean
        <3> QED
            BY <3>1 DEF Requested
    <2>2. \A y \in Requested : y \in Buf /\ blockno[y] # NoBlock
        BY <1>i DEF TypeOK, Requested, RefcntCountsUsers
    <2> QED
        BY <1>i, <1>0, <1>a, <2>1, <2>2, SameQueue
<1>9. NoLostWakeup'
    <2> SUFFICES ASSUME NEW q \in Proc
                 PROVE  /\ pc'[q] = "asleep" => owner'[at'[q]] # NoProc
                        /\ pc'[q] = "iosleep" => ~Clean(at[q])'
        BY DEF NoLostWakeup, Clean
    <2>1. /\ pc[q] = "asleep" => owner[at[q]] # NoProc
          /\ pc[q] = "iosleep" => ~Clean(at[q])
        BY <1>i DEF NoLostWakeup
    <2> QED
        BY <1>i, <1>0, <1>a, <2>1, NoneAssumption DEF TypeOK, Holding, Clean
<1> QED
    BY <1>1, <1>2, <1>3, <1>4, <1>5, <1>6, <1>7, <1>8, <1>9
       DEF IInv, WellFormed, SleepersAreServed

\* bwrite() asks for the write.
LEMMA BwriteKeeps ==
    ASSUME IInv, NEW p \in Proc, Bwrite(p)
    PROVE  IInv'
<1>i. /\ WellFormed /\ TypeOK /\ ListComplete /\ RefcntCountsUsers /\ OneCopy /\ Locked /\ Coherent
      /\ QueueMatchesRequests /\ NoLostWakeup
    BY DEF IInv, WellFormed, SleepersAreServed
<1>0. /\ at[p] \in Buf
      /\ pc[p] \in {"using", "changed"}
      /\ pc'[p] = "iderw"
      /\ \A q \in Proc \ {p} : pc'[q] = pc[q]
      /\ flags'[at[p]] = flags[at[p]] \cup {"DIRTY"}
      /\ \A y \in Buf \ {at[p]} : flags'[y] = flags[y]
      /\ UNCHANGED <<refcnt, blockno, mru, data, owner, idequeue, chip, disk, memide, at>>
    BY <1>i DEF TypeOK, Bwrite, Goto, cache, driver, SetDirty
<1>a. /\ at[p] \notin Requested /\ owner[at[p]] = p
      /\ \A q \in Proc : pc[q] \in Holding /\ at[q] = at[p] => q = p
    BY <1>i, <1>0, OneHolder DEF Holding, Waiting
<1>1. TypeOK'
    <2>1. flags' \in [Buf -> SUBSET {"VALID", "DIRTY"}]
        BY <1>i, <1>0 DEF TypeOK, Bwrite, SetDirty
    <2> QED
        BY <1>i, <2>1 DEF TypeOK, Places, Bwrite, Goto, cache, driver
<1>2. ListComplete'
    BY <1>i, <1>0 DEF ListComplete
<1>3. RefcntCountsUsers'
    BY <1>i, <1>0, SameUsers
<1>4. OneCopy'
    BY <1>i, <1>0 DEF OneCopy
<1>5. Locked'
    <2> SUFFICES ASSUME NEW y \in Buf, NEW q \in Proc
                 PROVE  owner'[y] = q <=> at'[q] = y /\ pc'[q] \in Holding
        BY DEF Locked
    <2>1. owner[y] = q <=> at[q] = y /\ pc[q] \in Holding
        BY <1>i DEF Locked
    <2> QED
        BY <1>i, <1>0, <1>a, <2>1, NoneAssumption DEF Holding
<1>6. Coherent'
    <2>1. /\ (\A y \in Buf : "VALID" \in flags[y] => blockno[y] # NoBlock)'
          /\ (\A y \in Buf : "DIRTY" \in flags[y] => "VALID" \in flags[y])'
        BY <1>i, <1>0, <1>a, NoneAssumption DEF TypeOK, Coherent
    <2>2. ASSUME NEW y \in Buf, Clean(y)', Settled(y)'
          PROVE  data'[y] = disk'[blockno'[y]]
        <3>1. CASE y = at[p]
            BY <1>0, <2>2, <3>1 DEF Clean
        <3>2. CASE y # at[p]
            <4>1. Clean(y) /\ Settled(y)
                BY <1>i, <1>0, <1>a, <2>2, <3>2 DEF Clean, Settled
            <4>2. data[y] = disk[blockno[y]]
                BY <1>i, <4>1 DEF Coherent
            <4> QED
                BY <1>i, <1>0, <1>a, <3>2, <4>2 DEF TypeOK
        <3> QED
            BY <3>1, <3>2
    <2>3. (\A y \in Buf, q \in Proc : at[q] = y =>
              /\ pc[q] \in {"using", "changed"} => "VALID" \in flags[y]
              /\ pc[q] = "iderw" => ~Clean(y))'
        <3> SUFFICES ASSUME NEW y \in Buf, NEW q \in Proc, at'[q] = y
                     PROVE  /\ pc'[q] \in {"using", "changed"} => "VALID" \in flags'[y]
                            /\ pc'[q] = "iderw" => ~Clean(y)'
            OBVIOUS
        <3>1. at[q] = y => /\ pc[q] \in {"using", "changed"} => "VALID" \in flags[y]
                           /\ pc[q] = "iderw" => ~Clean(y)
            BY <1>i DEF Coherent
        <3> QED
            BY <1>i, <1>0, <1>a, <3>1 DEF TypeOK, Holding, Clean
    <2>4. (\A y \in Buf : Clean(y) /\ Settled(y) => data[y] = disk[blockno[y]])'
        BY <2>2
    <2> QED
        BY <2>1, <2>3, <2>4 DEF Coherent
<1>7. (Cardinality(Kept) <= MaxPinned)'
    <2>1. Kept' \subseteq Kept
        BY <1>i, <1>0, <1>a DEF TypeOK, Kept, Pinned, Waiting, Clean
    <2> QED
        BY <1>i, <2>1, NoMoreKept
<1>8. QueueMatchesRequests'
    <2>1. Requested' = Requested
        <3>1. ASSUME NEW y \in Buf, NEW q \in Proc
              PROVE  (at'[q] = y /\ pc'[q] \in {"io", "iosleep"} /\ ~Clean(y)')
                       <=> (at[q] = y /\ pc[q] \in {"io", "iosleep"} /\ ~Clean(y))
            BY <1>i, <1>0, <1>a DEF TypeOK, Holding, Clean
        <3> QED
            BY <3>1 DEF Requested
    <2>2. \A y \in Requested : y \in Buf /\ blockno[y] # NoBlock
        BY <1>i DEF TypeOK, Requested, RefcntCountsUsers
    <2> QED
        BY <1>i, <1>0, <1>a, <2>1, <2>2, SameQueue
<1>9. NoLostWakeup'
    <2> SUFFICES ASSUME NEW q \in Proc
                 PROVE  /\ pc'[q] = "asleep" => owner'[at'[q]] # NoProc
                        /\ pc'[q] = "iosleep" => ~Clean(at[q])'
        BY DEF NoLostWakeup, Clean
    <2>1. /\ pc[q] = "asleep" => owner[at[q]] # NoProc
          /\ pc[q] = "iosleep" => ~Clean(at[q])
        BY <1>i DEF NoLostWakeup
    <2> QED
        BY <1>i, <1>0, <1>a, <2>1, NoneAssumption DEF TypeOK, Holding, Clean
<1> QED
    BY <1>1, <1>2, <1>3, <1>4, <1>5, <1>6, <1>7, <1>8, <1>9
       DEF IInv, WellFormed, SleepersAreServed

\* log_write() pins the buffer.
LEMMA LogWriteKeeps ==
    ASSUME IInv, NEW p \in Proc, LogWrite(p)
    PROVE  IInv'
<1>i. /\ WellFormed /\ TypeOK /\ ListComplete /\ RefcntCountsUsers /\ OneCopy /\ Locked /\ Coherent
      /\ QueueMatchesRequests /\ NoLostWakeup
    BY DEF IInv, WellFormed, SleepersAreServed
<1>0. /\ at[p] \in Buf
      /\ pc[p] = "changed"
      /\ pc'[p] = "using"
      /\ \A q \in Proc \ {p} : pc'[q] = pc[q]
      /\ flags'[at[p]] = flags[at[p]] \cup {"DIRTY"}
      /\ \A y \in Buf \ {at[p]} : flags'[y] = flags[y]
      /\ UNCHANGED <<refcnt, blockno, mru, data, owner, idequeue, chip, disk, memide, at>>
    BY <1>i DEF TypeOK, LogWrite, Goto, cache, driver, SetDirty
<1>a. /\ at[p] \notin Requested /\ owner[at[p]] = p
      /\ \A q \in Proc : pc[q] \in Holding /\ at[q] = at[p] => q = p
    BY <1>i, <1>0, OneHolder DEF Holding, Waiting
<1>1. TypeOK'
    <2>1. flags' \in [Buf -> SUBSET {"VALID", "DIRTY"}]
        BY <1>i, <1>0 DEF TypeOK, LogWrite, SetDirty
    <2> QED
        BY <1>i, <2>1 DEF TypeOK, Places, LogWrite, Goto, cache, driver
<1>2. ListComplete'
    BY <1>i, <1>0 DEF ListComplete
<1>3. RefcntCountsUsers'
    BY <1>i, <1>0, SameUsers
<1>4. OneCopy'
    BY <1>i, <1>0 DEF OneCopy
<1>5. Locked'
    <2> SUFFICES ASSUME NEW y \in Buf, NEW q \in Proc
                 PROVE  owner'[y] = q <=> at'[q] = y /\ pc'[q] \in Holding
        BY DEF Locked
    <2>1. owner[y] = q <=> at[q] = y /\ pc[q] \in Holding
        BY <1>i DEF Locked
    <2> QED
        BY <1>i, <1>0, <1>a, <2>1, NoneAssumption DEF Holding
<1>6. Coherent'
    <2>1. /\ (\A y \in Buf : "VALID" \in flags[y] => blockno[y] # NoBlock)'
          /\ (\A y \in Buf : "DIRTY" \in flags[y] => "VALID" \in flags[y])'
        BY <1>i, <1>0, <1>a, NoneAssumption DEF TypeOK, Coherent
    <2>2. ASSUME NEW y \in Buf, Clean(y)', Settled(y)'
          PROVE  data'[y] = disk'[blockno'[y]]
        <3>1. CASE y = at[p]
            BY <1>0, <2>2, <3>1 DEF Clean
        <3>2. CASE y # at[p]
            <4>1. Clean(y) /\ Settled(y)
                BY <1>i, <1>0, <1>a, <2>2, <3>2 DEF Clean, Settled
            <4>2. data[y] = disk[blockno[y]]
                BY <1>i, <4>1 DEF Coherent
            <4> QED
                BY <1>i, <1>0, <1>a, <3>2, <4>2 DEF TypeOK
        <3> QED
            BY <3>1, <3>2
    <2>3. (\A y \in Buf, q \in Proc : at[q] = y =>
              /\ pc[q] \in {"using", "changed"} => "VALID" \in flags[y]
              /\ pc[q] = "iderw" => ~Clean(y))'
        <3> SUFFICES ASSUME NEW y \in Buf, NEW q \in Proc, at'[q] = y
                     PROVE  /\ pc'[q] \in {"using", "changed"} => "VALID" \in flags'[y]
                            /\ pc'[q] = "iderw" => ~Clean(y)'
            OBVIOUS
        <3>1. at[q] = y => /\ pc[q] \in {"using", "changed"} => "VALID" \in flags[y]
                           /\ pc[q] = "iderw" => ~Clean(y)
            BY <1>i DEF Coherent
        <3> QED
            BY <1>i, <1>0, <1>a, <3>1 DEF TypeOK, Holding, Clean
    <2>4. (\A y \in Buf : Clean(y) /\ Settled(y) => data[y] = disk[blockno[y]])'
        BY <2>2
    <2> QED
        BY <2>1, <2>3, <2>4 DEF Coherent
<1>7. (Cardinality(Kept) <= MaxPinned)'
    <2>1. Cardinality(Pinned \cup {at[p]}) <= MaxPinned
        BY DEF LogWrite
    <2>2. Kept' \subseteq Pinned \cup {at[p]}
        BY <1>0 DEF Kept, Pinned
    <2>3. IsFiniteSet(Pinned \cup {at[p]})
        BY Finite, FS_Subset, FS_AddElement DEF Pinned
    <2>4. /\ Cardinality(Kept') <= Cardinality(Pinned \cup {at[p]})
          /\ Cardinality(Kept') \in Nat /\ Cardinality(Pinned \cup {at[p]}) \in Nat
        BY <2>2, <2>3, FS_Subset, FS_CardinalityType
    <2> QED
        BY <2>1, <2>4, SizeAssumption
<1>8. QueueMatchesRequests'
    <2>1. Requested' = Requested
        <3>1. ASSUME NEW y \in Buf, NEW q \in Proc
              PROVE  (at'[q] = y /\ pc'[q] \in {"io", "iosleep"} /\ ~Clean(y)')
                       <=> (at[q] = y /\ pc[q] \in {"io", "iosleep"} /\ ~Clean(y))
            BY <1>i, <1>0, <1>a DEF TypeOK, Holding, Clean
        <3> QED
            BY <3>1 DEF Requested
    <2>2. \A y \in Requested : y \in Buf /\ blockno[y] # NoBlock
        BY <1>i DEF TypeOK, Requested, RefcntCountsUsers
    <2> QED
        BY <1>i, <1>0, <1>a, <2>1, <2>2, SameQueue
<1>9. NoLostWakeup'
    <2> SUFFICES ASSUME NEW q \in Proc
                 PROVE  /\ pc'[q] = "asleep" => owner'[at'[q]] # NoProc
                        /\ pc'[q] = "iosleep" => ~Clean(at[q])'
        BY DEF NoLostWakeup, Clean
    <2>1. /\ pc[q] = "asleep" => owner[at[q]] # NoProc
          /\ pc[q] = "iosleep" => ~Clean(at[q])
        BY <1>i DEF NoLostWakeup
    <2> QED
        BY <1>i, <1>0, <1>a, <2>1, NoneAssumption DEF TypeOK, Holding, Clean
<1> QED
    BY <1>1, <1>2, <1>3, <1>4, <1>5, <1>6, <1>7, <1>8, <1>9
       DEF IInv, WellFormed, SleepersAreServed

\* brelse() counts its caller out.
LEMMA BrelseKeeps ==
    ASSUME IInv, NEW p \in Proc, Brelse(p)
    PROVE  IInv'
<1>i. /\ WellFormed /\ TypeOK /\ ListComplete /\ RefcntCountsUsers /\ OneCopy /\ Locked /\ Coherent
      /\ QueueMatchesRequests /\ NoLostWakeup
    BY DEF IInv, WellFormed, SleepersAreServed
<1>0. /\ at[p] \in Buf
      /\ pc[p] = "brelse"
      /\ pc'[p] = "idle"
      /\ \A q \in Proc \ {p} : pc'[q] = pc[q]
      /\ refcnt'[at[p]] = refcnt[at[p]] - 1
      /\ \A y \in Buf \ {at[p]} : refcnt'[y] = refcnt[y]
      /\ UNCHANGED <<blockno, flags, data, owner, idequeue, chip, disk, memide, at>>
    BY <1>i DEF TypeOK, Brelse, Goto, cache, driver, Unref
<1>a. /\ Users(at[p])' = Users(at[p]) \ {p} /\ p \in Users(at[p])
      /\ \A y \in Buf \ {at[p]} : Users(y)' = Users(y)
    BY <1>0 DEF Users
<1>b. refcnt[at[p]] >= 1 /\ refcnt'[at[p]] = Cardinality(Users(at[p])')
    <2>1. /\ Cardinality(Users(at[p])') = Cardinality(Users(at[p])) - 1
          /\ Cardinality(Users(at[p])') \in Nat /\ Cardinality(Users(at[p])) \in Nat
        BY <1>a, Finite, FS_RemoveElement, FS_CardinalityType
    <2> QED
        BY <1>i, <1>0, <2>1 DEF RefcntCountsUsers
<1>1. TypeOK'
    <2>1. refcnt' \in [Buf -> Nat]
        BY <1>i, <1>0, <1>b DEF TypeOK, Brelse, Unref
    <2>2. mru' \in [Buf -> Buf]
        BY <1>i, <1>0, ToFrontKeepsAll DEF TypeOK, Brelse
    <2> QED
        BY <1>i, <2>1, <2>2 DEF TypeOK, Places, Brelse, Goto, driver
<1>2. ListComplete'
    <2>1. CASE mru' = mru
        BY <1>i, <2>1 DEF ListComplete
    <2>2. CASE mru' = ToFront(at[p])
        <3>1. PICK m : m = mru'
            OBVIOUS
        <3>2. PICK x \in Buf : x = at[p]
            BY <1>0
        <3>3. m = ToFront(x)
            BY <2>2, <3>1, <3>2
        <3>4. \A y \in Buf : \E i \in Buf : m[i] = y
            BY <1>i, <1>i, <3>3, ToFrontKeepsAll
        <3> QED
            BY <1>i, <3>1, <3>4 DEF ListComplete
    <2> QED
        BY <2>1, <2>2 DEF Brelse
<1>3. RefcntCountsUsers'
    BY <1>i, <1>0, <1>a, <1>b DEF RefcntCountsUsers
<1>4. OneCopy'
    BY <1>i, <1>0 DEF OneCopy
<1>5. Locked'
    <2> SUFFICES ASSUME NEW y \in Buf, NEW q \in Proc
                 PROVE  owner'[y] = q <=> at'[q] = y /\ pc'[q] \in Holding
        BY DEF Locked
    <2>1. owner[y] = q <=> at[q] = y /\ pc[q] \in Holding
        BY <1>i DEF Locked
    <2> QED
        BY <1>i, <1>0, <2>1, NoneAssumption DEF Holding
<1>6. Coherent'
    <2>1. /\ (\A y \in Buf : "VALID" \in flags[y] => blockno[y] # NoBlock)'
          /\ (\A y \in Buf : "DIRTY" \in flags[y] => "VALID" \in flags[y])'
        BY <1>i, <1>0, NoneAssumption DEF TypeOK, Coherent
    <2>2. ASSUME NEW y \in Buf, Clean(y)', Settled(y)'
          PROVE  data'[y] = disk'[blockno'[y]]
        <3>1. Clean(y) /\ Settled(y)
            BY <1>0, <2>2 DEF Clean, Settled
        <3>2. data[y] = disk[blockno[y]]
            BY <1>i, <3>1 DEF Coherent
        <3> QED
            BY <1>0, <3>2
    <2>3. (\A y \in Buf, q \in Proc : at[q] = y =>
              /\ pc[q] \in {"using", "changed"} => "VALID" \in flags[y]
              /\ pc[q] = "iderw" => ~Clean(y))'
        <3> SUFFICES ASSUME NEW y \in Buf, NEW q \in Proc, at'[q] = y
                     PROVE  /\ pc'[q] \in {"using", "changed"} => "VALID" \in flags'[y]
                            /\ pc'[q] = "iderw" => ~Clean(y)'
            OBVIOUS
        <3>1. at[q] = y => /\ pc[q] \in {"using", "changed"} => "VALID" \in flags[y]
                           /\ pc[q] = "iderw" => ~Clean(y)
            BY <1>i DEF Coherent
        <3> QED
            BY <1>i, <1>0, <3>1 DEF TypeOK, Holding, Clean
    <2>4. (\A y \in Buf : Clean(y) /\ Settled(y) => data[y] = disk[blockno[y]])'
        BY <2>2
    <2> QED
        BY <2>1, <2>3, <2>4 DEF Coherent
<1>7. (Cardinality(Kept) <= MaxPinned)'
    <2>1. Kept' \subseteq Kept
        BY <1>i, <1>0 DEF TypeOK, Kept, Pinned, Waiting, Clean
    <2> QED
        BY <1>i, <2>1, NoMoreKept
<1>8. QueueMatchesRequests'
    <2>1. Requested' = Requested
        BY <1>i, <1>0 DEF TypeOK, Requested, Holding, Clean
    <2>2. \A y \in Requested : y \in Buf /\ blockno[y] # NoBlock
        BY <1>i DEF TypeOK, Requested, RefcntCountsUsers
    <2> QED
        BY <1>i, <1>0, <2>1, <2>2, SameQueue
<1>9. NoLostWakeup'
    <2> SUFFICES ASSUME NEW q \in Proc
                 PROVE  /\ pc'[q] = "asleep" => owner'[at'[q]] # NoProc
                        /\ pc'[q] = "iosleep" => ~Clean(at[q])'
        BY DEF NoLostWakeup, Clean
    <2>1. /\ pc[q] = "asleep" => owner[at[q]] # NoProc
          /\ pc[q] = "iosleep" => ~Clean(at[q])
        BY <1>i DEF NoLostWakeup
    <2> QED
        BY <1>i, <1>0, <2>1, NoneAssumption DEF TypeOK, Holding, Clean
<1> QED
    BY <1>1, <1>2, <1>3, <1>4, <1>5, <1>6, <1>7, <1>8, <1>9
       DEF IInv, WellFormed, SleepersAreServed

\* iderw() puts the request at the end of the queue.
LEMMA IderwKeeps ==
    ASSUME IInv, NEW p \in Proc, Iderw(p)
    PROVE  IInv'
<1>i. /\ WellFormed /\ TypeOK /\ ListComplete /\ RefcntCountsUsers /\ OneCopy /\ Locked /\ Coherent
      /\ QueueMatchesRequests /\ NoLostWakeup
    BY DEF IInv, WellFormed, SleepersAreServed
<1>0. /\ at[p] \in Buf
      /\ pc[p] = "iderw"
      /\ pc'[p] = "io"
      /\ \A q \in Proc \ {p} : pc'[q] = pc[q]
      /\ ~Clean(at[p])
      /\ idequeue' = Append(idequeue, at[p])
      /\ chip' = IF idequeue = <<>> THEN Command(at[p]) ELSE chip
      /\ UNCHANGED <<refcnt, blockno, mru, flags, data, owner, disk, memide, at>>
    BY <1>i DEF TypeOK, Iderw, Goto, cache, driver, Coherent, MustStart
<1>a. /\ at[p] \notin Requested /\ owner[at[p]] = p
      /\ \A q \in Proc : pc[q] \in Holding /\ at[q] = at[p] => q = p
    BY <1>i, <1>0, OneHolder DEF Holding, Waiting
<1>1. TypeOK'
    BY <1>i, <1>0 DEF TypeOK, Places, Iderw, Goto, cache
<1>2. ListComplete'
    BY <1>i, <1>0 DEF ListComplete
<1>3. RefcntCountsUsers'
    BY <1>i, <1>0, SameUsers
<1>4. OneCopy'
    BY <1>i, <1>0 DEF OneCopy
<1>5. Locked'
    <2> SUFFICES ASSUME NEW y \in Buf, NEW q \in Proc
                 PROVE  owner'[y] = q <=> at'[q] = y /\ pc'[q] \in Holding
        BY DEF Locked
    <2>1. owner[y] = q <=> at[q] = y /\ pc[q] \in Holding
        BY <1>i DEF Locked
    <2> QED
        BY <1>i, <1>0, <1>a, <2>1, NoneAssumption DEF Holding
<1>6. Coherent'
    <2>1. /\ (\A y \in Buf : "VALID" \in flags[y] => blockno[y] # NoBlock)'
          /\ (\A y \in Buf : "DIRTY" \in flags[y] => "VALID" \in flags[y])'
        BY <1>i, <1>0, <1>a, NoneAssumption DEF TypeOK, Coherent
    <2>2. ASSUME NEW y \in Buf, Clean(y)', Settled(y)'
          PROVE  data'[y] = disk'[blockno'[y]]
        <3>1. Clean(y) /\ Settled(y)
            BY <1>0, <2>2 DEF Clean, Settled
        <3>2. data[y] = disk[blockno[y]]
            BY <1>i, <3>1 DEF Coherent
        <3> QED
            BY <1>0, <3>2
    <2>3. (\A y \in Buf, q \in Proc : at[q] = y =>
              /\ pc[q] \in {"using", "changed"} => "VALID" \in flags[y]
              /\ pc[q] = "iderw" => ~Clean(y))'
        <3> SUFFICES ASSUME NEW y \in Buf, NEW q \in Proc, at'[q] = y
                     PROVE  /\ pc'[q] \in {"using", "changed"} => "VALID" \in flags'[y]
                            /\ pc'[q] = "iderw" => ~Clean(y)'
            OBVIOUS
        <3>1. at[q] = y => /\ pc[q] \in {"using", "changed"} => "VALID" \in flags[y]
                           /\ pc[q] = "iderw" => ~Clean(y)
            BY <1>i DEF Coherent
        <3> QED
            BY <1>i, <1>0, <1>a, <3>1 DEF TypeOK, Holding, Clean
    <2>4. (\A y \in Buf : Clean(y) /\ Settled(y) => data[y] = disk[blockno[y]])'
        BY <2>2
    <2> QED
        BY <2>1, <2>3, <2>4 DEF Coherent
<1>7. (Cardinality(Kept) <= MaxPinned)'
    <2>1. Kept' \subseteq Kept
        BY <1>i, <1>0, <1>a DEF TypeOK, Kept, Pinned, Waiting, Clean
    <2> QED
        BY <1>i, <2>1, NoMoreKept
<1>8. QueueMatchesRequests'
    <2>1. PICK x \in Buf : x = at[p]
        BY <1>0
    <2>2. Requested' = Requested \cup {x}
        <3>1. ASSUME NEW y \in Buf, NEW q \in Proc, pc'[q] \in {"io", "iosleep"}, at'[q] = y, y # x
              PROVE  pc[q] = pc'[q] /\ at[q] = y
            BY <1>0, <2>1, <3>1
        <3>2. \A q \in Proc : pc[q] \in {"io", "iosleep"} => pc'[q] = pc[q] /\ at'[q] = at[q]
            BY <1>0
        <3>3. \A y \in Buf : Clean(y)' <=> Clean(y)
            BY <1>0 DEF Clean
        <3>4. x \in Requested'
            BY <1>0, <2>1, <3>3 DEF Requested
        <3> QED
            BY <3>1, <3>2, <3>3, <3>4 DEF Requested
    <2> DEFINE n == Len(idequeue)
    <2>3. /\ n \in Nat /\ Len(idequeue') = n + 1 /\ idequeue'[n + 1] = x
          /\ \A i \in 1..n : idequeue'[i] = idequeue[i]
          /\ \A i \in 1..(n + 1) : i = n + 1 \/ i \in 1..n
          /\ idequeue' # <<>>
        BY <1>i, <1>0, <2>1 DEF TypeOK
    <2>4. {idequeue'[i] : i \in 1..Len(idequeue')} = {idequeue[i] : i \in 1..n} \cup {x}
        <3> HIDE DEF n
        <3> QED
            BY <2>3
    <2>5. \A i \in 1..n : idequeue[i] # x
        BY <1>i, <1>a, <2>1 DEF QueueMatchesRequests
    <2>6. \A i, j \in 1..Len(idequeue') : idequeue'[i] = idequeue'[j] => i = j
        <3>1. \A i, j \in 1..n : idequeue[i] = idequeue[j] => i = j
            BY <1>i DEF QueueMatchesRequests
        <3> HIDE DEF n
        <3> QED
            BY <2>3, <2>5, <3>1
    <2>7. PICK z : z = Head(idequeue')
        OBVIOUS
    <2>8. chip' = Command(z)' \/ Answers(z)'
        <3>1. Command(z)' = Command(z) /\ (chip' = chip /\ Answers(z) => Answers(z)')
            BY <1>0 DEF Command, Answers
        <3>2. CASE idequeue = <<>>
            <4>1. z = x /\ chip' = Command(x)
                BY <1>0, <2>1, <2>7, <3>2
            <4> QED
                BY <3>1, <4>1
        <3>3. CASE idequeue # <<>>
            <4>1. z = Head(idequeue) /\ chip' = chip
                BY <1>i, <1>0, <2>7, <3>3 DEF TypeOK
            <4>2. chip = Command(z) \/ Answers(z)
                BY <1>i, <3>3, <4>1 DEF QueueMatchesRequests
            <4> QED
                BY <3>1, <4>1, <4>2
        <3> QED
            BY <3>2, <3>3
    <2>9. (chip = Command(Head(idequeue)) \/ Answers(Head(idequeue)))'
        BY <2>7, <2>8 DEF Command, Answers
    <2> QED
        BY <1>i, <2>2, <2>3, <2>4, <2>6, <2>9 DEF QueueMatchesRequests
<1>9. NoLostWakeup'
    <2> SUFFICES ASSUME NEW q \in Proc
                 PROVE  /\ pc'[q] = "asleep" => owner'[at'[q]] # NoProc
                        /\ pc'[q] = "iosleep" => ~Clean(at[q])'
        BY DEF NoLostWakeup, Clean
    <2>1. /\ pc[q] = "asleep" => owner[at[q]] # NoProc
          /\ pc[q] = "iosleep" => ~Clean(at[q])
        BY <1>i DEF NoLostWakeup
    <2> QED
        BY <1>i, <1>0, <1>a, <2>1, NoneAssumption DEF TypeOK, Holding, Clean
<1> QED
    BY <1>1, <1>2, <1>3, <1>4, <1>5, <1>6, <1>7, <1>8, <1>9
       DEF IInv, WellFormed, SleepersAreServed

\* iderw() goes on when the request has been answered.
LEMMA IoTestKeeps ==
    ASSUME IInv, NEW p \in Proc, IoTest(p)
    PROVE  IInv'
<1>i. /\ WellFormed /\ TypeOK /\ ListComplete /\ RefcntCountsUsers /\ OneCopy /\ Locked /\ Coherent
      /\ QueueMatchesRequests /\ NoLostWakeup
    BY DEF IInv, WellFormed, SleepersAreServed
<1>0. /\ at[p] \in Buf
      /\ pc[p] = "io"
      /\ \A q \in Proc \ {p} : pc'[q] = pc[q]
      /\ \/ Clean(at[p]) /\ pc'[p] = "using"
         \/ ~Clean(at[p]) /\ pc'[p] = "iosleep"
      /\ UNCHANGED <<refcnt, blockno, mru, flags, data, owner, idequeue, chip, disk, memide, at>>
    BY <1>i DEF TypeOK, IoTest, Goto, cache, driver
<1>1. TypeOK'
    BY <1>i, <1>0 DEF TypeOK, Places, IoTest, Goto, cache, driver
<1>2. ListComplete'
    BY <1>i, <1>0 DEF ListComplete
<1>3. RefcntCountsUsers'
    BY <1>i, <1>0, SameUsers
<1>4. OneCopy'
    BY <1>i, <1>0 DEF OneCopy
<1>5. Locked'
    <2> SUFFICES ASSUME NEW y \in Buf, NEW q \in Proc
                 PROVE  owner'[y] = q <=> at'[q] = y /\ pc'[q] \in Holding
        BY DEF Locked
    <2>1. owner[y] = q <=> at[q] = y /\ pc[q] \in Holding
        BY <1>i DEF Locked
    <2> QED
        BY <1>i, <1>0, <2>1, NoneAssumption DEF Holding
<1>6. Coherent'
    <2>1. /\ (\A y \in Buf : "VALID" \in flags[y] => blockno[y] # NoBlock)'
          /\ (\A y \in Buf : "DIRTY" \in flags[y] => "VALID" \in flags[y])'
        BY <1>i, <1>0, NoneAssumption DEF TypeOK, Coherent
    <2>2. ASSUME NEW y \in Buf, Clean(y)', Settled(y)'
          PROVE  data'[y] = disk'[blockno'[y]]
        <3>1. Clean(y) /\ Settled(y)
            BY <1>0, <2>2 DEF Clean, Settled
        <3>2. data[y] = disk[blockno[y]]
            BY <1>i, <3>1 DEF Coherent
        <3> QED
            BY <1>0, <3>2
    <2>3. (\A y \in Buf, q \in Proc : at[q] = y =>
              /\ pc[q] \in {"using", "changed"} => "VALID" \in flags[y]
              /\ pc[q] = "iderw" => ~Clean(y))'
        <3> SUFFICES ASSUME NEW y \in Buf, NEW q \in Proc, at'[q] = y
                     PROVE  /\ pc'[q] \in {"using", "changed"} => "VALID" \in flags'[y]
                            /\ pc'[q] = "iderw" => ~Clean(y)'
            OBVIOUS
        <3>1. at[q] = y => /\ pc[q] \in {"using", "changed"} => "VALID" \in flags[y]
                           /\ pc[q] = "iderw" => ~Clean(y)
            BY <1>i DEF Coherent
        <3> QED
            BY <1>i, <1>0, <3>1 DEF TypeOK, Holding, Clean
    <2>4. (\A y \in Buf : Clean(y) /\ Settled(y) => data[y] = disk[blockno[y]])'
        BY <2>2
    <2> QED
        BY <2>1, <2>3, <2>4 DEF Coherent
<1>7. (Cardinality(Kept) <= MaxPinned)'
    <2>1. Kept' \subseteq Kept
        BY <1>i, <1>0 DEF TypeOK, Kept, Pinned, Waiting, Clean
    <2> QED
        BY <1>i, <2>1, NoMoreKept
<1>8. QueueMatchesRequests'
    <2>1. Requested' = Requested
        BY <1>i, <1>0 DEF TypeOK, Requested, Holding, Clean
    <2>2. \A y \in Requested : y \in Buf /\ blockno[y] # NoBlock
        BY <1>i DEF TypeOK, Requested, RefcntCountsUsers
    <2> QED
        BY <1>i, <1>0, <2>1, <2>2, SameQueue
<1>9. NoLostWakeup'
    <2> SUFFICES ASSUME NEW q \in Proc
                 PROVE  /\ pc'[q] = "asleep" => owner'[at'[q]] # NoProc
                        /\ pc'[q] = "iosleep" => ~Clean(at[q])'
        BY DEF NoLostWakeup, Clean
    <2>1. /\ pc[q] = "asleep" => owner[at[q]] # NoProc
          /\ pc[q] = "iosleep" => ~Clean(at[q])
        BY <1>i DEF NoLostWakeup
    <2> QED
        BY <1>i, <1>0, <2>1, NoneAssumption DEF TypeOK, Holding, Clean
<1> QED
    BY <1>1, <1>2, <1>3, <1>4, <1>5, <1>6, <1>7, <1>8, <1>9
       DEF IInv, WellFormed, SleepersAreServed

\* The controller carries out the request at the head of the queue.
LEMMA DiskDoneKeeps ==
    ASSUME IInv, DiskDone
    PROVE  IInv'
<1>i. /\ WellFormed /\ TypeOK /\ ListComplete /\ RefcntCountsUsers /\ OneCopy /\ Locked /\ Coherent
      /\ QueueMatchesRequests /\ NoLostWakeup
    BY DEF IInv, WellFormed, SleepersAreServed
<1>0. PICK h \in Buf :
        /\ h = Head(idequeue) /\ h \in Requested /\ idequeue # <<>> /\ chip = Command(h)
        /\ ~Clean(h) /\ blockno[h] \in Block
        /\ UNCHANGED <<refcnt, blockno, mru, flags, data, owner, idequeue, memide, pc, at>>
    <2>1. PICK h : h = Head(idequeue)
        OBVIOUS
    <2>2. idequeue # <<>> /\ chip = Command(h)
        BY <1>i, <2>1 DEF QueueMatchesRequests, Answers, NoCommand, DiskDone
    <2>3. h \in Requested /\ h \in Buf
        BY <1>i, <2>1, <2>2, HeadIsRequested
    <2>4. PICK q \in Proc : at[q] = h /\ pc[q] # "idle" /\ ~Clean(h)
        BY <2>3 DEF Requested
    <2>5. blockno[h] \in Block
        BY <1>i, <2>3, <2>4 DEF TypeOK, RefcntCountsUsers
    <2> QED
        BY <2>1, <2>2, <2>3, <2>4, <2>5 DEF DiskDone, cache
<1>a. /\ chip' = [op |-> "done", value |-> disk'[blockno[h]]]
      /\ "DIRTY" \in flags[h] => data[h] = disk'[blockno[h]]
      /\ disk' \in [Block -> Value]
      /\ \A b \in Block \ {blockno[h]} : disk'[b] = disk[b]
    <2>1. CASE "DIRTY" \in flags[h]
        <3>1. chip.op = "write" /\ chip.block = blockno[h] /\ chip.value = data[h]
            BY <1>0, <2>1 DEF Command
        <3> QED
            BY <1>i, <1>0, <3>1 DEF DiskDone, TypeOK
    <2>2. CASE "DIRTY" \notin flags[h]
        <3>1. chip.op = "read" /\ chip.block = blockno[h]
            BY <1>0, <2>2 DEF Command
        <3> QED
            BY <1>i, <1>0, <2>2, <3>1 DEF DiskDone, TypeOK
    <2> QED
        BY <2>1, <2>2
<1>b. \A y \in Buf \ {h} : blockno[y] # NoBlock => disk'[blockno[y]] = disk[blockno[y]]
    BY <1>i, <1>0, <1>a DEF OneCopy, TypeOK
<1>1. TypeOK'
    BY <1>i, <1>0, <1>a DEF TypeOK
<1>2. ListComplete'
    BY <1>i, <1>0 DEF ListComplete
<1>3. RefcntCountsUsers'
    BY <1>i, <1>0, SameUsers
<1>4. OneCopy'
    BY <1>i, <1>0 DEF OneCopy
<1>5. Locked'
    <2> SUFFICES ASSUME NEW y \in Buf, NEW q \in Proc
                 PROVE  owner'[y] = q <=> at'[q] = y /\ pc'[q] \in Holding
        BY DEF Locked
    <2>1. owner[y] = q <=> at[q] = y /\ pc[q] \in Holding
        BY <1>i DEF Locked
    <2> QED
        BY <1>i, <1>0, <1>a, <1>b, <2>1, NoneAssumption DEF Holding
<1>6. Coherent'
    <2>1. /\ (\A y \in Buf : "VALID" \in flags[y] => blockno[y] # NoBlock)'
          /\ (\A y \in Buf : "DIRTY" \in flags[y] => "VALID" \in flags[y])'
        BY <1>i, <1>0, <1>a, <1>b, NoneAssumption DEF TypeOK, Coherent
    <2>2. ASSUME NEW y \in Buf, Clean(y)', Settled(y)'
          PROVE  data'[y] = disk'[blockno'[y]]
        <3>1. Clean(y) /\ Settled(y)
            BY <1>0, <2>2 DEF Clean, Settled
        <3>2. data[y] = disk[blockno[y]] /\ blockno[y] # NoBlock /\ y # h
            BY <1>i, <1>0, <3>1 DEF Coherent, Clean
        <3> QED
            BY <1>0, <1>b, <3>2
    <2>3. (\A y \in Buf, q \in Proc : at[q] = y =>
              /\ pc[q] \in {"using", "changed"} => "VALID" \in flags[y]
              /\ pc[q] = "iderw" => ~Clean(y))'
        <3> SUFFICES ASSUME NEW y \in Buf, NEW q \in Proc, at'[q] = y
                     PROVE  /\ pc'[q] \in {"using", "changed"} => "VALID" \in flags'[y]
                            /\ pc'[q] = "iderw" => ~Clean(y)'
            OBVIOUS
        <3>1. at[q] = y => /\ pc[q] \in {"using", "changed"} => "VALID" \in flags[y]
                           /\ pc[q] = "iderw" => ~Clean(y)
            BY <1>i DEF Coherent
        <3> QED
            BY <1>i, <1>0, <1>a, <1>b, <3>1 DEF TypeOK, Holding, Clean
    <2>4. (\A y \in Buf : Clean(y) /\ Settled(y) => data[y] = disk[blockno[y]])'
        BY <2>2
    <2> QED
        BY <2>1, <2>3, <2>4 DEF Coherent
<1>7. (Cardinality(Kept) <= MaxPinned)'
    <2>1. Kept' \subseteq Kept
        BY <1>i, <1>0, <1>a, <1>b DEF TypeOK, Kept, Pinned, Waiting, Clean
    <2> QED
        BY <1>i, <2>1, NoMoreKept
<1>8. QueueMatchesRequests'
    <2>1. Requested' = Requested
        BY <1>0 DEF Requested, Clean
    <2>2. Answers(h)'
        BY <1>0, <1>a DEF Answers
    <2>3. (chip = Command(Head(idequeue)) \/ Answers(Head(idequeue)))'
        BY <1>0, <2>2 DEF Answers
    <2> QED
        BY <1>i, <1>0, <2>1, <2>3 DEF QueueMatchesRequests
<1>9. NoLostWakeup'
    <2> SUFFICES ASSUME NEW q \in Proc
                 PROVE  /\ pc'[q] = "asleep" => owner'[at'[q]] # NoProc
                        /\ pc'[q] = "iosleep" => ~Clean(at[q])'
        BY DEF NoLostWakeup, Clean
    <2>1. /\ pc[q] = "asleep" => owner[at[q]] # NoProc
          /\ pc[q] = "iosleep" => ~Clean(at[q])
        BY <1>i DEF NoLostWakeup
    <2> QED
        BY <1>i, <1>0, <1>a, <1>b, <2>1, NoneAssumption DEF TypeOK, Holding, Clean
<1> QED
    BY <1>1, <1>2, <1>3, <1>4, <1>5, <1>6, <1>7, <1>8, <1>9
       DEF IInv, WellFormed, SleepersAreServed

\* ideintr() answers the request at the head and starts the next.
LEMMA IdeintrKeeps ==
    ASSUME IInv, Ideintr
    PROVE  IInv'
<1>i. /\ WellFormed /\ TypeOK /\ ListComplete /\ RefcntCountsUsers /\ OneCopy /\ Locked /\ Coherent
      /\ QueueMatchesRequests /\ NoLostWakeup
    BY DEF IInv, WellFormed, SleepersAreServed
<1>0. PICK h \in Buf :
        /\ h = Head(idequeue) /\ h \in Requested /\ h = idequeue[1] /\ idequeue # <<>>
        /\ Answers(h)
    <2>1. PICK h : h = Head(idequeue)
        OBVIOUS
    <2>2. idequeue # <<>> /\ Answers(h)
        BY <1>i, <2>1 DEF QueueMatchesRequests, NoCommand, Command, Ideintr
    <2> QED
        BY <1>i, <2>1, <2>2, HeadIsRequested
<1>a. PICK p \in Proc : at[p] = h /\ pc[p] \in {"io", "iosleep"} /\ blockno[h] \in Block
    <2>1. PICK p \in Proc : at[p] = h /\ pc[p] \in {"io", "iosleep"}
        BY <1>0 DEF Requested
    <2> QED
        BY <1>i, <1>0, <2>1 DEF TypeOK, RefcntCountsUsers
<1>b. /\ "VALID" \in flags'[h] /\ "DIRTY" \notin flags'[h]
      /\ \A y \in Buf \ {h} : flags'[y] = flags[y]
      /\ data'[h] = disk[blockno[h]] /\ \A y \in Buf \ {h} : data'[y] = data[y]
      /\ data' \in [Buf -> Value] /\ flags' \in [Buf -> SUBSET {"VALID", "DIRTY"}]
      /\ \A q \in Proc : pc'[q] = IF pc[q] = "iosleep" /\ at[q] = h THEN "io" ELSE pc[q]
      /\ idequeue' = Tail(idequeue)
      /\ UNCHANGED <<refcnt, blockno, mru, owner, disk, memide, at>>
    <2>1. /\ flags' = [flags EXCEPT ![h] = {"VALID"}]
          /\ data' = IF "DIRTY" \in flags[h] THEN data ELSE [data EXCEPT ![h] = chip.value]
          /\ IntrWakes(h)
          /\ idequeue' = Tail(idequeue)
          /\ UNCHANGED <<refcnt, blockno, mru, owner, disk, memide, at>>
        BY <1>0 DEF Ideintr, cache
    <2>2. chip.value = disk[blockno[h]] /\ ("DIRTY" \in flags[h] => data[h] = disk[blockno[h]])
        BY <1>0 DEF Answers
    <2>3. /\ "VALID" \in flags'[h] /\ "DIRTY" \notin flags'[h]
          /\ \A y \in Buf \ {h} : flags'[y] = flags[y]
          /\ flags' \in [Buf -> SUBSET {"VALID", "DIRTY"}]
        BY <1>i, <1>0, <2>1 DEF TypeOK
    <2>4. /\ data'[h] = disk[blockno[h]] /\ \A y \in Buf \ {h} : data'[y] = data[y]
          /\ data' \in [Buf -> Value]
        BY <1>i, <1>0, <1>a, <2>1, <2>2 DEF TypeOK
    <2> QED
        BY <1>i, <2>1, <2>3, <2>4 DEF IntrWakes, TypeOK
<1>c. \A q \in Proc : pc[q] \in Holding /\ at[q] = h => q = p
    BY <1>i, <1>a, OneHolder DEF Holding
<1>1. TypeOK'
    <2>1. pc' \in [Proc -> Places]
        BY <1>i DEF TypeOK, Places, Ideintr, IntrWakes
    <2>2. idequeue' \in Seq(Buf)
        BY <1>i, <1>0, <1>b DEF TypeOK
    <2> QED
        BY <1>i, <1>b, <2>1, <2>2 DEF TypeOK
<1>2. ListComplete'
    BY <1>i, <1>i, <1>b DEF ListComplete
<1>3. RefcntCountsUsers'
    BY <1>i, <1>i, <1>b, SameUsers DEF TypeOK
<1>4. OneCopy'
    BY <1>i, <1>i, <1>b DEF OneCopy
<1>5. Locked'
    <2> SUFFICES ASSUME NEW y \in Buf, NEW q \in Proc
                 PROVE  owner'[y] = q <=> at'[q] = y /\ pc'[q] \in Holding
        BY DEF Locked
    <2>1. owner[y] = q <=> at[q] = y /\ pc[q] \in Holding
        BY <1>i DEF Locked
    <2> QED
        BY <1>i, <1>0, <1>a, <1>b, <1>c, <2>1, NoneAssumption DEF Holding
<1>6. Coherent'
    <2>1. /\ (\A y \in Buf : "VALID" \in flags[y] => blockno[y] # NoBlock)'
          /\ (\A y \in Buf : "DIRTY" \in flags[y] => "VALID" \in flags[y])'
        <3> SUFFICES ASSUME NEW y \in Buf
                     PROVE  /\ "VALID" \in flags'[y] => blockno'[y] # NoBlock
                            /\ "DIRTY" \in flags'[y] => "VALID" \in flags'[y]
            OBVIOUS
        <3>1. CASE y = h
            BY <1>a, <1>b, <3>1, NoneAssumption
        <3>2. CASE y # h
            BY <1>i, <1>b, <3>2 DEF Coherent
        <3> QED
            BY <3>1, <3>2
    <2>2. ASSUME NEW y \in Buf, Clean(y)', Settled(y)'
          PROVE  data'[y] = disk'[blockno'[y]]
        <3>1. CASE y = h
            BY <1>0, <1>b, <3>1
        <3>2. CASE y # h
            <4>1. Clean(y) /\ Settled(y)
                BY <1>i, <1>0, <1>a, <1>b, <1>c, <2>2, <3>2 DEF Clean, Settled
            <4>2. data[y] = disk[blockno[y]]
                BY <1>i, <4>1 DEF Coherent
            <4> QED
                BY <1>i, <1>0, <1>a, <1>b, <1>c, <3>2, <4>2 DEF TypeOK
        <3> QED
            BY <3>1, <3>2
    <2>3. (\A y \in Buf, q \in Proc : at[q] = y =>
              /\ pc[q] \in {"using", "changed"} => "VALID" \in flags[y]
              /\ pc[q] = "iderw" => ~Clean(y))'
        <3> SUFFICES ASSUME NEW y \in Buf, NEW q \in Proc, at'[q] = y
                     PROVE  /\ pc'[q] \in {"using", "changed"} => "VALID" \in flags'[y]
                            /\ pc'[q] = "iderw" => ~Clean(y)'
            OBVIOUS
        <3>1. at[q] = y => /\ pc[q] \in {"using", "changed"} => "VALID" \in flags[y]
                           /\ pc[q] = "iderw" => ~Clean(y)
            BY <1>i DEF Coherent
        <3> QED
            BY <1>i, <1>0, <1>a, <1>b, <1>c, <3>1 DEF TypeOK, Holding, Clean
    <2>4. (\A y \in Buf : Clean(y) /\ Settled(y) => data[y] = disk[blockno[y]])'
        BY <2>2
    <2> QED
        BY <2>1, <2>3, <2>4 DEF Coherent
<1>7. (Cardinality(Kept) <= MaxPinned)'
    <2>1. Kept' \subseteq Kept
        BY <1>i, <1>0, <1>a, <1>b, <1>c DEF TypeOK, Kept, Pinned, Waiting, Clean
    <2> QED
        BY <1>i, <2>1, NoMoreKept
<1>8. QueueMatchesRequests'
    <2>1. Requested' = Requested \ {h}
        <3>1. \A y \in Buf : Clean(y)' <=> Clean(y) \/ y = h
            BY <1>0, <1>b DEF Clean
        <3>2. \A q \in Proc : /\ pc'[q] \in {"io", "iosleep"} <=> pc[q] \in {"io", "iosleep"}
                              /\ at'[q] = at[q]
            BY <1>b
        <3> QED
            BY <3>1, <3>2 DEF Requested
    <2> DEFINE n == Len(idequeue)
    <2>2. /\ n \in Nat /\ n >= 1 /\ Len(idequeue') = n - 1
          /\ \A i \in 1..(n - 1) : idequeue'[i] = idequeue[i + 1]
        BY <1>i, <1>0, <1>b DEF TypeOK
    <2>3. \A i, j \in 1..n : idequeue[i] = idequeue[j] => i = j
        BY <1>i DEF QueueMatchesRequests
    <2> HIDE DEF n
    <2>4. \A i, j \in 1..Len(idequeue') : idequeue'[i] = idequeue'[j] => i = j
        BY <2>2, <2>3
    <2>5. {idequeue'[i] : i \in 1..Len(idequeue')} = {idequeue[i] : i \in 1..n} \ {h}
        <3>1. ASSUME NEW i \in 1..Len(idequeue')
              PROVE  idequeue'[i] \in {idequeue[j] : j \in 1..n} \ {h}
            <4>1. i + 1 \in 1..n /\ i + 1 # 1 /\ 1 \in 1..n /\ idequeue'[i] = idequeue[i + 1]
                BY <2>2
            <4> QED
                BY <1>0, <2>3, <4>1
        <3>2. ASSUME NEW j \in 1..n, idequeue[j] # h
              PROVE  idequeue[j] \in {idequeue'[i] : i \in 1..Len(idequeue')}
            <4>1. j - 1 \in 1..Len(idequeue') /\ (j - 1) + 1 = j /\ j - 1 \in 1..(n - 1)
                BY <1>0, <2>2, <3>2
            <4>2. idequeue'[j - 1] = idequeue[j]
                BY <2>2, <4>1
            <4> QED
                BY <4>1, <4>2
        <3> QED
            BY <3>1, <3>2
    <2>6. IF idequeue' = <<>> THEN chip' = NoCommand ELSE (chip = Command(Head(idequeue)))'
        <3> SUFFICES ASSUME idequeue' # <<>> PROVE (chip = Command(Head(idequeue)))'
            BY DEF Ideintr
        <3>1. PICK z : z = Head(idequeue')
            OBVIOUS
        <3>2. z = idequeue[2] /\ 1 \in 1..n /\ 2 \in 1..n
            BY <1>i, <1>b, <2>2, <3>1 DEF TypeOK, n
        <3>3. z # h /\ z \in Buf
            BY <1>i, <1>0, <2>3, <3>2 DEF TypeOK, n
        <3>4. chip' = Command(z)
            BY <3>1 DEF Ideintr
        <3> QED
            BY <1>b, <3>1, <3>3, <3>4 DEF Command
    <2>7. {idequeue[i] : i \in 1..n} = Requested
        BY <1>i DEF QueueMatchesRequests, n
    <2> QED
        BY <1>i, <2>1, <2>4, <2>5, <2>6, <2>7 DEF QueueMatchesRequests
<1>9. NoLostWakeup'
    <2> SUFFICES ASSUME NEW q \in Proc
                 PROVE  /\ pc'[q] = "asleep" => owner'[at'[q]] # NoProc
                        /\ pc'[q] = "iosleep" => ~Clean(at[q])'
        BY DEF NoLostWakeup, Clean
    <2>1. /\ pc[q] = "asleep" => owner[at[q]] # NoProc
          /\ pc[q] = "iosleep" => ~Clean(at[q])
        BY <1>i DEF NoLostWakeup
    <2> QED
        BY <1>i, <1>0, <1>a, <1>b, <1>c, <2>1, NoneAssumption DEF TypeOK, Holding, Clean
<1> QED
    BY <1>1, <1>2, <1>3, <1>4, <1>5, <1>6, <1>7, <1>8, <1>9
       DEF IInv, WellFormed, SleepersAreServed

\* memide.c does everything at once.
LEMMA MemIderwKeeps ==
    ASSUME IInv, NEW p \in Proc, MemIderw(p)
    PROVE  IInv'
<1>i. /\ WellFormed /\ TypeOK /\ ListComplete /\ RefcntCountsUsers /\ OneCopy /\ Locked /\ Coherent
      /\ QueueMatchesRequests /\ NoLostWakeup
    BY DEF IInv, WellFormed, SleepersAreServed
<1>0. PICK x \in Buf :
      /\ x = at[p] /\ blockno[x] \in Block /\ pc[p] = "iderw" /\ pc'[p] = "using"
      /\ \A q \in Proc \ {p} : pc'[q] = pc[q]
      /\ "VALID" \in flags'[x] /\ "DIRTY" \notin flags'[x]
      /\ \A y \in Buf \ {x} : flags'[y] = flags[y]
      /\ data'[x] = disk'[blockno[x]] /\ \A y \in Buf \ {x} : data'[y] = data[y]
      /\ \A b \in Block \ {blockno[x]} : disk'[b] = disk[b]
      /\ disk' \in [Block -> Value] /\ data' \in [Buf -> Value]
      /\ flags' \in [Buf -> SUBSET {"VALID", "DIRTY"}]
      /\ UNCHANGED <<refcnt, blockno, mru, owner, idequeue, chip, memide, at>>
    <2>1. PICK x \in Buf : x = at[p] /\ blockno[x] \in Block
        BY <1>i DEF MemIderw, TypeOK, RefcntCountsUsers
    <2>2. /\ flags' = [flags EXCEPT ![x] = {"VALID"}]
          /\ IF "DIRTY" \in flags[x]
               THEN disk' = [disk EXCEPT ![blockno[x]] = data[x]] /\ UNCHANGED data
               ELSE data' = [data EXCEPT ![x] = disk[blockno[x]]] /\ UNCHANGED disk
          /\ pc[p] = "iderw" /\ pc' = [pc EXCEPT ![p] = "using"]
          /\ UNCHANGED <<refcnt, blockno, mru, owner, idequeue, chip, memide, at>>
        BY <2>1 DEF MemIderw, Goto, cache
    <2>3. /\ data'[x] = disk'[blockno[x]] /\ \A y \in Buf \ {x} : data'[y] = data[y]
          /\ \A b \in Block \ {blockno[x]} : disk'[b] = disk[b]
          /\ disk' \in [Block -> Value] /\ data' \in [Buf -> Value]
        <3>1. CASE "DIRTY" \in flags[x]
            BY <1>i, <2>1, <2>2, <3>1 DEF TypeOK
        <3>2. CASE "DIRTY" \notin flags[x]
            <4>1. disk' = disk /\ data' = [data EXCEPT ![x] = disk[blockno[x]]]
                BY <2>2, <3>2
            <4>2. disk[blockno[x]] \in Value
                BY <1>i, <2>1 DEF TypeOK
            <4> QED
                BY <1>i, <4>1, <4>2 DEF TypeOK
        <3> QED
            BY <3>1, <3>2
    <2>4. /\ "VALID" \in flags'[x] /\ "DIRTY" \notin flags'[x]
          /\ \A y \in Buf \ {x} : flags'[y] = flags[y]
          /\ flags' \in [Buf -> SUBSET {"VALID", "DIRTY"}]
          /\ pc'[p] = "using" /\ \A q \in Proc \ {p} : pc'[q] = pc[q]
        BY <1>i, <2>1, <2>2 DEF TypeOK
    <2> QED
        BY <2>1, <2>2, <2>3, <2>4
<1>a. /\ x \notin Requested /\ owner[x] = p
      /\ \A q \in Proc : pc[q] \in Holding /\ at[q] = x => q = p
    BY <1>i, <1>0, OneHolder DEF Holding, Waiting
<1>b. \A y \in Buf \ {x} : blockno[y] # NoBlock => disk'[blockno[y]] = disk[blockno[y]]
    BY <1>i, <1>0 DEF OneCopy, TypeOK
<1>1. TypeOK'
    BY <1>i, <1>0 DEF TypeOK, Places, MemIderw, Goto, cache
<1>2. ListComplete'
    BY <1>i, <1>0 DEF ListComplete
<1>3. RefcntCountsUsers'
    BY <1>i, <1>0, SameUsers
<1>4. OneCopy'
    BY <1>i, <1>0 DEF OneCopy
<1>5. Locked'
    <2> SUFFICES ASSUME NEW y \in Buf, NEW q \in Proc
                 PROVE  owner'[y] = q <=> at'[q] = y /\ pc'[q] \in Holding
        BY DEF Locked
    <2>1. owner[y] = q <=> at[q] = y /\ pc[q] \in Holding
        BY <1>i DEF Locked
    <2> QED
        BY <1>i, <1>0, <1>a, <1>b, <2>1, NoneAssumption DEF Holding
<1>6. Coherent'
    <2>1. /\ (\A y \in Buf : "VALID" \in flags[y] => blockno[y] # NoBlock)'
          /\ (\A y \in Buf : "DIRTY" \in flags[y] => "VALID" \in flags[y])'
        <3> SUFFICES ASSUME NEW y \in Buf
                     PROVE  /\ "VALID" \in flags'[y] => blockno'[y] # NoBlock
                            /\ "DIRTY" \in flags'[y] => "VALID" \in flags'[y]
            OBVIOUS
        <3>1. CASE y = x
            BY <1>0, <3>1, NoneAssumption
        <3>2. CASE y # x
            BY <1>i, <1>0, <3>2 DEF Coherent
        <3> QED
            BY <3>1, <3>2
    <2>2. ASSUME NEW y \in Buf, Clean(y)', Settled(y)'
          PROVE  data'[y] = disk'[blockno'[y]]
        <3>1. CASE y = x
            BY <1>0, <3>1
        <3>2. CASE y # x
            <4>1. Clean(y) /\ Settled(y)
                BY <1>0, <2>2, <3>2 DEF Clean, Settled
            <4>2. data[y] = disk[blockno[y]] /\ blockno[y] # NoBlock
                BY <1>i, <4>1 DEF Coherent, Clean
            <4> QED
                BY <1>0, <1>b, <3>2, <4>2
        <3> QED
            BY <3>1, <3>2
    <2>3. (\A y \in Buf, q \in Proc : at[q] = y =>
              /\ pc[q] \in {"using", "changed"} => "VALID" \in flags[y]
              /\ pc[q] = "iderw" => ~Clean(y))'
        <3> SUFFICES ASSUME NEW y \in Buf, NEW q \in Proc, at'[q] = y
                     PROVE  /\ pc'[q] \in {"using", "changed"} => "VALID" \in flags'[y]
                            /\ pc'[q] = "iderw" => ~Clean(y)'
            OBVIOUS
        <3>1. at[q] = y => /\ pc[q] \in {"using", "changed"} => "VALID" \in flags[y]
                           /\ pc[q] = "iderw" => ~Clean(y)
            BY <1>i DEF Coherent
        <3> QED
            BY <1>i, <1>0, <1>a, <1>b, <3>1 DEF TypeOK, Holding, Clean
    <2>4. (\A y \in Buf : Clean(y) /\ Settled(y) => data[y] = disk[blockno[y]])'
        BY <2>2
    <2> QED
        BY <2>1, <2>3, <2>4 DEF Coherent
<1>7. (Cardinality(Kept) <= MaxPinned)'
    <2>1. Kept' \subseteq Kept
        BY <1>i, <1>0, <1>a, <1>b DEF TypeOK, Kept, Pinned, Waiting, Clean
    <2> QED
        BY <1>i, <2>1, NoMoreKept
<1>8. QueueMatchesRequests'
    <2>1. Requested' = Requested
        <3>1. x \notin Requested'
            BY <1>0, <1>a DEF Requested, Clean
        <3>2. \A y \in Buf \ {x} : Clean(y)' <=> Clean(y)
            BY <1>0 DEF Clean
        <3>3. \A q \in Proc : /\ at'[q] = at[q]
                              /\ pc'[q] \in {"io", "iosleep"} <=> pc[q] \in {"io", "iosleep"}
            BY <1>0
        <3> QED
            BY <1>0, <1>a, <3>1, <3>2, <3>3 DEF Requested
    <2>2. \A y \in Requested : y \in Buf /\ blockno[y] # NoBlock
        BY <1>i DEF TypeOK, Requested, RefcntCountsUsers
    <2> QED
        BY <1>i, <1>0, <1>a, <1>b, <2>1, <2>2, SameQueue
<1>9. NoLostWakeup'
    <2> SUFFICES ASSUME NEW q \in Proc
                 PROVE  /\ pc'[q] = "asleep" => owner'[at'[q]] # NoProc
                        /\ pc'[q] = "iosleep" => ~Clean(at[q])'
        BY DEF NoLostWakeup, Clean
    <2>1. /\ pc[q] = "asleep" => owner[at[q]] # NoProc
          /\ pc[q] = "iosleep" => ~Clean(at[q])
        BY <1>i DEF NoLostWakeup
    <2> QED
        BY <1>i, <1>0, <1>a, <1>b, <2>1, NoneAssumption DEF TypeOK, Holding, Clean
<1> QED
    BY <1>1, <1>2, <1>3, <1>4, <1>5, <1>6, <1>7, <1>8, <1>9
       DEF IInv, WellFormed, SleepersAreServed

-----------------------------------------------------------------------------
(* The invariant *)

\* binit() has linked every buffer, and none has been used.
LEMMA InitIInv == Init => IInv
<1> SUFFICES ASSUME Init PROVE IInv
    OBVIOUS
<1>1. TypeOK
    <2>1. mru \in [Buf -> Buf]
        BY SizeAssumption DEF Init, Buf
    <2>2. 1 \in Buf
        BY SizeAssumption DEF Buf
    <2> QED
        BY <2>1, <2>2 DEF Init, TypeOK, Places
<1>2. ListComplete
    <2> SUFFICES ASSUME NEW x \in Buf PROVE \E i \in Buf : mru[i] = x
        BY DEF ListComplete
    <2>1. NBUF + 1 - x \in Buf /\ NBUF + 1 - (NBUF + 1 - x) = x
        BY SizeAssumption DEF Buf
    <2> QED
        BY <2>1 DEF Init
<1>3. RefcntCountsUsers
    <2>1. \A x \in Buf : Users(x) = {}
        BY DEF Users, Init
    <2> QED
        BY <2>1, FS_EmptySet DEF RefcntCountsUsers, Init
<1>4. OneCopy /\ Locked /\ Coherent
    BY NoneAssumption DEF Init, OneCopy, Locked, Holding, Coherent, Clean
<1>5. Cardinality(Kept) <= MaxPinned
    <2>1. Kept = {}
        BY DEF Kept, Pinned, Init
    <2> QED
        BY <2>1, FS_EmptySet, SizeAssumption
<1>6. QueueMatchesRequests
    <2>1. Requested = {} /\ Len(idequeue) = 0
        BY DEF Requested, Init
    <2> QED
        BY <2>1 DEF QueueMatchesRequests, Init
<1>7. NoLostWakeup
    BY DEF NoLostWakeup, Init
<1> QED
    BY <1>1, <1>2, <1>3, <1>4, <1>5, <1>6, <1>7 DEF IInv, WellFormed, SleepersAreServed

\* No step breaks it.
LEMMA NextIInv == IInv /\ [Next]_vars => IInv'
<1> SUFFICES ASSUME IInv, [Next]_vars PROVE IInv'
    OBVIOUS
<1>1. CASE UNCHANGED vars
    <2> USE <1>1 DEF vars, cache, driver
    <2>1. WellFormed /\ SleepersAreServed
        BY DEF IInv
    <2>2. TypeOK' /\ ListComplete' /\ OneCopy' /\ Locked'
        BY <2>1 DEF WellFormed, TypeOK, ListComplete, OneCopy, Locked
    <2>3. RefcntCountsUsers' /\ Cardinality(Kept)' <= MaxPinned
        BY <2>1, SameUsers, NoMoreKept DEF Kept, Pinned
    <2>4. Coherent'
        BY <2>1 DEF WellFormed, Coherent, Clean, Settled
    <2>5. QueueMatchesRequests'
        BY SameQueue DEF Requested, Clean
    <2>6. NoLostWakeup'
        BY <2>1 DEF SleepersAreServed, NoLostWakeup, Clean
    <2> QED
        BY <2>2, <2>3, <2>4, <2>5, <2>6 DEF IInv, WellFormed, SleepersAreServed
<1>2. ASSUME NEW p \in Proc, Step(p) PROVE IInv'
    BY <1>2, BgetHitKeeps, BgetRecycleKeeps, AcquireSleepKeeps, ReleaseSleepKeeps, KillWakesKeeps,
       BreadKeeps, BwriteKeeps, LogWriteKeeps, BrelseKeeps, ChangeKeeps, IderwKeeps, IoTestKeeps,
       MemIderwKeeps
       DEF Step
<1>3. CASE DiskDone \/ Ideintr
    BY <1>3, DiskDoneKeeps, IdeintrKeeps
<1> QED
    BY <1>1, <1>2, <1>3 DEF Next

\* What both properties of the cache follow from.
THEOREM Invariant == Spec => []IInv
BY InitIInv, NextIInv, PTL DEF Spec

\* The disk driver loses no request and no wakeup: each request is in the queue once
\* until it has been answered, and nobody sleeps for an answer or a lock that is there.
THEOREM DriverServes == Spec => []SleepersAreServed
<1>1. IInv => SleepersAreServed
    BY DEF IInv
<1> QED
    BY <1>1, Invariant, PTL

\* With a process that uses no buffer, one is neither used nor kept dirty.
LEMMA OneIsFree ==
    ASSUME Enough, WellFormed, NEW p \in Proc, pc[p] = "idle"
    PROVE  Recyclable # {}
<1> DEFINE Busy == {q \in Proc : pc[q] # "idle"}
           Used == {at[q] : q \in Busy}
           f == [q \in Busy |-> at[q]]
<1>1. /\ IsFiniteSet(Busy) /\ Cardinality(Busy) \in Nat
      /\ Cardinality(Busy) <= Cardinality(Proc) - 1
    <2>1. Busy \subseteq Proc \ {p} /\ IsFiniteSet(Proc \ {p})
        BY ProcAssumption, FS_RemoveElement
    <2>2. Cardinality(Proc \ {p}) = Cardinality(Proc) - 1
        BY ProcAssumption, FS_RemoveElement
    <2> HIDE DEF Busy
    <2> QED
        BY <2>1, <2>2, FS_Subset, FS_CardinalityType
<1>2. /\ IsFiniteSet(Used) /\ Cardinality(Used) \in Nat
      /\ Cardinality(Used) <= Cardinality(Busy)
    <2>1. f \in Surjection(Busy, Used)
        BY DEF Surjection
    <2> HIDE DEF f, Used, Busy
    <2> QED
        BY <1>1, <2>1, FS_Surjection, FS_CardinalityType
<1>3. IsFiniteSet(Kept) /\ Cardinality(Kept) \in Nat /\ Cardinality(Kept) <= MaxPinned
    BY Finite, FS_Subset, FS_CardinalityType DEF Kept, Pinned, WellFormed
<1>4. /\ IsFiniteSet(Used \cup Kept) /\ Cardinality(Used \cup Kept) \in Nat
      /\ Cardinality(Used \cup Kept) <= Cardinality(Used) + Cardinality(Kept)
    <2> HIDE DEF Used
    <2>1. /\ IsFiniteSet(Used \cup Kept) /\ IsFiniteSet(Used \cap Kept)
          /\ Cardinality(Used \cup Kept)
               = Cardinality(Used) + Cardinality(Kept) - Cardinality(Used \cap Kept)
        BY <1>2, <1>3, FS_Union, FS_Intersection
    <2>2. Cardinality(Used \cap Kept) \in Nat /\ Cardinality(Used \cup Kept) \in Nat
        BY <2>1, FS_CardinalityType
    <2> QED
        BY <1>2, <1>3, <2>1, <2>2
<1>5. PICK x \in Buf : x \notin Used \cup Kept
    <2> HIDE DEF Used, Busy
    <2>1. SUFFICES ASSUME Buf \subseteq Used \cup Kept PROVE FALSE
        OBVIOUS
    <2>2. Cardinality(Buf) <= Cardinality(Used \cup Kept)
        BY <1>4, <2>1, FS_Subset
    <2> QED
        BY <1>1, <1>2, <1>3, <1>4, <2>2, Finite, SizeAssumption DEF Enough
<1>6. Users(x) = {} /\ refcnt[x] = 0
    <2>1. Users(x) = {}
        BY <1>5 DEF Users
    <2> QED
        BY <2>1, FS_EmptySet DEF WellFormed, RefcntCountsUsers
<1>7. "DIRTY" \notin flags[x]
    <2>1. \A q \in Proc : at[q] = x => pc[q] \notin Waiting
        BY <1>6 DEF Users, Waiting
    <2> QED
        BY <1>5, <2>1 DEF Kept, Pinned
<1>8. PICK i \in Buf : mru[i] = x
    BY DEF WellFormed, ListComplete
<1> QED
    BY <1>6, <1>7, <1>8 DEF Recyclable, Buf

\* The cache counts the users of each buffer, keeps one copy of each block, gives a
\* buffer to one process at a time and agrees with the disk; and bget() never panics
\* with "no buffers" while the log pins as few as Enough asks.
THEOREM CacheIsSound == ASSUME Enough PROVE Spec => []CacheInv
<1>1. IInv => CacheInv
    BY OneIsFree DEF IInv, CacheInv, BgetFindsBuffer
<1> QED
    BY <1>1, Invariant, PTL

-----------------------------------------------------------------------------
(* The mapping, with one buffer per block *)

\* Content and Holder for the fields bn, fl, dt, ow of the buffers and the disk dk.
ContentOf(bn, fl, dt, dk) ==
    [k \in Block |->
        IF \E x \in {y \in Buf : bn[y] = k} : "VALID" \in fl[x]
          THEN dt[CHOOSE x \in {y \in Buf : bn[y] = k} : "VALID" \in fl[x]]
          ELSE dk[k]]

HolderOf(bn, ow) ==
    [k \in Block |->
        IF \E x \in {y \in Buf : bn[y] = k} : ow[x] # NoProc
          THEN ow[CHOOSE x \in {y \in Buf : bn[y] = k} : ow[x] # NoProc]
          ELSE NoProc]

Single(bn) == \A x, y \in Buf : bn[x] = bn[y] /\ bn[x] # NoBlock => x = y

\* They are what the mapping uses, now and after a step.
LEMMA Mapping ==
    /\ Content = ContentOf(blockno, flags, data, disk) /\ Holder = HolderOf(blockno, owner)
    /\ Content' = ContentOf(blockno', flags', data', disk')
    /\ Holder' = HolderOf(blockno', owner')
BY DEF Content, Holder, ContentOf, HolderOf, Cached

\* A block is what its valid buffer has, or else what the disk has.
LEMMA ContentIs ==
    ASSUME NEW bn, Single(bn), NEW fl, NEW dt, NEW dk, NEW k \in Block
    PROVE  /\ \A x \in Buf : bn[x] = k /\ "VALID" \in fl[x] =>
                 ContentOf(bn, fl, dt, dk)[k] = dt[x]
           /\ (\A x \in Buf : bn[x] = k => "VALID" \notin fl[x]) =>
                 ContentOf(bn, fl, dt, dk)[k] = dk[k]
<1>1. ASSUME NEW x \in Buf, bn[x] = k, "VALID" \in fl[x]
      PROVE  ContentOf(bn, fl, dt, dk)[k] = dt[x]
    <2> DEFINE S == {y \in Buf : bn[y] = k}
    <2>1. x \in S /\ \A y \in S : y = x
        BY <1>1, NoneAssumption DEF Single
    <2>2. ContentOf(bn, fl, dt, dk)[k] = dt[CHOOSE y \in S : "VALID" \in fl[y]]
        BY <1>1, <2>1 DEF ContentOf
    <2> HIDE DEF S
    <2>3. (CHOOSE y \in S : "VALID" \in fl[y]) = x
        BY <1>1, <2>1
    <2> QED
        BY <2>2, <2>3
<1>2. (\A x \in Buf : bn[x] = k => "VALID" \notin fl[x]) =>
          ContentOf(bn, fl, dt, dk)[k] = dk[k]
    BY DEF ContentOf
<1> QED
    BY <1>1, <1>2

\* The holder of a block has the lock of its buffer.
LEMMA HolderIs ==
    ASSUME NEW bn, Single(bn), NEW ow, NEW k \in Block
    PROVE  /\ \A x \in Buf : bn[x] = k => HolderOf(bn, ow)[k] = ow[x]
           /\ (\A x \in Buf : bn[x] # k) => HolderOf(bn, ow)[k] = NoProc
<1>1. ASSUME NEW x \in Buf, bn[x] = k PROVE HolderOf(bn, ow)[k] = ow[x]
    <2> DEFINE S == {y \in Buf : bn[y] = k}
    <2>1. x \in S /\ \A y \in S : y = x
        BY <1>1, NoneAssumption DEF Single
    <2>2. HolderOf(bn, ow)[k] =
             IF \E y \in S : ow[y] # NoProc THEN ow[CHOOSE y \in S : ow[y] # NoProc]
             ELSE NoProc
        BY DEF HolderOf
    <2> HIDE DEF S
    <2>3. ow[x] # NoProc => (CHOOSE y \in S : ow[y] # NoProc) = x
        BY <2>1
    <2> QED
        BY <2>1, <2>2, <2>3
<1>2. (\A x \in Buf : bn[x] # k) => HolderOf(bn, ow)[k] = NoProc
    BY DEF HolderOf
<1> QED
    BY <1>1, <1>2

\* What both states of a step have: one buffer per block.
LEMMA OneCopies ==
    ASSUME IInv, [Next]_vars
    PROVE  Single(blockno) /\ Single(blockno')
<1>1. OneCopy
    BY DEF IInv, WellFormed
<1>2. OneCopy'
    BY NextIInv DEF IInv, WellFormed
<1> QED
    BY <1>1, <1>2 DEF OneCopy, Single

\* Every block keeps its contents where the buffers stay on their blocks, and a buffer
\* whose data or flags change has what its block had.
LEMMA SameContent ==
    ASSUME Single(blockno), blockno' = blockno,
           \A x \in Buf : blockno[x] \in Block =>
              IF "VALID" \in flags[x]
                THEN "VALID" \in flags'[x] /\ data'[x] = data[x]
                ELSE "VALID" \in flags'[x] => data'[x] = disk[blockno[x]],
           \A k \in Block :
              disk'[k] = disk[k] \/ \E x \in Buf : blockno[x] = k /\ "VALID" \in flags'[x]
    PROVE  Content' = Content
<1> SUFFICES ASSUME NEW k \in Block
             PROVE  ContentOf(blockno', flags', data', disk')[k]
                       = ContentOf(blockno, flags, data, disk)[k]
    <2>1. ContentOf(blockno', flags', data', disk') = ContentOf(blockno, flags, data, disk)
        BY DEF ContentOf
    <2> QED
        BY <2>1, Mapping
<1>1. CASE \E x \in Buf : blockno[x] = k
    <2>1. PICK x \in Buf : blockno[x] = k
        BY <1>1
    <2>2. \A y \in Buf : blockno[y] = k => y = x
        BY <2>1, NoneAssumption DEF Single
    <2>3. CASE "VALID" \in flags'[x]
        <3>1. ContentOf(blockno', flags', data', disk')[k] = data'[x]
            BY <2>1, <2>3, ContentIs
        <3>2. CASE "VALID" \in flags[x]
            BY <2>1, <3>1, <3>2, ContentIs
        <3>3. CASE "VALID" \notin flags[x]
            BY <2>1, <2>2, <3>1, <3>3, ContentIs
        <3> QED
            BY <3>2, <3>3
    <2>4. CASE "VALID" \notin flags'[x]
        <3>1. "VALID" \notin flags[x] /\ disk'[k] = disk[k]
            BY <2>1, <2>2, <2>4
        <3> QED
            BY <2>2, <2>4, <3>1, ContentIs
    <2> QED
        BY <2>3, <2>4
<1>2. CASE \A x \in Buf : blockno[x] # k
    BY <1>2, ContentIs
<1> QED
    BY <1>1, <1>2

\* A function that differs from another at one point.
LEMMA AtOnePoint ==
    ASSUME NEW S, NEW f, NEW g, f = [s \in S |-> f[s]], g = [s \in S |-> g[s]],
           NEW a \in S, NEW v, g[a] = v, \A s \in S : s # a => g[s] = f[s]
    PROVE  g = [f EXCEPT ![a] = v]
<1>1. [f EXCEPT ![a] = v] = [s \in S |-> IF s = a THEN v ELSE f[s]]
    OBVIOUS
<1>2. \A s \in S : g[s] = IF s = a THEN v ELSE f[s]
    OBVIOUS
<1> QED
    BY <1>1, <1>2

\* The mapping gives functions of the blocks.
LEMMA OfBlocks ==
    ASSUME NEW bn, NEW fl, NEW dt, NEW dk, NEW ow
    PROVE  /\ ContentOf(bn, fl, dt, dk) = [k \in Block |-> ContentOf(bn, fl, dt, dk)[k]]
           /\ HolderOf(bn, ow) = [k \in Block |-> HolderOf(bn, ow)[k]]
BY DEF ContentOf, HolderOf

\* Nothing of this can be seen from above.
Hidden == UNCHANGED <<Content, disk, Holder>>

-----------------------------------------------------------------------------
(* One lemma per kind of step *)

\* Looking up, waiting, testing and releasing move nothing.
LEMMA QuietSteps ==
    ASSUME UNCHANGED <<blockno, flags, data, disk, owner>> PROVE Hidden
BY Mapping DEF Hidden

\* Marking a buffer dirty changes no block.
LEMMA DirtyHides ==
    ASSUME IInv, [Next]_vars, NEW p \in Proc, Bwrite(p) \/ LogWrite(p) PROVE Hidden
<1>1. TypeOK
    BY DEF IInv, WellFormed
<1>2. UNCHANGED <<blockno, data, disk, owner>>
    BY DEF Bwrite, LogWrite, cache, driver
<1>3. \A x \in Buf : "VALID" \in flags'[x] <=> "VALID" \in flags[x]
    <2>1. PICK z \in Buf : flags' = [flags EXCEPT ![z] = flags[z] \cup {"DIRTY"}]
        BY <1>1 DEF Bwrite, LogWrite, SetDirty, TypeOK
    <2> QED
        BY <1>1, <2>1 DEF TypeOK
<1>4. Content' = Content
    BY <1>2, <1>3, OneCopies, SameContent
<1> QED
    BY <1>2, <1>4, Mapping DEF Hidden

\* What bget() recycles is on the disk, and no other buffer has the block it reads next.
LEMMA RecycleHides ==
    ASSUME IInv, [Next]_vars, NEW p \in Proc, NEW k \in Block, BgetRecycle(p, k)
    PROVE  Hidden
<1>1. WellFormed /\ TypeOK /\ Coherent
    BY DEF IInv, WellFormed
<1>2. PICK x \in Buf :
        /\ refcnt[x] = 0 /\ "DIRTY" \notin flags[x]
        /\ \A y \in Buf : blockno[y] # k
        /\ blockno'[x] = k /\ "VALID" \notin flags'[x]
        /\ \A y \in Buf \ {x} : blockno'[y] = blockno[y] /\ flags'[y] = flags[y]
        /\ UNCHANGED <<data, owner, disk>>
    <2>1. PICK x : x = LeastRecent
        OBVIOUS
    <2>2. x \in Buf /\ refcnt[x] = 0 /\ "DIRTY" \notin flags[x]
        BY <1>1, <2>1, Recycled DEF BgetRecycle
    <2> QED
        BY <1>1, <2>1, <2>2 DEF TypeOK, BgetRecycle, Cached, driver
<1>3. owner[x] = NoProc /\ Settled(x)
    BY <1>1, <1>2, Unused DEF Settled
<1>4. "VALID" \in flags[x] => data[x] = disk[blockno[x]]
    BY <1>1, <1>2, <1>3 DEF Coherent, Clean
<1>5. Single(blockno) /\ Single(blockno')
    BY OneCopies
<1>6. ASSUME NEW j \in Block
      PROVE  /\ ContentOf(blockno', flags', data', disk')[j]
                  = ContentOf(blockno, flags, data, disk)[j]
             /\ HolderOf(blockno', owner')[j] = HolderOf(blockno, owner)[j]
    <2>1. CASE j = k
        <3>1. \A y \in Buf : blockno'[y] = j => y = x
            BY <1>2, <2>1
        <3>2. ContentOf(blockno', flags', data', disk')[j] = disk'[j]
            BY <1>2, <1>5, <3>1, ContentIs
        <3>3. ContentOf(blockno, flags, data, disk)[j] = disk[j]
            BY <1>2, <1>5, <2>1, ContentIs
        <3>4. HolderOf(blockno', owner')[j] = NoProc
            BY <1>2, <1>3, <1>5, <2>1, HolderIs
        <3>5. HolderOf(blockno, owner)[j] = NoProc
            BY <1>2, <1>5, <2>1, HolderIs
        <3> QED
            BY <1>2, <3>2, <3>3, <3>4, <3>5
    <2>2. CASE blockno[x] = j
        <3>1. \A y \in Buf : blockno[y] = j => y = x
            BY <1>5, <2>2, NoneAssumption DEF Single
        <3>2. \A y \in Buf : blockno'[y] # j
            BY <1>2, <2>2, <3>1
        <3>3. ContentOf(blockno', flags', data', disk')[j] = disk'[j]
            BY <1>5, <3>2, ContentIs
        <3>4. ContentOf(blockno, flags, data, disk)[j] = disk[j]
            BY <1>4, <1>5, <2>2, <3>1, ContentIs
        <3>5. HolderOf(blockno', owner')[j] = NoProc
            BY <1>5, <3>2, HolderIs
        <3>6. HolderOf(blockno, owner)[j] = NoProc
            BY <1>3, <1>5, <2>2, HolderIs
        <3> QED
            BY <1>2, <3>3, <3>4, <3>5, <3>6
    <2>3. CASE j # k /\ blockno[x] # j
        <3>1. \A y \in Buf :
                /\ blockno'[y] = j <=> blockno[y] = j
                /\ blockno[y] = j => flags'[y] = flags[y]
            BY <1>2, <2>3
        <3>2. CASE \E y \in Buf : blockno[y] = j /\ "VALID" \in flags[y]
            <4>1. PICK y \in Buf : blockno[y] = j /\ "VALID" \in flags[y]
                BY <3>2
            <4>2. ContentOf(blockno, flags, data, disk)[j] = data[y]
                BY <1>5, <4>1, ContentIs
            <4>3. ContentOf(blockno', flags', data', disk')[j] = data'[y]
                BY <1>5, <3>1, <4>1, ContentIs
            <4>4. HolderOf(blockno, owner)[j] = owner[y] /\ HolderOf(blockno', owner')[j] = owner'[y]
                BY <1>5, <3>1, <4>1, HolderIs
            <4> QED
                BY <1>2, <4>2, <4>3, <4>4
        <3>3. CASE \A y \in Buf : blockno[y] = j => "VALID" \notin flags[y]
            <4>1. /\ ContentOf(blockno, flags, data, disk)[j] = disk[j]
                  /\ ContentOf(blockno', flags', data', disk')[j] = disk'[j]
                BY <1>5, <3>1, <3>3, ContentIs
            <4>2. HolderOf(blockno, owner)[j] = HolderOf(blockno', owner')[j]
                <5>1. CASE \E y \in Buf : blockno[y] = j
                    BY <1>2, <1>5, <3>1, <5>1, HolderIs
                <5>2. CASE \A y \in Buf : blockno[y] # j
                    BY <1>5, <3>1, <5>2, HolderIs
                <5> QED
                    BY <5>1, <5>2
            <4> QED
                BY <1>2, <4>1, <4>2
        <3> QED
            BY <3>2, <3>3
    <2> QED
        BY <2>1, <2>2, <2>3
<1>7. /\ ContentOf(blockno', flags', data', disk') = ContentOf(blockno, flags, data, disk)
      /\ HolderOf(blockno', owner') = HolderOf(blockno, owner)
    BY <1>6 DEF ContentOf, HolderOf
<1> QED
    BY <1>2, <1>7, Mapping DEF Hidden

\* Who uses a buffer uses it for a block.
LEMMA UsedForBlock ==
    ASSUME IInv, NEW p \in Proc, pc[p] # "idle"
    PROVE  at[p] \in Buf /\ blockno[at[p]] \in Block
BY DEF IInv, WellFormed, TypeOK, RefcntCountsUsers

\* The holder of a block changes with the lock of its buffer.
LEMMA HolderChanges ==
    ASSUME NEW bn, Single(bn), NEW x \in Buf, bn[x] \in Block, NEW q, NEW ow, NEW ow2,
           ow2[x] = q, \A y \in Buf \ {x} : ow2[y] = ow[y]
    PROVE  HolderOf(bn, ow2) = [HolderOf(bn, ow) EXCEPT ![bn[x]] = q]
<1>1. HolderOf(bn, ow2)[bn[x]] = q
    BY HolderIs
<1>2. ASSUME NEW k \in Block, k # bn[x] PROVE HolderOf(bn, ow2)[k] = HolderOf(bn, ow)[k]
    <2>1. CASE \E y \in Buf : bn[y] = k
        <3>1. PICK y \in Buf : bn[y] = k /\ y # x
            BY <1>2, <2>1
        <3>2. HolderOf(bn, ow2)[k] = ow2[y] /\ HolderOf(bn, ow)[k] = ow[y]
            BY <3>1, HolderIs
        <3> QED
            BY <3>1, <3>2
    <2>2. CASE \A y \in Buf : bn[y] # k
        BY <2>2, HolderIs
    <2> QED
        BY <2>1, <2>2
<1>3. /\ HolderOf(bn, ow2) = [k \in Block |-> HolderOf(bn, ow2)[k]]
      /\ HolderOf(bn, ow) = [k \in Block |-> HolderOf(bn, ow)[k]]
    BY OfBlocks
<1> QED
    BY <1>1, <1>2, <1>3, AtOnePoint

\* The lock of a buffer is the lock of its block.
LEMMA OwnerHolds ==
    ASSUME IInv, [Next]_vars, blockno' = blockno, NEW x \in Buf, blockno[x] \in Block,
           NEW q, owner' = [owner EXCEPT ![x] = q]
    PROVE  /\ Holder[blockno[x]] = owner[x]
           /\ Holder' = [Holder EXCEPT ![blockno[x]] = q]
<1>1. Single(blockno) /\ owner \in [Buf -> Proc \cup {NoProc}]
    BY OneCopies DEF IInv, WellFormed, TypeOK
<1>2. HolderOf(blockno, owner)[blockno[x]] = owner[x]
    BY <1>1, HolderIs
<1>3. owner'[x] = q /\ \A y \in Buf \ {x} : owner'[y] = owner[y]
    BY <1>1
<1>4. HolderOf(blockno, owner') = [HolderOf(blockno, owner) EXCEPT ![blockno[x]] = q]
    <2>1. PICK ow2 : ow2 = owner'
        OBVIOUS
    <2>2. ow2[x] = q /\ \A y \in Buf \ {x} : ow2[y] = owner[y]
        BY <1>3, <2>1
    <2>3. Single(blockno)
        BY <1>1
    <2>4. HolderOf(blockno, ow2) = [HolderOf(blockno, owner) EXCEPT ![blockno[x]] = q]
        BY <2>2, <2>3, HolderChanges
    <2> QED
        BY <2>1, <2>4
<1> QED
    BY <1>2, <1>4, Mapping

\* Getting past the sleep lock locks the block.
LEMMA AcquireLocks ==
    ASSUME IInv, [Next]_vars, NEW p \in Proc, AcquireSleep(p)
    PROVE  Hidden \/ \E k \in Block : Store!Lock(p, k)
<1>1. UNCHANGED <<blockno, flags, data, disk>>
    BY DEF AcquireSleep, cache, driver
<1>2. CASE ~CanLock(p)
    BY <1>1, <1>2, QuietSteps DEF AcquireSleep
<1>3. CASE CanLock(p)
    <2>1. PICK x \in Buf : x = at[p] /\ blockno[x] \in Block
        BY UsedForBlock DEF AcquireSleep
    <2>2. owner[x] = NoProc /\ owner' = [owner EXCEPT ![x] = p]
        BY <1>3, <2>1 DEF AcquireSleep, CanLock
    <2>3. Holder[blockno[x]] = NoProc /\ Holder' = [Holder EXCEPT ![blockno[x]] = p]
        BY <1>1, <2>1, <2>2, OwnerHolds
    <2>4. Content' = Content
        BY <1>1, Mapping
    <2> QED
        BY <1>1, <2>1, <2>3, <2>4 DEF Store!Lock
<1> QED
    BY <1>2, <1>3

\* releasesleep() unlocks it.
LEMMA ReleaseUnlocks ==
    ASSUME IInv, [Next]_vars, NEW p \in Proc, ReleaseSleep(p)
    PROVE  \E k \in Block : Store!Unlock(p, k)
<1>1. UNCHANGED <<blockno, flags, data, disk>>
    BY DEF ReleaseSleep, cache, driver
<1>2. PICK x \in Buf : x = at[p] /\ blockno[x] \in Block
    BY UsedForBlock DEF ReleaseSleep
<1>3. owner[x] = p /\ owner' = [owner EXCEPT ![x] = NoProc]
    BY <1>2, OneHolder DEF ReleaseSleep, Holding, IInv
<1>4. Holder[blockno[x]] = p /\ Holder' = [Holder EXCEPT ![blockno[x]] = NoProc]
    BY <1>1, <1>2, <1>3, OwnerHolds
<1>5. Content' = Content
    BY <1>1, Mapping
<1> QED
    BY <1>1, <1>2, <1>4, <1>5 DEF Store!Unlock

\* The holder changes the block, since the buffer it changes is valid.
LEMMA ChangeChanges ==
    ASSUME IInv, [Next]_vars, NEW p \in Proc, NEW v \in Value, Change(p, v)
    PROVE  \E k \in Block : Store!Change(p, k, v)
<1>1. UNCHANGED <<blockno, flags, owner, disk>>
    BY DEF Change, cache, driver
<1>2. PICK x \in Buf : x = at[p] /\ blockno[x] \in Block
    BY UsedForBlock DEF Change
<1>3. "VALID" \in flags[x] /\ owner[x] = p
    BY <1>2, OneHolder DEF Change, Holding, IInv, WellFormed, Coherent
<1>4. data \in [Buf -> Value] /\ data' = [data EXCEPT ![x] = v]
    BY <1>2 DEF Change, IInv, WellFormed, TypeOK
<1>5. Single(blockno)
    BY OneCopies
<1>6. ContentOf(blockno, flags, data', disk)[blockno[x]] = v
    <2>1. data'[x] = v
        BY <1>4
    <2> QED
        BY <1>2, <1>3, <1>5, <2>1, ContentIs
<1>7. ASSUME NEW k \in Block, k # blockno[x]
      PROVE  ContentOf(blockno, flags, data', disk)[k] = ContentOf(blockno, flags, data, disk)[k]
    <2>1. CASE \E y \in Buf : blockno[y] = k /\ "VALID" \in flags[y]
        <3>1. PICK y \in Buf : blockno[y] = k /\ "VALID" \in flags[y]
            BY <2>1
        <3>2. data'[y] = data[y]
            BY <1>4, <1>7, <3>1
        <3>3. ContentOf(blockno, flags, data', disk)[k] = data'[y]
            BY <1>5, <3>1, ContentIs
        <3>4. ContentOf(blockno, flags, data, disk)[k] = data[y]
            BY <1>5, <3>1, ContentIs
        <3> QED
            BY <3>2, <3>3, <3>4
    <2>2. CASE \A y \in Buf : blockno[y] = k => "VALID" \notin flags[y]
        BY <1>5, <2>2, ContentIs
    <2> QED
        BY <2>1, <2>2
<1>8. ContentOf(blockno, flags, data', disk)
        = [ContentOf(blockno, flags, data, disk) EXCEPT ![blockno[x]] = v]
    BY <1>2, <1>6, <1>7, AtOnePoint, OfBlocks
<1>9. Content' = [Content EXCEPT ![blockno[x]] = v]
    BY <1>1, <1>8, Mapping
<1>10. Holder[blockno[x]] = p /\ Holder' = Holder
    BY <1>1, <1>2, <1>3, <1>5, HolderIs, Mapping
<1> QED
    BY <1>1, <1>2, <1>9, <1>10 DEF Store!Change

\* A write of a valid buffer by its holder writes the block.
LEMMA WriteSyncs ==
    ASSUME IInv, [Next]_vars, UNCHANGED <<blockno, owner, data>>,
           NEW x \in Buf, blockno[x] \in Block, owner[x] # NoProc,
           \A y \in Buf : "VALID" \in flags'[y] <=> "VALID" \in flags[y],
           "VALID" \in flags[x], disk' = [disk EXCEPT ![blockno[x]] = data[x]]
    PROVE  Store!Sync(blockno[x])
<1>1. Single(blockno) /\ disk \in [Block -> Value]
    BY OneCopies DEF IInv, WellFormed, TypeOK
<1>2. \A k \in Block : disk'[k] = disk[k] \/ k = blockno[x]
    BY <1>1
<1>3. Content' = Content
    BY <1>1, <1>2, SameContent
<1>4. Content[blockno[x]] = data[x] /\ Holder[blockno[x]] = owner[x] /\ Holder' = Holder
    BY <1>1, ContentIs, HolderIs, Mapping
<1> QED
    BY <1>3, <1>4 DEF Store!Sync

\* The head of the queue is a valid dirty buffer, or one that has no block yet; its
\* holder waits.
LEMMA HeadOfQueue ==
    ASSUME IInv, idequeue # <<>>
    PROVE  \E x \in Buf :
              /\ x = Head(idequeue) /\ blockno[x] \in Block /\ owner[x] # NoProc
              /\ "VALID" \in flags[x] <=> "DIRTY" \in flags[x]
              /\ chip = Command(x) \/ Answers(x)
<1>1. /\ TypeOK /\ Locked /\ Coherent /\ QueueMatchesRequests
    BY DEF IInv, WellFormed, SleepersAreServed
<1>2. PICK x \in Buf : x = Head(idequeue) /\ x \in Requested
    BY <1>1, HeadIsRequested
<1>3. PICK p \in Proc : at[p] = x /\ pc[p] \in {"io", "iosleep"} /\ ~Clean(x)
    BY <1>2 DEF Requested
<1>4. blockno[x] \in Block /\ owner[x] = p
    BY <1>1, <1>3, UsedForBlock DEF Locked, Holding
<1>5. "VALID" \in flags[x] <=> "DIRTY" \in flags[x]
    BY <1>1, <1>3 DEF Coherent, Clean
<1> QED
    BY <1>1, <1>2, <1>4, <1>5, NoneAssumption DEF QueueMatchesRequests

\* The controller writes a block that is locked, and reads without being seen.
LEMMA DiskDoneSyncs ==
    ASSUME IInv, [Next]_vars, DiskDone
    PROVE  Hidden \/ \E k \in Block : Store!Sync(k)
<1>1. UNCHANGED <<blockno, flags, data, owner>>
    BY DEF DiskDone, cache
<1>2. CASE chip.op # "write"
    BY <1>1, <1>2, QuietSteps DEF DiskDone
<1>3. CASE chip.op = "write"
    <2>1. idequeue # <<>>
        BY <1>3 DEF IInv, SleepersAreServed, QueueMatchesRequests, NoCommand
    <2>2. PICK x \in Buf :
            /\ x = Head(idequeue) /\ blockno[x] \in Block /\ owner[x] # NoProc
            /\ "VALID" \in flags[x] <=> "DIRTY" \in flags[x]
            /\ chip = Command(x) \/ Answers(x)
        BY <2>1, HeadOfQueue
    <2>3. /\ "DIRTY" \in flags[x] /\ chip.block = blockno[x] /\ chip.value = data[x]
        BY <1>3, <2>2 DEF Command, Answers
    <2>4. disk' = [disk EXCEPT ![blockno[x]] = data[x]]
        BY <1>3, <2>3 DEF DiskDone
    <2> QED
        BY <1>1, <2>2, <2>3, <2>4, WriteSyncs
<1> QED
    BY <1>2, <1>3

\* The interrupt fills a buffer with what its block has on the disk.
LEMMA IdeintrHides ==
    ASSUME IInv, [Next]_vars, Ideintr
    PROVE  Hidden
<1>1. UNCHANGED <<blockno, disk, owner>> /\ TypeOK
    BY DEF Ideintr, cache, IInv, WellFormed
<1>2. PICK x \in Buf :
        /\ x = Head(idequeue) /\ blockno[x] \in Block /\ owner[x] # NoProc
        /\ "VALID" \in flags[x] <=> "DIRTY" \in flags[x]
        /\ chip = Command(x) \/ Answers(x)
    BY HeadOfQueue DEF Ideintr
<1>3. chip.value = disk[blockno[x]]
    BY <1>2 DEF Ideintr, Command, Answers
<1>4. /\ "VALID" \in flags'[x]
      /\ data'[x] = IF "DIRTY" \in flags[x] THEN data[x] ELSE chip.value
      /\ \A y \in Buf \ {x} : flags'[y] = flags[y] /\ data'[y] = data[y]
    BY <1>1, <1>2 DEF Ideintr, TypeOK
<1>5. Content' = Content
    BY <1>1, <1>2, <1>3, <1>4, OneCopies, SameContent
<1> QED
    BY <1>1, <1>5, Mapping DEF Hidden

\* So does the disk in memory, or it writes the block at once.
LEMMA MemIderwSyncs ==
    ASSUME IInv, [Next]_vars, NEW p \in Proc, MemIderw(p)
    PROVE  Hidden \/ \E k \in Block : Store!Sync(k)
<1>1. UNCHANGED <<blockno, owner>> /\ TypeOK /\ Coherent
    BY DEF MemIderw, cache, IInv, WellFormed
<1>2. PICK x \in Buf : x = at[p] /\ blockno[x] \in Block
    BY UsedForBlock DEF MemIderw
<1>3. owner[x] = p /\ ("VALID" \in flags[x] <=> "DIRTY" \in flags[x])
    BY <1>1, <1>2, OneHolder DEF MemIderw, Holding, IInv, Coherent, Clean
<1>4. "VALID" \in flags'[x] /\ \A y \in Buf \ {x} : flags'[y] = flags[y]
    BY <1>1, <1>2 DEF MemIderw, TypeOK
<1>5. CASE "DIRTY" \in flags[x]
    <2>1. data' = data /\ disk' = [disk EXCEPT ![blockno[x]] = data[x]]
        BY <1>2, <1>5 DEF MemIderw
    <2>2. \A y \in Buf : "VALID" \in flags'[y] <=> "VALID" \in flags[y]
        BY <1>3, <1>4, <1>5
    <2>3. owner[x] # NoProc
        BY <1>3, NoneAssumption
    <2> QED
        BY <1>1, <1>2, <1>3, <1>5, <2>1, <2>2, <2>3, WriteSyncs
<1>6. CASE "DIRTY" \notin flags[x]
    <2>1. disk' = disk /\ data' = [data EXCEPT ![x] = disk[blockno[x]]]
        BY <1>2, <1>6 DEF MemIderw
    <2>2. data'[x] = disk[blockno[x]] /\ \A y \in Buf \ {x} : data'[y] = data[y]
        BY <1>1, <2>1 DEF TypeOK
    <2>3. Content' = Content
        BY <1>1, <1>3, <1>4, <1>6, <2>1, <2>2, OneCopies, SameContent
    <2> QED
        BY <1>1, <2>1, <2>3, Mapping DEF Hidden
<1> QED
    BY <1>5, <1>6

-----------------------------------------------------------------------------
(* The refinement *)

\* Nothing is cached at first.
LEMMA InitStore == Init => Store!Init
<1> SUFFICES ASSUME Init PROVE Store!Init
    OBVIOUS
<1>1. \A k \in Block : Cached(k) = {}
    BY NoneAssumption DEF Init, Cached
<1>2. Content = [k \in Block |-> disk[k]] /\ Holder = [k \in Block |-> NoProc]
    BY <1>1 DEF Content, Holder
<1>3. disk \in [Block -> Value] /\ disk = [k \in Block |-> disk[k]]
    BY DEF Init
<1> QED
    BY <1>2, <1>3 DEF Store!Init

\* Every step of BufCache is a step of BlockStore, or cannot be seen from above.
LEMMA NextStore ==
    IInv /\ [Next]_vars => [Store!Next]_<<Content, disk, Holder>>
<1> SUFFICES ASSUME IInv, [Next]_vars PROVE [Store!Next]_<<Content, disk, Holder>>
    OBVIOUS
<1>1. Hidden => UNCHANGED <<Content, disk, Holder>>
    BY DEF Hidden
<1>2. CASE UNCHANGED vars
    BY <1>1, <1>2, QuietSteps DEF vars, cache, driver
<1>3. ASSUME NEW p \in Proc,
             \/ \E k \in Block : BgetHit(p, k)
             \/ KillWakes(p) \/ Bread(p) \/ Brelse(p) \/ Iderw(p) \/ IoTest(p)
      PROVE  Hidden
    <2>1. UNCHANGED <<blockno, flags, data, disk, owner>>
        BY <1>3 DEF BgetHit, KillWakes, Bread, Brelse, Iderw, IoTest, cache, driver
    <2> QED
        BY <2>1, QuietSteps
<1>4. ASSUME NEW p \in Proc, NEW k \in Block, BgetRecycle(p, k) PROVE Hidden
    BY <1>4, RecycleHides
<1>5. ASSUME NEW p \in Proc, Bwrite(p) \/ LogWrite(p) PROVE Hidden
    BY <1>5, DirtyHides
<1>6. ASSUME NEW p \in Proc, AcquireSleep(p) \/ ReleaseSleep(p) PROVE Hidden \/ Store!Next
    BY <1>6, AcquireLocks, ReleaseUnlocks DEF Store!Next
<1>7. ASSUME NEW p \in Proc, NEW v \in Value, Change(p, v) PROVE Store!Next
    BY <1>7, ChangeChanges DEF Store!Next
<1>8. ASSUME NEW p \in Proc, MemIderw(p) PROVE Hidden \/ Store!Next
    BY <1>8, MemIderwSyncs DEF Store!Next
<1>9. CASE DiskDone \/ Ideintr
    BY <1>1, <1>9, DiskDoneSyncs, IdeintrHides DEF Store!Next
<1>10. ASSUME NEW p \in Proc, Step(p) PROVE Hidden \/ Store!Next
    BY <1>3, <1>4, <1>5, <1>6, <1>7, <1>8, <1>10 DEF Step
<1> QED
    BY <1>1, <1>2, <1>9, <1>10 DEF Next

\* Whoever reads and writes blocks between bread() and brelse() finds one register
\* under one lock for each: no second copy, no buffer seen before its block has been
\* read, no change lost when a buffer is recycled, with either disk.
THEOREM CacheIsAStore == Spec => ImplementsBlockStore
BY InitStore, NextStore, Invariant, PTL DEF Spec, ImplementsBlockStore, Store!Spec

=============================================================================
