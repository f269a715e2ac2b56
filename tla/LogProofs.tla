----------------------------- MODULE LogProofs -----------------------------
(***************************************************************************)
(* Proofs about Log, for every set of callers, blocks and values and every *)
(* size of the log that satisfies Fits: the reservations of begin_op()     *)
(* keep the log within its place on the disk, through commits, crashes and *)
(* recoveries, and Log implements AtomicDisk: a crash at any moment leaves *)
(* all or nothing of a transaction.                                        *)
(***************************************************************************)
EXTENDS Log, FiniteSetTheorems, TLAPS

\* The log has a block more than one operation writes, and than several operations
\* write that are within LOGSIZE by their reservations (see README.md).
Fits ==
    /\ OpWrites < nlog - 1
    /\ LOGSIZE - 2 * (MAXOPBLOCKS - OpWrites) < nlog - 1

-----------------------------------------------------------------------------
(* Counting *)

\* n sets of at most k elements have together at most n * k.
LEMMA UnionBound ==
    ASSUME NEW A, IsFiniteSet(A), NEW k \in Nat, NEW f,
           \A a \in A : IsFiniteSet(f[a]) /\ Cardinality(f[a]) <= k
    PROVE  /\ IsFiniteSet(UNION {f[a] : a \in A})
           /\ Cardinality(UNION {f[a] : a \in A}) <= Cardinality(A) * k
<1> DEFINE U == UNION {f[a] : a \in A}
<1>0. Cardinality(A) \in Nat
    BY FS_CardinalityType
<1>1. CASE U = {}
    <2>1. 0 <= Cardinality(A) * k
        BY <1>0
    <2> QED
        BY <1>1, <2>1, FS_EmptySet
<1>2. CASE U # {}
    <2>1. PICK u : u \in U
        BY <1>2
    <2>2. \A a \in A : \E g \in [1..k -> U] : \A y \in f[a] : \E i \in 1..k : g[i] = y
        <3> SUFFICES ASSUME NEW a \in A
                     PROVE  \E g \in [1..k -> U] : \A y \in f[a] : \E i \in 1..k : g[i] = y
            OBVIOUS
        <3> DEFINE S == f[a]
        <3>1. S \subseteq U /\ IsFiniteSet(S) /\ Cardinality(S) <= k
            OBVIOUS
        <3> HIDE DEF U, S
        <3>2. \E g \in [1..k -> U] : \A y \in S : \E i \in 1..k : g[i] = y
            <4>1. PICK c \in Nat : c = Cardinality(S)
                BY <3>1, FS_CardinalityType
            <4>2. PICK h \in [1..c -> S] : \A y \in S : \E i \in 1..c : h[i] = y
                BY <3>1, <4>1, FS_CardinalityType
                   DEF ExistsBijection, Bijection, Surjection, Injection
            <4> DEFINE g == [i \in 1..k |-> IF i \in 1..c THEN h[i] ELSE u]
            <4>3. g \in [1..k -> U]
                BY <2>1, <3>1, <4>2
            <4>4. \A y \in S : \E i \in 1..k : g[i] = y
                <5> TAKE y \in S
                <5>1. PICK i \in 1..c : h[i] = y
                    BY <4>2
                <5>2. i \in 1..k
                    BY <3>1, <4>1
                <5> QED
                    BY <5>1, <5>2
            <4> QED
                BY <4>3, <4>4
        <3> QED
            BY <3>2 DEF S
    <2> DEFINE G == [a \in A |-> CHOOSE g \in [1..k -> U] :
                                     \A y \in f[a] : \E i \in 1..k : g[i] = y]
               F == [p \in A \X (1..k) |-> G[p[1]][p[2]]]
    <2>3. \A a \in A : G[a] \in [1..k -> U] /\ \A y \in f[a] : \E i \in 1..k : G[a][i] = y
        BY <2>2
    <2>4. F \in Surjection(A \X (1..k), U)
        <3>1. F \in [A \X (1..k) -> U]
            <4> HIDE DEF G, U
            <4> QED
                BY <2>3
        <3>2. ASSUME NEW y \in U PROVE \E p \in A \X (1..k) : F[p] = y
            <4>1. PICK a \in A : y \in f[a]
                OBVIOUS
            <4>2. PICK i \in 1..k : G[a][i] = y
                BY <2>3, <4>1
            <4> HIDE DEF G
            <4>3. <<a, i>> \in A \X (1..k) /\ F[<<a, i>>] = y
                BY <4>2
            <4> QED
                BY <4>3
        <3> QED
            BY <3>1, <3>2 DEF Surjection
    <2> HIDE DEF F, G, U
    <2>5. /\ IsFiniteSet(A \X (1..k))
          /\ Cardinality(A \X (1..k)) = Cardinality(A) * k
        <3>1. IsFiniteSet(1..k) /\ Cardinality(1..k) = k
            BY FS_Interval
        <3> QED
            BY <3>1, FS_Product
    <2>6. IsFiniteSet(U) /\ Cardinality(U) <= Cardinality(A \X (1..k))
        BY <2>4, <2>5, FS_Surjection
    <2> QED
        BY <2>5, <2>6 DEF U
<1> QED
    BY <1>1, <1>2

\* A sequence has at most as many elements as places, as many if they are distinct.
LEMMA Elements ==
    ASSUME NEW S, NEW s \in Seq(S)
    PROVE  /\ IsFiniteSet({s[i] : i \in 1..Len(s)})
           /\ Cardinality({s[i] : i \in 1..Len(s)}) \in Nat
           /\ Cardinality({s[i] : i \in 1..Len(s)}) <= Len(s)
           /\ Distinct(s) => Cardinality({s[i] : i \in 1..Len(s)}) = Len(s)
<1> DEFINE R == {s[i] : i \in 1..Len(s)}
           f == [i \in 1..Len(s) |-> s[i]]
<1>1. IsFiniteSet(1..Len(s)) /\ Cardinality(1..Len(s)) = Len(s)
    <2>1. PICK n \in Nat : n = Len(s)
        OBVIOUS
    <2>2. IsFiniteSet(1..n) /\ Cardinality(1..n) = n
        BY FS_Interval
    <2> QED
        BY <2>1, <2>2
<1>2. f \in Surjection(1..Len(s), R)
    BY DEF Surjection
<1>3. Distinct(s) => f \in Injection(1..Len(s), R)
    BY <1>2 DEF Injection, IsInjective, Surjection, Distinct
<1> HIDE DEF f, R
<1>4. /\ IsFiniteSet(R) /\ Cardinality(R) <= Cardinality(1..Len(s))
      /\ Cardinality(R) = Cardinality(1..Len(s)) <=> f \in Injection(1..Len(s), R)
    BY <1>1, <1>2, FS_Surjection
<1>5. Cardinality(R) \in Nat
    BY <1>4, FS_CardinalityType
<1> QED
    BY <1>1, <1>3, <1>4, <1>5 DEF R

\* What is under way, logged and written is finite.
LEMMA Finite ==
    ASSUME WellFormed
    PROVE  /\ IsFiniteSet(ActiveOps) /\ outstanding = Cardinality(ActiveOps)
           /\ IsFiniteSet(Logged) /\ Cardinality(Logged) = Len(lh)
           /\ IsFiniteSet(Written) /\ Cardinality(Written) \in Nat
           /\ Cardinality(Written) <= outstanding * OpWrites
           /\ IsFiniteSet(Older) /\ Cardinality(Older) \in Nat
           /\ Cardinality(Older) <= Len(lh)
<1>1. IsFiniteSet(ActiveOps) /\ outstanding = Cardinality(ActiveOps)
    BY CallerAssumption, FS_Subset DEF ActiveOps, WellFormed, Reserved
<1>2. IsFiniteSet(Logged) /\ Cardinality(Logged) = Len(lh)
    <2>1. lh \in Seq(Block) /\ Distinct(lh)
        BY DEF WellFormed, TypeOK, Progress
    <2> QED
        BY <2>1, Elements DEF Logged
<1>3. \A w \in ActiveOps : IsFiniteSet(wrote[w]) /\ Cardinality(wrote[w]) <= OpWrites
    BY DEF WellFormed, Reserved, ActiveOps
<1>4. OpWrites \in Nat
    BY SizeAssumption
<1>5. /\ IsFiniteSet(Written) /\ Cardinality(Written) <= outstanding * OpWrites
    BY <1>1, <1>3, <1>4, UnionBound DEF Written
<1>6. IsFiniteSet(Older) /\ Cardinality(Older) <= Len(lh)
    BY <1>2, FS_Subset DEF Older
<1> QED
    BY <1>1, <1>2, <1>5, <1>6, FS_CardinalityType

\* With no reservation nobody is in an operation.
LEMMA NobodyActive ==
    ASSUME WellFormed, outstanding = 0
    PROVE  /\ ActiveOps = {} /\ Written = {} /\ Older = Logged
           /\ \A w \in Caller : ~InOp(w) /\ held[w] = NoBlock /\ wrote[w] = {}
<1>1. ActiveOps = {}
    BY Finite, FS_EmptySet
<1>2. \A w \in Caller : ~InOp(w)
    BY <1>1 DEF ActiveOps
<1>3. \A w \in Caller : held[w] = NoBlock /\ wrote[w] = {}
    BY <1>2 DEF WellFormed, Turns, Reserved, InOp
<1> QED
    BY <1>1, <1>2, <1>3 DEF Written, Older

\* With one, the operation is the only one.
LEMMA OnlyActive ==
    ASSUME WellFormed, outstanding = 1, NEW w \in Caller, InOp(w)
    PROVE  ActiveOps = {w} /\ Written = wrote[w]
<1>1. w \in ActiveOps
    BY DEF ActiveOps
<1>2. PICK x : ActiveOps = {x}
    BY Finite, FS_Singleton
<1> QED
    BY <1>1, <1>2 DEF Written

\* Who is in an operation has a reservation, so that no commit or recovery runs.
LEMMA Active ==
    ASSUME WellFormed, NEW w \in Caller, InOp(w)
    PROVE  outstanding >= 1 /\ ~committing /\ stage = "off" /\ outstanding \in Nat
<1>1. w \in ActiveOps
    BY DEF ActiveOps
<1>2. outstanding \in Nat /\ outstanding # 0
    BY <1>1, Finite, FS_EmptySet DEF WellFormed, TypeOK
<1> QED
    BY <1>2 DEF WellFormed, TypeOK, Turns, Stages, Recovering

\* What is logged, and what the operations under way have yet to log, fits.
LEMMA Room ==
    ASSUME WellFormed, Fits, outstanding >= 1
    PROVE  /\ IsFiniteSet(Older \cup Written)
           /\ Cardinality(Older \cup Written) \in Nat
           /\ Cardinality(Older \cup Written) < nlog - 1
<1>1. outstanding \in Nat /\ OpWrites \in Nat /\ MAXOPBLOCKS \in Nat /\ LOGSIZE \in Nat
      /\ nlog \in Nat /\ OpWrites <= MAXOPBLOCKS
    BY SizeAssumption DEF WellFormed, TypeOK
<1>2. /\ IsFiniteSet(Older \cup Written)
      /\ Cardinality(Older \cup Written) <= Cardinality(Older) + Cardinality(Written)
    <2>1. IsFiniteSet(Older \cap Written)
        BY Finite, FS_Intersection
    <2>2. Cardinality(Older \cap Written) \in Nat
        BY <2>1, FS_CardinalityType
    <2>3. /\ IsFiniteSet(Older \cup Written)
          /\ Cardinality(Older \cup Written)
                = Cardinality(Older) + Cardinality(Written) - Cardinality(Older \cap Written)
        BY Finite, FS_Union
    <2> QED
        BY <2>2, <2>3, Finite
<1>3. Cardinality(Older \cup Written) \in Nat
    BY <1>2, FS_CardinalityType
<1>4. CASE outstanding = 1
    <2>1. Cardinality(Written) <= OpWrites
        BY <1>1, <1>4, Finite
    <2>2. CASE Older = {}
        <3>1. Cardinality(Older) = 0
            BY <2>2, FS_EmptySet
        <3> QED
            BY <1>1, <1>2, <1>3, <2>1, <3>1, Finite DEF Fits
    <2>3. CASE Cardinality(Older) + 2 * MAXOPBLOCKS - OpWrites <= LOGSIZE
        BY <1>1, <1>2, <1>3, <2>1, <2>3, Finite DEF Fits
    <2> QED
        BY <1>4, <2>2, <2>3 DEF WellFormed, Reserved
<1>5. CASE outstanding >= 2
    <2> DEFINE d == MAXOPBLOCKS - OpWrites
    <2>1. d \in Nat /\ outstanding - 2 \in Nat
        BY <1>1, <1>5
    <2>2. (outstanding - 2) * d >= 0
        BY <2>1
    <2>3. (outstanding - 2) * d = outstanding * MAXOPBLOCKS - outstanding * OpWrites - 2 * d
        BY <1>1
    <2>4. Cardinality(Older) + outstanding * MAXOPBLOCKS <= LOGSIZE
        BY DEF WellFormed, Reserved
    <2>5. PICK m \in Int, k \in Int : m = outstanding * MAXOPBLOCKS /\ k = outstanding * OpWrites
        BY <1>1
    <2>6. LOGSIZE - 2 * d < nlog - 1
        BY DEF Fits
    <2> HIDE DEF d
    <2>7. PICK z \in Int : z = (outstanding - 2) * d
        BY <2>1
    <2>8. /\ z >= 0 /\ z = m - k - 2 * d
          /\ Cardinality(Older) + m <= LOGSIZE /\ Cardinality(Written) <= k
        BY <2>2, <2>3, <2>4, <2>5, <2>7, Finite
    <2> QED
        BY <1>1, <1>2, <1>3, <2>1, <2>6, <2>8, Finite
<1> QED
    BY <1>1, <1>2, <1>3, <1>4, <1>5

-----------------------------------------------------------------------------
(* One lemma per action *)

\* The reservations stay as they are when no operation begins, ends or writes.
LEMMA SameReservation ==
    ASSUME WellFormed, UNCHANGED <<outstanding, wrote, lh>>,
           \A w \in Caller : InOp(w)' <=> InOp(w)
    PROVE  Reserved'
<1>1. ActiveOps' = ActiveOps
    BY DEF ActiveOps
<1>2. Written' = Written /\ Older' = Older
    BY <1>1 DEF Written, Older, Logged
<1> QED
    BY <1>1, <1>2 DEF WellFormed, Reserved

\* With nothing reserved there is only the log to account for.
LEMMA NothingReserved ==
    ASSUME outstanding' = 0, lh' \in Seq(Block), Len(lh') < nlog - 1,
           \A w \in Caller : ~InOp(w)' /\ wrote'[w] = {}
    PROVE  Reserved'
<1>1. ActiveOps' = {} /\ Cardinality({}) = 0 /\ IsFiniteSet({})
    BY FS_EmptySet DEF ActiveOps
<1>2. Older' = Logged'
    BY <1>1 DEF Written, Older
<1>3. Cardinality(Logged') \in Nat /\ Cardinality(Logged') <= Len(lh')
    BY Elements DEF Logged
<1>4. Cardinality(Older') + outstanding' * MAXOPBLOCKS <= LOGSIZE
    BY <1>2, <1>3, SizeAssumption
<1>5. \A w \in Caller : IsFiniteSet(wrote'[w]) /\ Cardinality(wrote'[w]) <= OpWrites
    <2>1. 0 <= OpWrites
        BY SizeAssumption
    <2> QED
        BY <1>1, <2>1
<1>6. outstanding' = Cardinality(ActiveOps') /\ outstanding' # 1
    BY <1>1
<1> QED
    BY <1>4, <1>5, <1>6 DEF Reserved

\* log_write() appends the block unless it is logged, and so no block twice.
LEMMA LogWriteAppends ==
    ASSUME WellFormed, Fits, NEW w \in Caller, LogWrite(w)
    PROVE  /\ held[w] \in wrote[w] /\ held[w] \in Block /\ held[w] \in Written
           /\ lh' \in Seq(Block) /\ Distinct(lh') /\ Logged' = Logged \cup {held[w]}
           /\ Len(lh') < nlog - 1
<1>1. pc[w] = "log" /\ Absorb(held[w]) /\ UNCHANGED <<wrote, outstanding>>
    BY DEF LogWrite
<1>2. held[w] \in wrote[w] /\ held[w] \in Block
    BY <1>1 DEF WellFormed, Turns, TypeOK
<1>3. held[w] \in Written
    BY <1>1, <1>2 DEF Written, ActiveOps, InOp
<1>4. lh \in Seq(Block) /\ Distinct(lh)
    BY DEF WellFormed, TypeOK, Progress
<1>5. lh' \in Seq(Block) /\ Distinct(lh') /\ Logged' = Logged \cup {held[w]}
    <2>1. CASE \E i \in 1..Len(lh) : lh[i] = held[w]
        BY <1>1, <1>4, <2>1 DEF Absorb, Logged
    <2>2. CASE ~\E i \in 1..Len(lh) : lh[i] = held[w]
        <3> DEFINE b == held[w]
        <3>1. lh' = Append(lh, b) /\ b \in Block
            BY <1>1, <1>2, <2>2 DEF Absorb
        <3> HIDE DEF b
        <3>2. /\ lh' \in Seq(Block) /\ Len(lh') = Len(lh) + 1 /\ lh'[Len(lh) + 1] = b
              /\ \A i \in 1..Len(lh) : lh'[i] = lh[i]
            BY <1>4, <3>1
        <3>3. \A i \in 1..Len(lh') : i = Len(lh) + 1 \/ i \in 1..Len(lh)
            BY <1>4, <3>2
        <3>4. \A i \in 1..Len(lh) : lh[i] # b
            BY <2>2 DEF b
        <3>5. Distinct(lh')
            BY <1>4, <3>2, <3>3, <3>4 DEF Distinct
        <3>6. Logged' = Logged \cup {b}
            BY <1>4, <3>2, <3>3 DEF Logged
        <3> QED
            BY <3>2, <3>5, <3>6 DEF b
    <2> QED
        BY <2>1, <2>2
<1>6. outstanding >= 1
    BY <1>1, Active DEF InOp
<1>7. Logged' \subseteq Older \cup Written
    BY <1>3, <1>5 DEF Older
<1>8. Cardinality(Logged') <= Cardinality(Older \cup Written)
    BY <1>6, <1>7, Room, FS_Subset
<1>9. Cardinality(Logged') = Len(lh')
    BY <1>5, Elements DEF Logged
<1>10. Len(lh') \in Nat /\ nlog \in Nat
    BY <1>5, SizeAssumption
<1> QED
    BY <1>2, <1>3, <1>5, <1>6, <1>8, <1>9, <1>10, Room

\* A call that begins has no reservation yet.
LEMMA CallKeeps ==
    ASSUME WellFormed, Fits, NEW w \in Caller, Call(w) PROVE WellFormed'
<1> USE DEF WellFormed, Call, Goto, disk
<1>1. TypeOK'
    BY SizeAssumption, ValueAssumption DEF TypeOK, Places, Stages
<1>2. Reserved'
    BY SameReservation DEF InOp
<1>3. Turns'
    BY NoBlockAssumption DEF TypeOK, Turns, Recovering, InOp, Stages
<1>4. Progress'
    BY SizeAssumption DEF TypeOK, Turns, Progress, Distinct
<1>5. Pinned'
    BY DEF TypeOK, Turns, Progress, Pinned, Logged, Recovering
<1>6. (Len(lh) < nlog - 1 /\ Len(head) < nlog - 1)'
    BY SizeAssumption
<1> QED
    BY <1>1, <1>2, <1>3, <1>4, <1>5, <1>6

\* begin_op() reserves only what still fits.
LEMMA BeginOpKeeps ==
    ASSUME WellFormed, Fits, NEW w \in Caller, BeginOp(w) PROVE WellFormed'
<1> USE DEF WellFormed, BeginOp, Goto, disk
<1>1. TypeOK'
    BY SizeAssumption, ValueAssumption DEF TypeOK, Places, Stages
<1>2. Reserved'
    <2>1. ActiveOps' = ActiveOps \cup {w} /\ w \notin ActiveOps
        BY DEF ActiveOps, InOp, TypeOK
    <2>2. wrote[w] = {}
        BY DEF Reserved, InOp
    <2>3. Written' = Written
        BY <2>1, <2>2 DEF Written
    <2>4. Older' = Older
        BY <2>3 DEF Older, Logged
    <2>5. outstanding' = Cardinality(ActiveOps')
        BY <2>1, Finite, FS_AddElement
    <2>6. Cardinality(Older) + outstanding' * MAXOPBLOCKS <= LOGSIZE
        <3>1. PICK m \in Int : m = (outstanding + 1) * MAXOPBLOCKS
            BY SizeAssumption DEF TypeOK
        <3>2. Len(lh) + m <= LOGSIZE
            BY <3>1, SizeAssumption DEF MightExhaust, TypeOK
        <3> QED
            BY <3>1, <3>2, Finite, SizeAssumption DEF TypeOK
    <2>7. outstanding' = 1 => Older' = {}
        <3> SUFFICES ASSUME outstanding' = 1 PROVE Older = {}
            BY <2>4
        <3>1. outstanding = 0 /\ stage = "off"
            BY DEF TypeOK, Turns, Recovering, Stages
        <3>2. lh = <<>>
            BY <3>1 DEF Turns
        <3> QED
            BY <3>2 DEF Older, Logged
    <2>8. \A x \in Caller : ~InOp(x)' => wrote'[x] = {}
        BY DEF Reserved, InOp, TypeOK
    <2> QED
        BY <2>4, <2>5, <2>6, <2>7, <2>8 DEF Reserved
<1>3. Turns'
    BY NoBlockAssumption DEF TypeOK, Turns, Recovering, InOp, Stages
<1>4. Progress'
    BY SizeAssumption DEF TypeOK, Turns, Progress, Distinct
<1>5. Pinned'
    BY DEF TypeOK, Turns, Progress, Pinned, Logged, Recovering
<1>6. (Len(lh) < nlog - 1 /\ Len(head) < nlog - 1)'
    BY SizeAssumption
<1> QED
    BY <1>1, <1>2, <1>3, <1>4, <1>5, <1>6

\* A sleeper in begin_op() has no reservation.
LEMMA BeginSleepKeeps ==
    ASSUME WellFormed, Fits, NEW w \in Caller, BeginSleep(w) PROVE WellFormed'
<1> USE DEF WellFormed, BeginSleep, Goto, disk
<1>1. TypeOK'
    BY SizeAssumption, ValueAssumption DEF TypeOK, Places, Stages
<1>2. Reserved'
    BY SameReservation DEF InOp
<1>3. Turns'
    BY NoBlockAssumption DEF TypeOK, Turns, Recovering, InOp, Stages
<1>4. Progress'
    BY SizeAssumption DEF TypeOK, Turns, Progress, Distinct
<1>5. Pinned'
    BY DEF TypeOK, Turns, Progress, Pinned, Logged, Recovering
<1>6. (Len(lh) < nlog - 1 /\ Len(head) < nlog - 1)'
    BY SizeAssumption
<1> QED
    BY <1>1, <1>2, <1>3, <1>4, <1>5, <1>6

\* Nor has one that kill() wakes.
LEMMA KillWakesKeeps ==
    ASSUME WellFormed, Fits, NEW w \in Caller, KillWakes(w) PROVE WellFormed'
<1> USE DEF WellFormed, KillWakes, Goto, disk
<1>1. TypeOK'
    BY SizeAssumption, ValueAssumption DEF TypeOK, Places, Stages
<1>2. Reserved'
    BY SameReservation DEF InOp
<1>3. Turns'
    BY NoBlockAssumption DEF TypeOK, Turns, Recovering, InOp, Stages
<1>4. Progress'
    BY SizeAssumption DEF TypeOK, Turns, Progress, Distinct
<1>5. Pinned'
    BY DEF TypeOK, Turns, Progress, Pinned, Logged, Recovering
<1>6. (Len(lh) < nlog - 1 /\ Len(head) < nlog - 1)'
    BY SizeAssumption
<1> QED
    BY <1>1, <1>2, <1>3, <1>4, <1>5, <1>6

\* A modified buffer is held until log_write() pins it.
LEMMA ModifyKeeps ==
    ASSUME WellFormed, Fits, NEW w \in Caller, NEW b \in Block, NEW v \in Value,
           Modify(w, b, v)
    PROVE  WellFormed'
<1> USE DEF WellFormed, Modify, Goto, disk
<1>1. TypeOK'
    BY SizeAssumption, ValueAssumption DEF TypeOK, Places, Stages
<1>2. Reserved'
    <2>1. ActiveOps' = ActiveOps /\ w \in ActiveOps
        BY DEF ActiveOps, InOp, TypeOK
    <2>2. Written' = Written \cup {b}
        BY <2>1 DEF Written, ActiveOps, TypeOK
    <2>3. Older' \in SUBSET Older
        BY <2>2 DEF Older, Logged
    <2>4. /\ Cardinality(Older') <= Cardinality(Older)
          /\ Cardinality(Older') \in Nat /\ Cardinality(Older) \in Nat
        BY <2>3, Finite, FS_Subset, FS_CardinalityType
    <2>5. \A x \in Caller :
              /\ IsFiniteSet(wrote'[x]) /\ Cardinality(wrote'[x]) <= OpWrites
              /\ ~InOp(x)' => wrote'[x] = {}
        <3>1. IsFiniteSet(wrote[w] \cup {b})
            BY FS_AddElement DEF Reserved
        <3> QED
            BY <3>1 DEF Reserved, InOp, TypeOK
    <2>6. Older = {} => Older' = {}
        BY <2>3
    <2>7. outstanding' = outstanding /\ outstanding = Cardinality(ActiveOps')
        BY <2>1 DEF Reserved
    <2>8. Cardinality(Older') + outstanding * MAXOPBLOCKS <= LOGSIZE
        <3>1. PICK m \in Int : m = outstanding * MAXOPBLOCKS
            BY SizeAssumption DEF TypeOK
        <3>2. Cardinality(Older) + m <= LOGSIZE
            BY <3>1 DEF Reserved
        <3> QED
            BY <2>4, <3>1, <3>2, SizeAssumption
    <2>9. outstanding = 1 =>
              Older' = {} \/ Cardinality(Older') + 2 * MAXOPBLOCKS - OpWrites <= LOGSIZE
        BY <2>4, <2>6, SizeAssumption DEF Reserved
    <2> QED
        BY <2>5, <2>7, <2>8, <2>9 DEF Reserved
<1>3. Turns'
    BY NoBlockAssumption DEF TypeOK, Turns, Recovering, InOp, Stages
<1>4. Progress'
    <2>1. stage = "off"
        BY Active DEF InOp
    <2> QED
        BY <2>1 DEF Progress
<1>5. Pinned'
    <2>1. stage = "off"
        BY Active DEF InOp
    <2>2. \A x \in Block \ dirty : (\A y \in Caller : held'[y] # x) => cache'[x] = home[x]
        <3> SUFFICES ASSUME NEW x \in Block \ dirty, \A y \in Caller : held'[y] # x
                     PROVE  cache'[x] = home[x]
            OBVIOUS
        <3>1. x # b
            BY DEF TypeOK
        <3>2. held[w] = NoBlock
            BY DEF Turns
        <3>3. \A y \in Caller : held[y] # x
            BY <3>2, NoBlockAssumption DEF TypeOK
        <3> QED
            BY <3>1, <3>3 DEF Pinned, TypeOK
    <2> QED
        BY <2>1, <2>2 DEF Pinned, Logged, Recovering
<1>6. (Len(lh) < nlog - 1 /\ Len(head) < nlog - 1)'
    BY SizeAssumption
<1> QED
    BY <1>1, <1>2, <1>3, <1>4, <1>5, <1>6

\* log_write() logs a block its operation has written, and pins it.
LEMMA LogWriteKeeps ==
    ASSUME WellFormed, Fits, NEW w \in Caller, LogWrite(w) PROVE WellFormed'
<1> USE DEF WellFormed, LogWrite, Goto, Absorb, Pin, disk
<1>1. TypeOK'
    <2>1. lh' \in Seq(Block) /\ Len(lh') < nlog
        <3>1. lh' \in Seq(Block) /\ Len(lh') < nlog - 1
            BY LogWriteAppends
        <3> QED
            BY <3>1, SizeAssumption
    <2>2. held[w] \in Block
        BY LogWriteAppends
    <2> QED
        BY <2>1, <2>2 DEF TypeOK, Places
<1>2. Reserved'
    <2>1. ActiveOps' = ActiveOps /\ \A x \in Caller : InOp(x)' <=> InOp(x)
        BY DEF ActiveOps, InOp, TypeOK
    <2>2. Written' = Written
        BY <2>1 DEF Written
    <2>3. Older' = Older
        BY <2>2, LogWriteAppends DEF Older
    <2> QED
        BY <2>1, <2>3 DEF Reserved
<1>3. Turns'
    <2>1. stage = "off" /\ outstanding >= 1 /\ ~committing
        BY Active DEF InOp
    <2> QED
        BY <2>1, NoBlockAssumption DEF TypeOK, Turns, Recovering
<1>4. Progress'
    <2>1. stage = "off"
        BY Active DEF InOp
    <2> QED
        BY <2>1, LogWriteAppends DEF Progress
<1>5. Pinned'
    <2>1. stage = "off"
        BY Active DEF InOp
    <2>2. dirty' = Logged'
        BY <2>1, LogWriteAppends DEF Pinned
    <2>3. \A x \in Block \ dirty' : (\A y \in Caller : held'[y] # x) => cache[x] = home[x]
        BY DEF Pinned, TypeOK
    <2> QED
        BY <2>1, <2>2, <2>3 DEF Pinned, Recovering
<1>6. (Len(lh) < nlog - 1 /\ Len(head) < nlog - 1)'
    BY LogWriteAppends
<1> QED
    BY <1>1, <1>2, <1>3, <1>4, <1>5, <1>6

\* What an operation has not used of its reservation is free again.
LEMMA EndOpKeeps ==
    ASSUME WellFormed, Fits, NEW w \in Caller, EndOp(w) PROVE WellFormed'
<1> USE DEF WellFormed, EndOp, WakeAnd, disk
<1>1. TypeOK'
    BY SizeAssumption, ValueAssumption DEF TypeOK, Places, Stages
<1>2. Reserved'
    <2>1. ActiveOps' = ActiveOps \ {w} /\ w \in ActiveOps
        BY DEF ActiveOps, InOp, TypeOK
    <2>2. outstanding' = Cardinality(ActiveOps')
        BY <2>1, Finite, FS_RemoveElement
    <2>3. Older' \in SUBSET (Older \cup wrote[w])
        BY <2>1 DEF Older, Logged, Written, TypeOK
    <2>4. /\ Cardinality(Older') <= Cardinality(Older) + OpWrites
          /\ Cardinality(Older') \in Nat /\ Cardinality(Older) \in Nat
        <3>1. IsFiniteSet(wrote[w]) /\ Cardinality(wrote[w]) <= OpWrites
            BY DEF Reserved
        <3>2. IsFiniteSet(Older \cap wrote[w])
            BY <3>1, FS_Intersection
        <3>3. /\ IsFiniteSet(Older \cup wrote[w])
              /\ Cardinality(Older \cup wrote[w])
                    = Cardinality(Older) + Cardinality(wrote[w]) - Cardinality(Older \cap wrote[w])
            BY <3>1, Finite, FS_Union
        <3>4. IsFiniteSet(Older') /\ Cardinality(Older') <= Cardinality(Older \cup wrote[w])
            BY <2>3, <3>3, FS_Subset
        <3> QED
            BY <3>1, <3>2, <3>3, <3>4, Finite, FS_CardinalityType, SizeAssumption
    <2>5. \A x \in Caller :
              /\ IsFiniteSet(wrote'[x]) /\ Cardinality(wrote'[x]) <= OpWrites
              /\ ~InOp(x)' => wrote'[x] = {}
        BY FS_EmptySet, SizeAssumption DEF Reserved, InOp, TypeOK
    <2>6. /\ Cardinality(Older) + outstanding * MAXOPBLOCKS <= LOGSIZE
          /\ outstanding \in Nat /\ outstanding' = outstanding - 1 /\ outstanding > 1
        BY DEF Reserved, TypeOK
    <2>7. PICK m \in Int : m = outstanding * MAXOPBLOCKS
        BY <2>6, SizeAssumption
    <2>8. outstanding' * MAXOPBLOCKS = m - MAXOPBLOCKS
        BY <2>6, <2>7, SizeAssumption
    <2>9. Cardinality(Older') + outstanding' * MAXOPBLOCKS <= LOGSIZE
        BY <2>4, <2>6, <2>7, <2>8, SizeAssumption
    <2>10. outstanding' = 1 => Cardinality(Older') + 2 * MAXOPBLOCKS - OpWrites <= LOGSIZE
        <3> SUFFICES ASSUME outstanding' = 1
                     PROVE  Cardinality(Older') + 2 * MAXOPBLOCKS - OpWrites <= LOGSIZE
            OBVIOUS
        <3>1. outstanding = 2
            BY <2>6
        <3>2. Cardinality(Older) + 2 * MAXOPBLOCKS <= LOGSIZE
            BY <2>6, <3>1
        <3> QED
            BY <2>4, <3>2, SizeAssumption
    <2> QED
        BY <2>2, <2>5, <2>9, <2>10 DEF Reserved
<1>3. Turns'
    BY NoBlockAssumption DEF TypeOK, Turns, Recovering, InOp, Stages
<1>4. Progress'
    BY SizeAssumption DEF TypeOK, Turns, Progress, Distinct
<1>5. Pinned'
    BY DEF TypeOK, Turns, Progress, Pinned, Logged, Recovering
<1>6. (Len(lh) < nlog - 1 /\ Len(head) < nlog - 1)'
    BY SizeAssumption
<1> QED
    BY <1>1, <1>2, <1>3, <1>4, <1>5, <1>6

\* The last operation finds its writes logged, and commits.
LEMMA EndLastOpKeeps ==
    ASSUME WellFormed, Fits, NEW w \in Caller, EndLastOp(w) PROVE WellFormed'
<1> USE DEF WellFormed, EndLastOp, Goto, disk
<1>1. TypeOK'
    BY SizeAssumption, ValueAssumption DEF TypeOK, Places, Stages
<1>2. Reserved'
    <2>1. ActiveOps = {w}
        BY OnlyActive DEF InOp
    <2>2. \A x \in Caller : ~InOp(x)' /\ wrote'[x] = {}
        BY <2>1 DEF ActiveOps, InOp, Reserved, TypeOK
    <2> QED
        BY <2>2, NothingReserved DEF TypeOK
<1>3. Turns'
    BY NoBlockAssumption DEF TypeOK, Turns, Recovering, InOp, Stages
<1>4. Progress'
    <2>1. stage = "off"
        BY Active DEF InOp
    <2>2. lh # <<>> => 1 <= Len(lh)
        BY DEF TypeOK
    <2> QED
        BY <2>1, <2>2 DEF Progress, Distinct
<1>5. Pinned'
    BY DEF TypeOK, Turns, Progress, Pinned, Logged, Recovering
<1>6. (Len(lh) < nlog - 1 /\ Len(head) < nlog - 1)'
    BY SizeAssumption
<1> QED
    BY <1>1, <1>2, <1>3, <1>4, <1>5, <1>6

\* end_op() leaves an empty log.
LEMMA FinishKeeps ==
    ASSUME WellFormed, Fits, NEW w \in Caller, Finish(w) PROVE WellFormed'
<1> USE DEF WellFormed, Finish, WakeAnd, disk
<1>1. TypeOK'
    BY SizeAssumption, ValueAssumption DEF TypeOK, Places, Stages
<1>2. Reserved'
    BY SameReservation DEF InOp
<1>3. Turns'
    <2>1. outstanding = 0 /\ lh = <<>>
        BY DEF Turns, Progress
    <2> QED
        BY <2>1 DEF TypeOK, Turns, Recovering
<1>4. Progress'
    BY SizeAssumption DEF TypeOK, Turns, Progress, Distinct
<1>5. Pinned'
    BY DEF TypeOK, Turns, Progress, Pinned, Logged, Recovering
<1>6. (Len(lh) < nlog - 1 /\ Len(head) < nlog - 1)'
    BY SizeAssumption
<1> QED
    BY <1>1, <1>2, <1>3, <1>4, <1>5, <1>6

\* A buffer that is recycled is on the disk.
LEMMA EvictKeeps ==
    ASSUME WellFormed, Fits, NEW b \in Block, Evict(b) PROVE WellFormed'
<1> USE DEF WellFormed, Evict, disk
<1>1. TypeOK'
    BY SizeAssumption, ValueAssumption DEF TypeOK, Places, Stages
<1>2. Reserved'
    BY SameReservation DEF InOp
<1>3. Turns'
    BY NoBlockAssumption DEF TypeOK, Turns, Recovering, InOp, Stages
<1>4. Progress'
    <2>1. b \notin dirty /\ cache[b] = home[b]
        BY DEF Pinned
    <2>2. cache' = cache
        BY <2>1 DEF TypeOK
    <2> QED
        BY <2>2 DEF Progress
<1>5. Pinned'
    BY DEF TypeOK, Turns, Progress, Pinned, Logged, Recovering
<1>6. (Len(lh) < nlog - 1 /\ Len(head) < nlog - 1)'
    BY SizeAssumption
<1> QED
    BY <1>1, <1>2, <1>3, <1>4, <1>5, <1>6

\* write_log() copies the cache block by block.
LEMMA WriteLogKeeps ==
    ASSUME WellFormed, Fits, WriteLog PROVE WellFormed'
<1> USE DEF WellFormed, WriteLog, disk
<1>1. TypeOK'
    <2>1. tail \in 1..Len(lh) /\ Len(lh) \in Nat /\ nlog \in Nat
        BY SizeAssumption DEF TypeOK, Progress
    <2>2. tail \in 1..(nlog - 1) /\ lh[tail] \in Block
        BY <2>1 DEF TypeOK
    <2>3. logdata' \in [1..(nlog - 1) -> Value]
        BY <2>2 DEF TypeOK
    <2>4. tail' \in 1..nlog /\ stage' \in Stages
        BY <2>1, <2>2, SizeAssumption DEF TypeOK, Stages
    <2> QED
        BY <2>3, <2>4 DEF TypeOK
<1>2. Reserved'
    BY SameReservation DEF InOp
<1>3. Turns'
    BY NoBlockAssumption DEF TypeOK, Turns, Recovering, InOp, Stages
<1>4. Progress'
    BY SizeAssumption DEF TypeOK, Turns, Progress, Distinct
<1>5. Pinned'
    BY DEF TypeOK, Turns, Progress, Pinned, Logged, Recovering
<1>6. (Len(lh) < nlog - 1 /\ Len(head) < nlog - 1)'
    BY SizeAssumption
<1> QED
    BY <1>1, <1>2, <1>3, <1>4, <1>5, <1>6

\* write_head() commits what write_log() has copied.
LEMMA WriteHeadKeeps ==
    ASSUME WellFormed, Fits, WriteHead PROVE WellFormed'
<1> USE DEF WellFormed, WriteHead, disk
<1>1. TypeOK'
    BY SizeAssumption, ValueAssumption DEF TypeOK, Places, Stages
<1>2. Reserved'
    BY SameReservation DEF InOp
<1>3. Turns'
    BY NoBlockAssumption DEF TypeOK, Turns, Recovering, InOp, Stages
<1>4. Progress'
    BY SizeAssumption DEF TypeOK, Turns, Progress, Distinct
<1>5. Pinned'
    BY DEF TypeOK, Turns, Progress, Pinned, Logged, Recovering
<1>6. (Len(lh) < nlog - 1 /\ Len(head) < nlog - 1)'
    BY SizeAssumption
<1> QED
    BY <1>1, <1>2, <1>3, <1>4, <1>5, <1>6

\* install_trans() copies the log to its home blocks.
LEMMA InstallKeeps ==
    ASSUME WellFormed, Fits, Install PROVE WellFormed'
<1> USE DEF WellFormed, Install, InstallBlock, disk
<1>1. TypeOK'
    <2>1. CASE tail <= Len(lh)
        <3>1. tail \in 1..Len(lh) /\ Len(lh) \in Nat /\ nlog \in Nat
            BY <2>1, SizeAssumption DEF TypeOK
        <3>2. tail \in 1..(nlog - 1) /\ lh[tail] \in Block
            BY <3>1 DEF TypeOK
        <3>3. logdata[tail] \in Value /\ tail' \in 1..nlog
            <4>1. logdata[tail] \in Value
                BY <3>2 DEF TypeOK
            <4>2. tail' = tail + 1
                BY <2>1
            <4> QED
                BY <3>1, <3>2, <4>1, <4>2
        <3> QED
            BY <2>1, <3>2, <3>3 DEF TypeOK
    <2>2. CASE ~(tail <= Len(lh))
        BY <2>2 DEF TypeOK, Stages
    <2> QED
        BY <2>1, <2>2
<1>2. Reserved'
    BY SameReservation DEF InOp
<1>3. Turns'
    BY NoBlockAssumption DEF TypeOK, Turns, Recovering, InOp, Stages
<1>4. Progress'
    BY SizeAssumption DEF TypeOK, Turns, Progress, Distinct
<1>5. Pinned'
    <2>1. CASE tail <= Len(lh)
        <3> DEFINE x == lh[tail]
        <3>1. tail \in 1..Len(lh) /\ x \in Block /\ stage' = "install" /\ tail' = tail + 1
            BY <2>1 DEF TypeOK
        <3>2. \A i \in 1..Len(lh) : lh[i] = x <=> i = tail
            BY <3>1 DEF Progress, Distinct
        <3>3. dirty' = {lh[i] : i \in (tail + 1)..Len(lh)}
            <4>1. dirty = {lh[i] : i \in tail..Len(lh)} /\ dirty' = dirty \ {x}
                BY <2>1 DEF Pinned
            <4>2. tail..Len(lh) = {tail} \cup ((tail + 1)..Len(lh))
                BY <3>1
            <4>3. \A i \in (tail + 1)..Len(lh) : i \in 1..Len(lh) /\ i # tail
                BY <3>1
            <4> HIDE DEF x
            <4> QED
                BY <3>2, <4>1, <4>2, <4>3 DEF x
        <3>4. \A b \in Block \ dirty' : (\A w \in Caller : held'[w] # b) => cache'[b] = home'[b]
            BY <2>1 DEF Pinned, TypeOK
        <3> QED
            BY <2>1, <3>1, <3>3, <3>4 DEF Pinned, Recovering
    <2>2. CASE ~(tail <= Len(lh))
        <3>1. tail..Len(lh) = {}
            BY <2>2 DEF TypeOK
        <3>2. dirty' = {} /\ UNCHANGED <<cache, home, held>>
            BY <2>2, <3>1 DEF Pinned
        <3> QED
            BY <2>2, <3>2 DEF Pinned, Recovering
    <2> QED
        BY <2>1, <2>2
<1>6. (Len(lh) < nlog - 1 /\ Len(head) < nlog - 1)'
    BY SizeAssumption
<1> QED
    BY <1>1, <1>2, <1>3, <1>4, <1>5, <1>6

\* The log is erased when its blocks are home.
LEMMA ClearKeeps ==
    ASSUME WellFormed, Fits, Clear PROVE WellFormed'
<1> USE DEF WellFormed, Clear, ClearHead, disk
<1>1. TypeOK'
    BY SizeAssumption, ValueAssumption DEF TypeOK, Places, Stages
<1>2. Reserved'
    <2>1. outstanding = 0
        BY DEF Turns, TypeOK, Stages, Recovering
    <2>2. \A x \in Caller : ~InOp(x)' /\ wrote'[x] = {}
        BY <2>1, NobodyActive DEF InOp
    <2> QED
        BY <2>1, <2>2, NothingReserved, SizeAssumption DEF TypeOK
<1>3. Turns'
    BY NoBlockAssumption DEF TypeOK, Turns, Recovering, InOp, Stages
<1>4. Progress'
    BY SizeAssumption DEF TypeOK, Turns, Progress, Distinct
<1>5. Pinned'
    BY DEF TypeOK, Turns, Progress, Pinned, Logged, Recovering
<1>6. (Len(lh) < nlog - 1 /\ Len(head) < nlog - 1)'
    BY SizeAssumption
<1> QED
    BY <1>1, <1>2, <1>3, <1>4, <1>5, <1>6

\* A crash leaves a header, or none, whose blocks are in the log.
LEMMA CrashKeeps ==
    ASSUME WellFormed, Fits, Crash PROVE WellFormed'
<1> USE DEF WellFormed, Crash, disk
<1>1. TypeOK'
    <2>1. lh' \in Seq(Block) /\ Len(lh') < nlog
        BY SizeAssumption
    <2>2. tail' \in 1..nlog
        BY SizeAssumption
    <2>3. stage' \in Stages
        BY DEF Stages
    <2> QED
        BY <2>1, <2>2, <2>3 DEF TypeOK, Places
<1>2. Reserved'
    <2>1. \A x \in Caller : ~InOp(x)' /\ wrote'[x] = {}
        BY DEF InOp
    <2> QED
        BY <2>1, NothingReserved, SizeAssumption
<1>3. Turns'
    BY NoBlockAssumption DEF TypeOK, Turns, Recovering, InOp, Stages
<1>4. Progress'
    BY SizeAssumption DEF TypeOK, Turns, Progress, Distinct
<1>5. Pinned'
    BY DEF TypeOK, Turns, Progress, Pinned, Logged, Recovering
<1>6. (Len(lh) < nlog - 1 /\ Len(head) < nlog - 1)'
    BY SizeAssumption
<1> QED
    BY <1>1, <1>2, <1>3, <1>4, <1>5, <1>6

\* recover_from_log() reads the header.
LEMMA ReadHeadKeeps ==
    ASSUME WellFormed, Fits, ReadHead PROVE WellFormed'
<1> USE DEF WellFormed, ReadHead, disk
<1>1. TypeOK'
    BY SizeAssumption, ValueAssumption DEF TypeOK, Places, Stages
<1>2. Reserved'
    <2>1. outstanding = 0
        BY DEF Turns, TypeOK, Stages, Recovering
    <2>2. \A x \in Caller : ~InOp(x)' /\ wrote'[x] = {}
        BY <2>1, NobodyActive DEF InOp
    <2> QED
        BY <2>1, <2>2, NothingReserved, SizeAssumption DEF TypeOK
<1>3. Turns'
    BY NoBlockAssumption DEF TypeOK, Turns, Recovering, InOp, Stages
<1>4. Progress'
    BY SizeAssumption DEF TypeOK, Turns, Progress, Distinct
<1>5. Pinned'
    BY DEF TypeOK, Turns, Progress, Pinned, Logged, Recovering
<1>6. (Len(lh) < nlog - 1 /\ Len(head) < nlog - 1)'
    BY SizeAssumption
<1> QED
    BY <1>1, <1>2, <1>3, <1>4, <1>5, <1>6

\* install_trans(), in a recovery.
LEMMA ReinstallKeeps ==
    ASSUME WellFormed, Fits, Reinstall PROVE WellFormed'
<1> USE DEF WellFormed, Reinstall, InstallBlock, disk
<1>1. TypeOK'
    <2>1. CASE tail <= Len(lh)
        <3>1. tail \in 1..Len(lh) /\ Len(lh) \in Nat /\ nlog \in Nat
            BY <2>1, SizeAssumption DEF TypeOK
        <3>2. tail \in 1..(nlog - 1) /\ lh[tail] \in Block
            BY <3>1 DEF TypeOK
        <3>3. logdata[tail] \in Value /\ tail' \in 1..nlog
            <4>1. logdata[tail] \in Value
                BY <3>2 DEF TypeOK
            <4>2. tail' = tail + 1
                BY <2>1
            <4> QED
                BY <3>1, <3>2, <4>1, <4>2
        <3> QED
            BY <2>1, <3>2, <3>3 DEF TypeOK
    <2>2. CASE ~(tail <= Len(lh))
        BY <2>2 DEF TypeOK, Stages
    <2> QED
        BY <2>1, <2>2
<1>2. Reserved'
    BY SameReservation DEF InOp
<1>3. Turns'
    BY NoBlockAssumption DEF TypeOK, Turns, Recovering, InOp, Stages
<1>4. Progress'
    BY SizeAssumption DEF TypeOK, Turns, Progress, Distinct
<1>5. Pinned'
    BY DEF TypeOK, Turns, Progress, Pinned, Logged, Recovering
<1>6. (Len(lh) < nlog - 1 /\ Len(head) < nlog - 1)'
    BY SizeAssumption
<1> QED
    BY <1>1, <1>2, <1>3, <1>4, <1>5, <1>6

\* The log is erased, in a recovery.
LEMMA ReclearKeeps ==
    ASSUME WellFormed, Fits, Reclear PROVE WellFormed'
<1> USE DEF WellFormed, Reclear, ClearHead, disk
<1>1. TypeOK'
    BY SizeAssumption, ValueAssumption DEF TypeOK, Places, Stages
<1>2. Reserved'
    <2>1. outstanding = 0
        BY DEF Turns, TypeOK, Stages, Recovering
    <2>2. \A x \in Caller : ~InOp(x)' /\ wrote'[x] = {}
        BY <2>1, NobodyActive DEF InOp
    <2> QED
        BY <2>1, <2>2, NothingReserved, SizeAssumption DEF TypeOK
<1>3. Turns'
    BY NoBlockAssumption DEF TypeOK, Turns, Recovering, InOp, Stages
<1>4. Progress'
    BY SizeAssumption DEF TypeOK, Turns, Progress, Distinct
<1>5. Pinned'
    BY DEF TypeOK, Turns, Progress, Pinned, Logged, Recovering
<1>6. (Len(lh) < nlog - 1 /\ Len(head) < nlog - 1)'
    BY SizeAssumption
<1> QED
    BY <1>1, <1>2, <1>3, <1>4, <1>5, <1>6

-----------------------------------------------------------------------------
(* The invariant *)

\* A disk made by mkfs, and no calls yet.
LEMMA InitWellFormed == Fits /\ Init => WellFormed
<1> SUFFICES ASSUME Fits, Init PROVE WellFormed
    OBVIOUS
<1> USE DEF Init
<1>1. ActiveOps = {} /\ Logged = {} /\ Older = {}
    BY DEF ActiveOps, InOp, Logged, Older
<1>2. nlog \in Nat /\ nlog >= 2 /\ Len(lh) = 0 /\ Len(head) = 0 /\ lh \in Seq(Block)
    BY SizeAssumption
<1>3. Len(lh) < nlog - 1 /\ Len(head) < nlog - 1
    BY <1>2
<1>4. TypeOK
    <2>1. tail \in 1..nlog /\ logdata \in [1..(nlog - 1) -> Value]
        BY <1>2, ValueAssumption
    <2>2. home \in [Block -> Value] /\ cache \in [Block -> Value]
        BY ValueAssumption
    <2>3. /\ pc \in [Caller -> Places] /\ wrote \in [Caller -> SUBSET Block]
          /\ held \in [Caller -> Block \cup {NoBlock}] /\ stage \in Stages
        BY DEF Places, Stages
    <2>4. Len(lh) < nlog /\ Len(head) < nlog /\ head \in Seq(Block)
        BY <1>2
    <2> QED
        BY <1>2, <2>1, <2>2, <2>3, <2>4 DEF TypeOK
<1>5. Reserved
    <2>1. Cardinality({}) = 0 /\ IsFiniteSet({})
        BY FS_EmptySet
    <2>2. 0 <= OpWrites /\ 0 + 0 * MAXOPBLOCKS <= LOGSIZE
        BY SizeAssumption
    <2> QED
        BY <1>1, <2>1, <2>2 DEF Reserved
<1>6. Turns
    BY NoBlockAssumption DEF Turns, Recovering
<1>7. Progress
    BY <1>2 DEF Progress, Distinct
<1>8. Pinned
    BY <1>1 DEF Pinned, Recovering
<1> QED
    BY <1>3, <1>4, <1>5, <1>6, <1>7, <1>8 DEF WellFormed

\* No step breaks it.
LEMMA NextWellFormed == Fits /\ WellFormed /\ [Next]_vars => WellFormed'
<1> SUFFICES ASSUME Fits, WellFormed, [Next]_vars PROVE WellFormed'
    OBVIOUS
<1>1. CASE UNCHANGED vars
    <2> USE <1>1 DEF vars, memory, disk, WellFormed
    <2>1. TypeOK'
        BY DEF TypeOK
    <2>2. Reserved'
        BY SameReservation DEF InOp
    <2>3. Turns'
        BY DEF Turns, Recovering
    <2>4. Progress'
        BY DEF Progress, Distinct
    <2>5. Pinned'
        BY DEF Pinned, Logged, Recovering
    <2> QED
        BY <2>1, <2>2, <2>3, <2>4, <2>5
<1>2. ASSUME NEW w \in Caller,
             \/ Call(w) \/ BeginOp(w) \/ BeginSleep(w) \/ KillWakes(w)
             \/ \E b \in Block, v \in Value : Modify(w, b, v)
             \/ LogWrite(w)
             \/ EndOp(w) \/ EndLastOp(w) \/ Finish(w)
      PROVE  WellFormed'
    BY <1>2, CallKeeps, BeginOpKeeps, BeginSleepKeeps, KillWakesKeeps, ModifyKeeps,
       LogWriteKeeps, EndOpKeeps, EndLastOpKeeps, FinishKeeps
<1>3. CASE \E b \in Block : Evict(b)
    BY <1>3, EvictKeeps
<1>4. CASE WriteLog \/ WriteHead \/ Install \/ Clear
    BY <1>4, WriteLogKeeps, WriteHeadKeeps, InstallKeeps, ClearKeeps
<1>5. CASE Crash \/ ReadHead \/ Reinstall \/ Reclear
    BY <1>5, CrashKeeps, ReadHeadKeeps, ReinstallKeeps, ReclearKeeps
<1> QED
    BY <1>1, <1>2, <1>3, <1>4, <1>5 DEF Next

\* With nothing under way and an empty log the cache is what is on the disk.
LEMMA Quiet == WellFormed => QuiescentIsDurable
<1> SUFFICES ASSUME WellFormed, stage = "off", outstanding = 0 PROVE Survives = cache
    BY DEF QuiescentIsDurable
<1>1. lh = <<>> /\ head = <<>> /\ \A w \in Caller : held[w] = NoBlock
    BY NobodyActive DEF WellFormed, Turns, Progress
<1>2. dirty = {}
    BY <1>1 DEF WellFormed, Pinned, Logged
<1>3. \A b \in Block : cache[b] = home[b]
    BY <1>1, <1>2, NoBlockAssumption DEF WellFormed, Pinned
<1>4. cache \in [Block -> Value]
    BY DEF WellFormed, TypeOK
<1> QED
    BY <1>1, <1>3, <1>4 DEF Survives

\* The log stays well formed through every interleaving of operations, commits,
\* crashes and recoveries, and whatever has been written is on the disk when
\* nothing is under way.
THEOREM LogInvariant == ASSUME Fits PROVE Spec => []LogInv
<1>1. Init => WellFormed
    BY InitWellFormed
<1>2. WellFormed /\ [Next]_vars => WellFormed'
    BY NextWellFormed
<1>3. WellFormed => LogInv
    BY Quiet DEF LogInv
<1> QED
    BY <1>1, <1>2, <1>3, PTL DEF Spec

\* log_write() never panics with "too big a transaction": the reservations of
\* begin_op() keep the log short of its end.
THEOREM ReservationSuffices == ASSUME Fits PROVE Spec => []LogNeverFull
<1>1. LogInv => LogNeverFull
    <2> SUFFICES ASSUME WellFormed PROVE ~TooBig
        BY DEF LogInv, LogNeverFull
    <2>1. Len(lh) \in Nat /\ Len(lh) < nlog - 1
        BY DEF WellFormed, TypeOK
    <2> QED
        BY <2>1, SizeAssumption DEF TooBig
<1> QED
    BY <1>1, LogInvariant, PTL

-----------------------------------------------------------------------------
(* The sleepers in begin_op() *)

Sleepers == {w \in Caller : pc[w] = "asleep"}

\* What a step may add to the log and to the reservations.
MayGrow ==
    /\ Len(lh') = Len(lh) \/ Len(lh') = Len(lh) + 1
    /\ outstanding' = outstanding \/ outstanding' = outstanding + 1

\* A log that might have been exhausted still might when no block and no
\* reservation is given back.
LEMMA StillExhausted ==
    ASSUME WellFormed, MayGrow, MightExhaust
    PROVE  MightExhaust'
<1>1. outstanding \in Nat /\ outstanding + 1 \in Nat /\ outstanding + 2 \in Nat
    BY DEF WellFormed, TypeOK
<1>2. PICK m \in Int, k \in Int :
          m = (outstanding + 1) * MAXOPBLOCKS /\ k = (outstanding + 2) * MAXOPBLOCKS
    BY <1>1, SizeAssumption
<1>3. m <= k
    BY <1>1, <1>2, SizeAssumption
<1>4. Len(lh) \in Nat /\ LOGSIZE \in Nat
    BY SizeAssumption DEF WellFormed, TypeOK
<1>5. Len(lh) + m > LOGSIZE
    BY <1>2 DEF MightExhaust
<1>6. (outstanding' + 1) * MAXOPBLOCKS = m \/ (outstanding' + 1) * MAXOPBLOCKS = k
    <2>1. CASE outstanding' = outstanding
        BY <1>2, <2>1
    <2>2. CASE outstanding' = outstanding + 1
        <3>1. outstanding' + 1 = outstanding + 2
            BY <1>1, <2>2
        <3> QED
            BY <1>2, <3>1
    <2> QED
        BY <2>1, <2>2 DEF MayGrow
<1>7. Len(lh') + m > LOGSIZE /\ Len(lh') + k > LOGSIZE
    BY <1>3, <1>4, <1>5 DEF MayGrow
<1> QED
    BY <1>6, <1>7 DEF MightExhaust

\* As long as somebody sleeps, a commit runs or the log is still reserved.
LEMMA SleepersStay ==
    ASSUME WellFormed, WellFormed', SleepersWillRun, [Next]_vars PROVE SleepersWillRun'
<1>1. CASE Sleepers' = {}
    BY <1>1 DEF Sleepers, SleepersWillRun, SomeoneWakes, SleepIsJustified
<1>2. CASE committing'
    BY <1>2 DEF SleepersWillRun, SomeoneWakes, SleepIsJustified
<1>3. ASSUME Sleepers' \subseteq Sleepers, committing' = committing, MayGrow
      PROVE  SleepersWillRun'
    <2>1. CASE Sleepers = {}
        BY <1>1, <1>3, <2>1
    <2>2. CASE Sleepers # {} /\ ~committing
        <3>1. outstanding > 0 /\ MightExhaust
            BY <2>2 DEF Sleepers, SleepersWillRun, SomeoneWakes, SleepIsJustified
        <3>2. MightExhaust'
            BY <1>3, <3>1, StillExhausted
        <3>3. outstanding' > 0
            BY <1>3, <3>1 DEF MayGrow, WellFormed, TypeOK
        <3> QED
            BY <3>2, <3>3 DEF SleepersWillRun, SomeoneWakes, SleepIsJustified
    <2> QED
        BY <1>2, <1>3, <2>1, <2>2
<1>4. CASE UNCHANGED vars
    BY <1>3, <1>4 DEF vars, memory, disk, Sleepers, MayGrow
<1>5. ASSUME NEW w \in Caller, BeginSleep(w) PROVE SleepersWillRun'
    <2>1. CASE committing
        BY <1>2, <1>5, <2>1 DEF BeginSleep
    <2>2. CASE ~committing
        <3>1. stage = "off"
            BY <1>5, <2>2 DEF BeginSleep, WellFormed, TypeOK, Stages, Turns, Recovering
        <3>2. MightExhaust /\ MightExhaust'
            BY <1>5, <2>2 DEF BeginSleep, MightExhaust
        <3>3. outstanding # 0
            <4> SUFFICES ASSUME outstanding = 0 PROVE FALSE
                OBVIOUS
            <4>1. lh = <<>>
                BY <3>1 DEF WellFormed, Turns
            <4>2. Len(lh) = 0 /\ (outstanding + 1) * MAXOPBLOCKS = MAXOPBLOCKS
                BY <4>1, SizeAssumption
            <4> QED
                BY <3>2, <4>2, SizeAssumption DEF MightExhaust
        <3>4. outstanding' > 0
            BY <1>5, <3>3 DEF BeginSleep, WellFormed, TypeOK
        <3> QED
            BY <3>2, <3>4 DEF SleepersWillRun, SomeoneWakes, SleepIsJustified
    <2> QED
        BY <2>1, <2>2
<1>6. ASSUME NEW w \in Caller,
             \/ Call(w) \/ KillWakes(w) \/ \E b \in Block, v \in Value : Modify(w, b, v)
             \/ \E b \in Block : Evict(b)
             \/ BeginOp(w) \/ LogWrite(w)
      PROVE  SleepersWillRun'
    <2>1. Sleepers' \subseteq Sleepers /\ committing' = committing
        BY <1>6 DEF Sleepers, WellFormed, TypeOK, Call, KillWakes, Modify, Evict, BeginOp,
           LogWrite, Goto
    <2>2. outstanding' = outstanding \/ outstanding' = outstanding + 1
        BY <1>6 DEF Call, KillWakes, Modify, Evict, BeginOp, LogWrite
    <2>3. Len(lh') = Len(lh) \/ Len(lh') = Len(lh) + 1
        <3>1. lh' = lh \/ (LogWrite(w) /\ lh' = Append(lh, held[w]))
            BY <1>6 DEF Call, KillWakes, Modify, Evict, BeginOp, LogWrite, Absorb
        <3>2. LogWrite(w) => lh \in Seq(Block) /\ held[w] \in Block
            BY DEF LogWrite, WellFormed, Turns, TypeOK
        <3> QED
            BY <3>1, <3>2
    <2> QED
        BY <1>3, <2>1, <2>2, <2>3 DEF MayGrow
<1>7. ASSUME NEW w \in Caller, EndLastOp(w) PROVE SleepersWillRun'
    BY <1>2, <1>7 DEF EndLastOp
<1>8. ASSUME NEW w \in Caller, EndOp(w) \/ Finish(w) PROVE SleepersWillRun'
    BY <1>1, <1>8 DEF EndOp, Finish, WakeAnd, Sleepers
<1>9. ASSUME WriteLog \/ WriteHead \/ Install \/ Clear PROVE SleepersWillRun'
    BY <1>2, <1>9 DEF WriteLog, WriteHead, Install, InstallBlock, Clear, ClearHead,
       WellFormed, Turns
<1>10. ASSUME Crash PROVE SleepersWillRun'
    BY <1>1, <1>10 DEF Crash, Sleepers
<1>11. ASSUME ReadHead \/ Reinstall \/ Reclear PROVE SleepersWillRun'
    <2>1. \A w \in Caller : pc[w] = "idle"
        BY <1>11 DEF ReadHead, Reinstall, InstallBlock, Reclear, ClearHead, WellFormed, Turns,
           Recovering
    <2>2. pc' = pc
        BY <1>11 DEF ReadHead, Reinstall, InstallBlock, Reclear, ClearHead
    <2> QED
        BY <1>1, <2>1, <2>2 DEF Sleepers
<1>12. CASE \E b \in Block : Evict(b)
    BY <1>3, <1>12 DEF Evict, Sleepers, MayGrow
<1> QED
    BY <1>4, <1>5, <1>6, <1>7, <1>8, <1>9, <1>10, <1>11, <1>12 DEF Next

\* Whoever sleeps in begin_op() sleeps for a reason, and an end_op() is still to
\* come that will wake it.
THEOREM BeginOpWakes == ASSUME Fits PROVE Spec => []SleepersWillRun
<1>1. Init => SleepersWillRun
    BY DEF Init, SleepersWillRun, SomeoneWakes, SleepIsJustified
<1>2. LogInv /\ LogInv' /\ SleepersWillRun /\ [Next]_vars => SleepersWillRun'
    BY SleepersStay DEF LogInv
<1> QED
    BY <1>1, <1>2, LogInvariant, PTL DEF Spec

-----------------------------------------------------------------------------
(* What survives a crash *)

\* The home blocks hm under a header hd and its log blocks ld.
Overlay(hd, ld, hm) ==
    [b \in Block |->
        IF \E i \in 1..Len(hd) : hd[i] = b
          THEN ld[CHOOSE i \in 1..Len(hd) : hd[i] = b]
          ELSE hm[b]]

\* The header names each block once, so that one log block belongs to it.
LEMMA OverlayIs ==
    ASSUME NEW hd, Distinct(hd), NEW ld, NEW hm
    PROVE  \A b \in Block :
              /\ \A i \in 1..Len(hd) : hd[i] = b => Overlay(hd, ld, hm)[b] = ld[i]
              /\ (\A i \in 1..Len(hd) : hd[i] # b) => Overlay(hd, ld, hm)[b] = hm[b]
<1> SUFFICES ASSUME NEW b \in Block
             PROVE  /\ \A i \in 1..Len(hd) : hd[i] = b => Overlay(hd, ld, hm)[b] = ld[i]
                    /\ (\A i \in 1..Len(hd) : hd[i] # b) => Overlay(hd, ld, hm)[b] = hm[b]
    OBVIOUS
<1>1. ASSUME NEW i \in 1..Len(hd), hd[i] = b PROVE Overlay(hd, ld, hm)[b] = ld[i]
    <2>1. i = CHOOSE j \in 1..Len(hd) : hd[j] = b
        BY <1>1 DEF Distinct
    <2>2. Overlay(hd, ld, hm)[b] = ld[CHOOSE j \in 1..Len(hd) : hd[j] = b]
        BY <1>1 DEF Overlay
    <2> QED
        BY <2>1, <2>2
<1>2. (\A i \in 1..Len(hd) : hd[i] # b) => Overlay(hd, ld, hm)[b] = hm[b]
    BY DEF Overlay
<1> QED
    BY <1>1, <1>2

\* Two disks from which the same survives.
LEMMA SameOverlay ==
    ASSUME NEW hd, NEW ld, NEW hm, NEW hd2, NEW ld2, NEW hm2,
           \A b \in Block : Overlay(hd, ld, hm)[b] = Overlay(hd2, ld2, hm2)[b]
    PROVE  Overlay(hd, ld, hm) = Overlay(hd2, ld2, hm2)
BY DEF Overlay

\* Without a header the home blocks survive.
LEMMA NoHeader ==
    ASSUME NEW ld, NEW hm PROVE \A b \in Block : Overlay(<<>>, ld, hm)[b] = hm[b]
BY DEF Overlay

Working == IF Recovering THEN Survives ELSE cache

\* Nothing of this can be seen from above.
Hidden == UNCHANGED <<Survives, Working, ActiveOps>>

\* What the mapping gives AtomicDisk.
LEMMA HiddenStutters == Hidden => UNCHANGED Abstract!vars
BY DEF Hidden, Abstract!vars, Working

\* When no block of the disk is written, the same survives.
LEMMA SameDisk == UNCHANGED disk => Survives' = Survives
BY DEF disk, Survives

-----------------------------------------------------------------------------
(* One lemma per kind of step *)

\* Entering and waiting in begin_op(), and what log_write() does to the header in
\* memory, change neither the contents nor who is in an operation.
LEMMA QuietSteps ==
    ASSUME WellFormed, NEW w \in Caller,
           Call(w) \/ BeginSleep(w) \/ KillWakes(w) \/ LogWrite(w)
    PROVE  Hidden
<1>1. UNCHANGED disk /\ UNCHANGED <<stage, cache>>
    BY DEF Call, BeginSleep, KillWakes, LogWrite, disk
<1>2. ActiveOps' = ActiveOps
    BY DEF Call, BeginSleep, KillWakes, LogWrite, Goto, ActiveOps, InOp, WellFormed, TypeOK
<1> QED
    BY <1>1, <1>2, SameDisk DEF Hidden, Working, Recovering

\* A block that is read again is as it was in the cache.
LEMMA EvictHides == ASSUME WellFormed, NEW b \in Block, Evict(b) PROVE Hidden
<1>1. cache' = cache
    BY DEF Evict, WellFormed, Pinned, TypeOK
<1>2. UNCHANGED disk /\ UNCHANGED <<stage, pc>>
    BY DEF Evict, disk
<1> QED
    BY <1>1, <1>2, SameDisk DEF Hidden, Working, Recovering, ActiveOps, InOp

\* A reservation starts an operation.
LEMMA BeginIsBegin ==
    ASSUME WellFormed, NEW w \in Caller, BeginOp(w) PROVE Abstract!Begin(w)
<1>1. UNCHANGED disk /\ UNCHANGED <<stage, cache>>
    BY DEF BeginOp, disk
<1>2. w \notin ActiveOps /\ ActiveOps' = ActiveOps \cup {w}
    BY DEF BeginOp, Goto, ActiveOps, InOp, WellFormed, TypeOK
<1> QED
    BY <1>1, <1>2, SameDisk DEF Abstract!Begin, Recovering

\* A change of a buffer is a write that a crash would lose.
LEMMA ModifyIsWrite ==
    ASSUME WellFormed, NEW w \in Caller, NEW b \in Block, NEW v \in Value, Modify(w, b, v)
    PROVE  Abstract!Write(w, b, v)
<1>1. UNCHANGED disk /\ stage' = stage /\ cache' = [cache EXCEPT ![b] = v]
    BY DEF Modify, disk
<1>2. w \in ActiveOps /\ ActiveOps' = ActiveOps
    BY DEF Modify, Goto, ActiveOps, InOp, WellFormed, TypeOK
<1>3. ~Recovering /\ ~Recovering'
    BY <1>1, <1>2, Active DEF Recovering, ActiveOps
<1> QED
    BY <1>1, <1>2, <1>3, SameDisk DEF Abstract!Write

\* end_op() ends an operation, whether or not it goes on to commit.
LEMMA EndIsEnd ==
    ASSUME WellFormed, NEW w \in Caller, EndOp(w) \/ EndLastOp(w) PROVE Abstract!End(w)
<1>1. UNCHANGED disk /\ UNCHANGED cache
    BY DEF EndOp, EndLastOp, disk
<1>2. w \in ActiveOps /\ ActiveOps' = ActiveOps \ {w}
    BY DEF EndOp, EndLastOp, Goto, WakeAnd, ActiveOps, InOp, WellFormed, TypeOK
<1>3. ~Recovering /\ ~Recovering'
    <2>1. stage = "off"
        BY <1>2, Active DEF ActiveOps
    <2> QED
        BY <2>1 DEF EndOp, EndLastOp, Recovering
<1> QED
    BY <1>1, <1>2, <1>3, SameDisk DEF Abstract!End

\* The end of end_op().
LEMMA FinishHides == ASSUME WellFormed, NEW w \in Caller, Finish(w) PROVE Hidden
<1>1. UNCHANGED disk /\ UNCHANGED cache /\ ~Recovering /\ ~Recovering'
    BY DEF Finish, disk, Recovering
<1>2. ActiveOps' = ActiveOps
    BY DEF Finish, WakeAnd, ActiveOps, InOp, WellFormed, TypeOK
<1> QED
    BY <1>1, <1>2, SameDisk DEF Hidden, Working

\* Log blocks that no header names yet do not survive.
LEMMA WriteLogHides == ASSUME WellFormed, WriteLog PROVE Hidden
<1>1. head = <<>> /\ UNCHANGED <<head, home, cache, pc>> /\ ~Recovering /\ ~Recovering'
    BY DEF WriteLog, WellFormed, Progress, Recovering
<1>2. Overlay(head, logdata, home) = Overlay(head, logdata', home)
    BY <1>1, NoHeader, SameOverlay
<1>3. Survives' = Survives
    BY <1>1, <1>2 DEF Survives, Overlay
<1> QED
    BY <1>1, <1>3 DEF Hidden, Working, ActiveOps, InOp

\* "The true point at which the current transaction commits".
LEMMA WriteHeadIsCommit == ASSUME WellFormed, WriteHead PROVE Abstract!Commit
<1>1. /\ stage = "write_head" /\ stage' = "install" /\ head' = lh
      /\ UNCHANGED <<logdata, home, cache, pc>>
    BY DEF WriteHead
<1>2. ~Recovering /\ ~Recovering'
    BY <1>1 DEF Recovering
<1>3. outstanding = 0
    BY <1>1 DEF WellFormed, Turns
<1>4. ActiveOps = {} /\ ActiveOps' = ActiveOps
    BY <1>1, <1>3, NobodyActive DEF ActiveOps, InOp
<1>5. ASSUME NEW b \in Block PROVE Overlay(lh, logdata, home)[b] = cache[b]
    <2>1. Distinct(lh)
        BY DEF WellFormed, Progress
    <2>2. CASE \E i \in 1..Len(lh) : lh[i] = b
        <3>1. PICK i \in 1..Len(lh) : lh[i] = b
            BY <2>2
        <3>2. logdata[i] = cache[b]
            BY <1>1, <3>1 DEF WellFormed, Progress
        <3> QED
            BY <2>1, <3>1, <3>2, OverlayIs
    <2>3. CASE \A i \in 1..Len(lh) : lh[i] # b
        <3>1. b \notin dirty
            BY <1>1, <2>3 DEF WellFormed, Pinned, Logged
        <3>2. \A w \in Caller : held[w] # b
            BY <1>3, NobodyActive, NoBlockAssumption
        <3>3. cache[b] = home[b]
            BY <3>1, <3>2 DEF WellFormed, Pinned
        <3> QED
            BY <2>1, <2>3, <3>3, OverlayIs
    <2> QED
        BY <2>2, <2>3
<1>6. Overlay(lh, logdata, home) = cache
    <2>1. cache = [b \in Block |-> cache[b]]
        BY DEF WellFormed, TypeOK
    <2> QED
        BY <1>5, <2>1 DEF Overlay
<1>7. Survives' = cache
    BY <1>1, <1>6 DEF Survives, Overlay
<1> QED
    BY <1>1, <1>2, <1>4, <1>7 DEF Abstract!Commit

\* A home block that the header names does not matter: its log block survives.
LEMMA InstallSurvives ==
    ASSUME WellFormed, InstallBlock("install", "clear") \/ InstallBlock("reinstall", "reclear")
    PROVE  Survives' = Survives
<1>1. head = lh /\ Distinct(lh) /\ UNCHANGED <<head, logdata>>
    BY DEF InstallBlock, WellFormed, Progress
<1>2. ASSUME NEW b \in Block
      PROVE  Overlay(head, logdata, home)[b] = Overlay(head, logdata, home')[b]
    <2>1. CASE \E i \in 1..Len(head) : head[i] = b
        BY <1>1, <2>1, OverlayIs
    <2>2. CASE \A i \in 1..Len(head) : head[i] # b
        <3>1. home'[b] = home[b]
            BY <1>1, <2>2 DEF InstallBlock, WellFormed, TypeOK
        <3> QED
            BY <1>1, <2>2, <3>1, OverlayIs
    <2> QED
        BY <2>1, <2>2
<1>3. Overlay(head, logdata, home) = Overlay(head, logdata, home')
    BY <1>2, SameOverlay
<1> QED
    BY <1>1, <1>3 DEF Survives, Overlay

\* install_trans() in a commit.
LEMMA InstallHides == ASSUME WellFormed, Install PROVE Hidden
<1>1. Survives' = Survives
    BY InstallSurvives DEF Install
<1>2. stage = "install" /\ ~Recovering /\ ~Recovering' /\ pc' = pc
    BY DEF Install, InstallBlock, Recovering
<1>3. cache' = cache
    <2>1. CASE tail <= Len(lh)
        <3>1. tail \in 1..Len(lh) /\ lh[tail] \in Block
            BY <2>1 DEF WellFormed, TypeOK
        <3>2. logdata[tail] = cache[lh[tail]]
            BY <1>2, <3>1 DEF WellFormed, Progress
        <3> QED
            BY <2>1, <3>1, <3>2 DEF Install, InstallBlock, WellFormed, TypeOK
    <2>2. CASE ~(tail <= Len(lh))
        BY <2>2 DEF Install, InstallBlock
    <2> QED
        BY <2>1, <2>2
<1> QED
    BY <1>1, <1>2, <1>3 DEF Hidden, Working, ActiveOps, InOp

\* install_trans() in a recovery.
LEMMA ReinstallHides == ASSUME WellFormed, Reinstall PROVE Hidden
<1>1. Survives' = Survives
    BY InstallSurvives DEF Reinstall
<1>2. Recovering /\ Recovering' /\ pc' = pc
    BY DEF Reinstall, InstallBlock, Recovering
<1> QED
    BY <1>1, <1>2 DEF Hidden, Working, ActiveOps, InOp

\* When all blocks are home the header may go.
LEMMA ClearSurvives ==
    ASSUME WellFormed, ClearHead("clear", "finish") \/ ClearHead("reclear", "off")
    PROVE  Survives' = Survives /\ \A b \in Block : Survives[b] = home[b]
<1>1. /\ head = lh /\ Distinct(lh) /\ head' = <<>> /\ UNCHANGED <<home, logdata>>
      /\ \A i \in 1..Len(lh) : home[lh[i]] = logdata[i]
    BY DEF ClearHead, WellFormed, Progress
<1>2. ASSUME NEW b \in Block PROVE Overlay(head, logdata, home)[b] = home[b]
    <2>1. CASE \E i \in 1..Len(head) : head[i] = b
        BY <1>1, <2>1, OverlayIs
    <2>2. CASE \A i \in 1..Len(head) : head[i] # b
        BY <1>1, <2>2, OverlayIs
    <2> QED
        BY <2>1, <2>2
<1>3. Overlay(head, logdata, home) = Overlay(<<>>, logdata, home)
    BY <1>2, NoHeader, SameOverlay
<1>4. Survives = Overlay(head, logdata, home) /\ Survives' = Overlay(<<>>, logdata, home)
    BY <1>1 DEF Survives, Overlay
<1> QED
    BY <1>2, <1>3, <1>4

\* The end of a commit.
LEMMA ClearHides == ASSUME WellFormed, Clear PROVE Hidden
<1>1. Survives' = Survives
    BY ClearSurvives DEF Clear
<1>2. ~Recovering /\ ~Recovering' /\ UNCHANGED <<pc, cache>>
    BY DEF Clear, ClearHead, Recovering
<1> QED
    BY <1>1, <1>2 DEF Hidden, Working, ActiveOps, InOp

\* The end of a recovery: the cache has what survived.
LEMMA ReclearHides == ASSUME WellFormed, Reclear PROVE Hidden
<1>1. Survives' = Survives /\ \A b \in Block : Survives[b] = home[b]
    BY ClearSurvives DEF Reclear
<1>2. Recovering /\ ~Recovering' /\ UNCHANGED <<pc, cache>>
    BY DEF Reclear, ClearHead, Recovering
<1>3. \A b \in Block : cache[b] = home[b]
    <2>1. dirty = {} /\ \A w \in Caller : held[w] = NoBlock
        BY <1>2 DEF WellFormed, Turns, Pinned
    <2> QED
        BY <2>1, NoBlockAssumption DEF WellFormed, Pinned
<1>4. cache = [b \in Block |-> cache[b]] /\ Survives = [b \in Block |-> Survives[b]]
    BY DEF WellFormed, TypeOK, Survives
<1>5. Survives = cache
    BY <1>1, <1>3, <1>4
<1> QED
    BY <1>1, <1>2, <1>5 DEF Hidden, Working, ActiveOps, InOp

\* A crash loses the cache and the operations, and nothing else.
LEMMA CrashIsCrash == ASSUME WellFormed, Crash PROVE Abstract!Crash
<1>1. UNCHANGED disk /\ Recovering' /\ ActiveOps' = {}
    BY DEF Crash, Recovering, ActiveOps, InOp
<1> QED
    BY <1>1, SameDisk DEF Abstract!Crash

\* Reading the header.
LEMMA ReadHeadHides == ASSUME WellFormed, ReadHead PROVE Hidden
<1>1. UNCHANGED disk /\ Recovering /\ Recovering' /\ pc' = pc
    BY DEF ReadHead, disk, Recovering
<1> QED
    BY <1>1, SameDisk DEF Hidden, Working, ActiveOps, InOp

-----------------------------------------------------------------------------
(* The refinement *)

\* A disk made by mkfs.
LEMMA InitAtomic == Init => Abstract!Init
<1> SUFFICES ASSUME Init PROVE Abstract!Init
    OBVIOUS
<1>1. ~Recovering /\ ActiveOps = {} /\ home = [b \in Block |-> Blank] /\ cache = home /\ head = <<>>
    BY DEF Init, Recovering, ActiveOps, InOp
<1>2. Survives = home
    BY <1>1 DEF Survives
<1> QED
    BY <1>1, <1>2 DEF Abstract!Init

\* Every step of Log is a step of AtomicDisk, or cannot be seen from above.
LEMMA NextAtomic == WellFormed /\ [Next]_vars => [Abstract!Next]_(Abstract!vars)
<1> SUFFICES ASSUME WellFormed, [Next]_vars PROVE [Abstract!Next]_(Abstract!vars)
    OBVIOUS
<1>1. CASE UNCHANGED vars
    <2>1. Hidden
        BY <1>1 DEF vars, memory, disk, Hidden, Survives, Working, Recovering, ActiveOps, InOp
    <2> QED
        BY <2>1, HiddenStutters
<1>2. ASSUME NEW w \in Caller,
             Call(w) \/ BeginSleep(w) \/ KillWakes(w) \/ LogWrite(w) \/ Finish(w)
      PROVE  [Abstract!Next]_(Abstract!vars)
    BY <1>2, QuietSteps, FinishHides, HiddenStutters
<1>3. ASSUME NEW w \in Caller, BeginOp(w) \/ EndOp(w) \/ EndLastOp(w)
      PROVE  [Abstract!Next]_(Abstract!vars)
    BY <1>3, BeginIsBegin, EndIsEnd DEF Abstract!Next
<1>4. ASSUME NEW w \in Caller, NEW b \in Block, NEW v \in Value, Modify(w, b, v)
      PROVE  [Abstract!Next]_(Abstract!vars)
    BY <1>4, ModifyIsWrite DEF Abstract!Next
<1>5. CASE \E b \in Block : Evict(b)
    BY <1>5, EvictHides, HiddenStutters
<1>6. CASE WriteLog \/ Install \/ Clear \/ ReadHead \/ Reinstall \/ Reclear
    BY <1>6, WriteLogHides, InstallHides, ClearHides, ReadHeadHides, ReinstallHides,
       ReclearHides, HiddenStutters
<1>7. CASE WriteHead
    BY <1>7, WriteHeadIsCommit DEF Abstract!Next
<1>8. CASE Crash
    BY <1>8, CrashIsCrash DEF Abstract!Next
<1> QED
    BY <1>1, <1>2, <1>3, <1>4, <1>5, <1>6, <1>7, <1>8 DEF Next

\* The log makes transactions atomic: whenever the power fails, in a commit or in
\* the recovery from an earlier failure, the recovery that follows brings back
\* exactly the operations that the last write of the header committed.
THEOREM CrashesAreAtomic == ASSUME Fits PROVE Spec => ImplementsAtomicDisk
<1>1. Init => Abstract!Init
    BY InitAtomic
<1>2. LogInv /\ [Next]_vars => [Abstract!Next]_(Abstract!vars)
    BY NextAtomic DEF LogInv
<1> QED
    BY <1>1, <1>2, LogInvariant, PTL DEF Spec, ImplementsAtomicDisk, Abstract!Spec

=============================================================================
