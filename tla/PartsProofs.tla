---------------------------- MODULE PartsProofs ----------------------------
(***************************************************************************)
(* Proofs about small parts of the kernel, each for every value of its     *)
(* constants that its hypothesis allows: shared memory, the reentrant lock *)
(* of Lab 4, the clock, spin locks with the interrupts they disable, the   *)
(* keyboard, the counters of system calls, the log of system calls, and    *)
(* the blocks of files.                                                    *)
(***************************************************************************)
EXTENDS SharedMem, FiniteSetTheorems, TLAPS

-----------------------------------------------------------------------------
(* Shared memory, of programs that use the calls as sham_test.c does *)

\* What the constants stand for, and programs that behave.
Sharing ==
    /\ IsFiniteSet(Proc) /\ First \in Proc
    /\ NSHPAGE \in Nat /\ MaxPages \in Nat \ {0}
    /\ 0 \notin Ids /\ Hole \notin Frame /\ Page0 \notin Frame
    /\ Disciplined

\* Position i of p's address space is where p has a page open.
Shared(p, i) == using[p] # 0 /\ i = shmemaddr[p]

\* Who has a page open runs, and finds it where open put it.
Openers ==
    \A p \in Proc : using[p] # 0 =>
        /\ state[p] \in {"user", "fork"} /\ shmemaddr[p] \in DOMAIN pt[p]
        /\ \E i \in Entries : id[i] = using[p] /\ pt[p][shmemaddr[p]] = physicalAddr[i]

\* An id has one entry, an entry one frame, which kalloc() does not hand out.
OneEntry ==
    \A i \in Entries :
        /\ id[i] = 0 => n_access[i] = 0
        /\ physicalAddr[i] \notin free
        /\ \A j \in Entries :
             /\ id[i] = id[j] /\ id[i] # 0 => i = j
             /\ physicalAddr[i] = physicalAddr[j] /\ physicalAddr[i] # Page0 => i = j

\* What is mapped is not free; and what is not shared is in one address space only,
\* and not in the table.
Private ==
    \A p \in Proc : \A i \in DOMAIN pt[p] :
        /\ pt[p][i] \notin free
        /\ pt[p][i] \in Frame /\ ~Shared(p, i) =>
             /\ \A e \in Entries : physicalAddr[e] # pt[p][i]
             /\ \A q \in Proc : \A j \in DOMAIN pt[q] : pt[q][j] = pt[p][i] => q = p

SharedIInv == TypeOK /\ Openers /\ OneEntry /\ CountsUsers /\ Private

-----------------------------------------------------------------------------
(* Steps that leave the table alone *)

\* One process gets another address space, made of its old pages and of free ones,
\* and gives pages back only if it shares none.
LEMMA NewSpace ==
    ASSUME Sharing, SharedIInv, TypeOK', NEW p \in Proc, UNCHANGED <<shmemaddr, using, table>>,
           \A q \in Proc \ {p} : pt'[q] = pt[q],
           \A q \in Proc : using[q] # 0 => state'[q] \in {"user", "fork"},
           using[p] # 0 => \A i \in DOMAIN pt[p] : i \in DOMAIN pt'[p] /\ pt'[p][i] = pt[p][i],
           \A i \in DOMAIN pt'[p] :
              /\ pt'[p][i] \notin free'
              /\ pt'[p][i] \in free \/ (i \in DOMAIN pt[p] /\ pt'[p][i] = pt[p][i]),
           \A f \in free' : f \in free \/ (using[p] = 0 /\ \E i \in DOMAIN pt[p] : pt[p][i] = f)
    PROVE  SharedIInv'
<1>i. TypeOK /\ Openers /\ OneEntry /\ CountsUsers /\ Private
    BY DEF SharedIInv
<1>t. UNCHANGED <<id, n_access, physicalAddr>>
    BY DEF table
<1>0. free' \subseteq Frame
    BY DEF TypeOK
<1>1. Openers'
    <2> SUFFICES ASSUME NEW q \in Proc, using[q] # 0
                 PROVE  /\ state'[q] \in {"user", "fork"} /\ shmemaddr[q] \in DOMAIN pt'[q]
                        /\ \E i \in Entries :
                              id[i] = using[q] /\ pt'[q][shmemaddr[q]] = physicalAddr[i]
        BY <1>t DEF Openers
    <2>1. /\ shmemaddr[q] \in DOMAIN pt[q]
          /\ \E i \in Entries : id[i] = using[q] /\ pt[q][shmemaddr[q]] = physicalAddr[i]
        BY <1>i DEF Openers
    <2>2. shmemaddr[q] \in DOMAIN pt'[q] /\ pt'[q][shmemaddr[q]] = pt[q][shmemaddr[q]]
        BY <2>1
    <2> QED
        BY <2>1, <2>2
<1>2. OneEntry'
    <2>1. ASSUME NEW i \in Entries PROVE physicalAddr[i] \notin free'
        <3>1. physicalAddr[i] \notin free
            BY <1>i DEF OneEntry
        <3>2. ASSUME using[p] = 0, NEW j \in DOMAIN pt[p], pt[p][j] = physicalAddr[i],
                     physicalAddr[i] \in Frame
              PROVE  FALSE
            BY <1>i, <3>2 DEF Private, Shared
        <3> QED
            BY <1>0, <3>1, <3>2
    <2> QED
        BY <1>i, <1>t, <2>1 DEF OneEntry
<1>3. CountsUsers'
    BY <1>i, <1>t DEF CountsUsers, Users
<1>4. Private'
    <2> SUFFICES ASSUME NEW q \in Proc, NEW i \in DOMAIN pt'[q]
                 PROVE  /\ pt'[q][i] \notin free'
                        /\ pt'[q][i] \in Frame /\ ~Shared(q, i) =>
                             /\ \A e \in Entries : physicalAddr[e] # pt'[q][i]
                             /\ \A r \in Proc : \A j \in DOMAIN pt'[r] :
                                  pt'[r][j] = pt'[q][i] => r = q
        BY <1>t DEF Private, Shared
    <2>1. pt'[q][i] \notin free'
        <3>1. CASE q = p
            BY <3>1
        <3>2. CASE q # p
            <4>1. i \in DOMAIN pt[q] /\ pt'[q][i] = pt[q][i] /\ pt[q][i] \notin free
                BY <1>i, <3>2 DEF Private
            <4>2. ASSUME using[p] = 0, NEW j \in DOMAIN pt[p], pt[p][j] = pt[q][i],
                         pt[q][i] \in Frame
                  PROVE  FALSE
                <5>1. ~Shared(p, j)
                    BY <4>2 DEF Shared
                <5> QED
                    BY <1>i, <3>2, <4>1, <4>2, <5>1 DEF Private
            <4> QED
                BY <1>0, <4>1, <4>2
        <3> QED
            BY <3>1, <3>2
    <2>2. CASE pt'[q][i] \in free
        <3>1. \A r \in Proc : \A j \in DOMAIN pt'[r] : pt'[r][j] = pt'[q][i] => r = p
            BY <1>i, <2>2 DEF Private
        <3>2. \A e \in Entries : physicalAddr[e] # pt'[q][i]
            BY <1>i, <2>2 DEF OneEntry
        <3> QED
            BY <2>1, <3>1, <3>2
    <2>3. CASE pt'[q][i] \notin free /\ pt'[q][i] \in Frame /\ ~Shared(q, i)
        <3>1. i \in DOMAIN pt[q] /\ pt'[q][i] = pt[q][i]
            BY <2>3
        <3>2. /\ \A e \in Entries : physicalAddr[e] # pt[q][i]
              /\ \A r \in Proc : \A j \in DOMAIN pt[r] : pt[r][j] = pt[q][i] => r = q
            BY <1>i, <2>3, <3>1 DEF Private
        <3>3. ASSUME NEW r \in Proc, NEW j \in DOMAIN pt'[r], pt'[r][j] = pt'[q][i]
              PROVE  r = q
            <4>1. j \in DOMAIN pt[r] /\ pt'[r][j] = pt[r][j]
                BY <2>3, <3>3
            <4> QED
                BY <3>1, <3>2, <3>3, <4>1
        <3> QED
            BY <2>1, <3>1, <3>2, <3>3
    <2> QED
        BY <2>1, <2>2, <2>3
<1> QED
    BY <1>1, <1>2, <1>3, <1>4 DEF SharedIInv

\* sbrk() takes a free page.
LEMMA GrowKeeps == ASSUME Sharing, SharedIInv, NEW p \in Proc, Grow(p) PROVE SharedIInv'
<1>1. TypeOK /\ Private /\ UNCHANGED <<state, shmemaddr, using, table>>
    BY DEF SharedIInv, Grow
<1>2. PICK f \in free : pt' = [pt EXCEPT ![p] = Append(@, f)] /\ free' = free \ {f}
    BY DEF Grow
<1>3. TypeOK'
    BY <1>1, <1>2 DEF TypeOK, table
<1>4. /\ \A q \in Proc \ {p} : pt'[q] = pt[q]
      /\ \A i \in DOMAIN pt[p] : i \in DOMAIN pt'[p] /\ pt'[p][i] = pt[p][i]
      /\ \A i \in DOMAIN pt'[p] : i \in DOMAIN pt[p] \/ pt'[p][i] = f
    BY <1>1, <1>2 DEF TypeOK
<1>5. \A i \in DOMAIN pt'[p] :
        /\ pt'[p][i] \notin free'
        /\ pt'[p][i] \in free \/ (i \in DOMAIN pt[p] /\ pt'[p][i] = pt[p][i])
    <2> SUFFICES ASSUME NEW i \in DOMAIN pt'[p]
                 PROVE  /\ pt'[p][i] \notin free'
                        /\ pt'[p][i] \in free \/ (i \in DOMAIN pt[p] /\ pt'[p][i] = pt[p][i])
        OBVIOUS
    <2>1. CASE i \in DOMAIN pt[p]
        <3>1. pt[p][i] \notin free
            BY <1>1, <2>1 DEF Private
        <3> QED
            BY <1>2, <1>4, <2>1, <3>1
    <2>2. CASE pt'[p][i] = f
        BY <1>2, <2>2
    <2> QED
        BY <1>4, <2>1, <2>2
<1>6. \A q \in Proc : using[q] # 0 => state'[q] \in {"user", "fork"}
    BY <1>1 DEF SharedIInv, Openers
<1>7. \A g \in free' : g \in free \/ (using[p] = 0 /\ \E i \in DOMAIN pt[p] : pt[p][i] = g)
    BY <1>2
<1> QED
    BY <1>1, <1>3, <1>4, <1>5, <1>6, <1>7, NewSpace

\* The call of fork(), its failure and exit() change only who runs.
LEMMA StateKeeps ==
    ASSUME Sharing, SharedIInv, NEW p \in Proc, CallFork(p) \/ ForkFail(p) \/ Exit(p)
    PROVE  SharedIInv'
<1>1. TypeOK /\ Private /\ UNCHANGED <<pt, shmemaddr, using, table, free>>
    BY DEF SharedIInv, CallFork, ForkFail, Exit
<1>2. TypeOK'
    BY <1>1 DEF TypeOK, table, CallFork, ForkFail, Exit
<1>3. \A q \in Proc : using[q] # 0 => state'[q] \in {"user", "fork"}
    BY <1>1 DEF SharedIInv, Openers, TypeOK, CallFork, ForkFail, Exit, MayDrop, Sharing
<1>4. \A i \in DOMAIN pt'[p] :
        /\ pt'[p][i] \notin free'
        /\ pt'[p][i] \in free \/ (i \in DOMAIN pt[p] /\ pt'[p][i] = pt[p][i])
    BY <1>1 DEF Private
<1>5. \A q \in Proc \ {p} : pt'[q] = pt[q]
    BY <1>1
<1>6. using[p] # 0 => \A i \in DOMAIN pt[p] : i \in DOMAIN pt'[p] /\ pt'[p][i] = pt[p][i]
    BY <1>1
<1>7. \A g \in free' : g \in free \/ (using[p] = 0 /\ \E i \in DOMAIN pt[p] : pt[p][i] = g)
    BY <1>1
<1> QED
    BY <1>1, <1>2, <1>3, <1>4, <1>5, <1>6, <1>7, NewSpace

\* copyuvm() copies every page into a free one.
LEMMA ForkKeeps ==
    ASSUME Sharing, SharedIInv, NEW p \in Proc, NEW q \in Proc, Fork(p, q)
    PROVE  SharedIInv'
<1>1. TypeOK /\ Openers /\ Private /\ UNCHANGED <<shmemaddr, table>> /\ state[q] = "unused"
    BY DEF SharedIInv, Fork
<1>2. PICK s \in Copies(p) :
        pt' = [pt EXCEPT ![q] = s] /\ free' = free \ {s[i] : i \in DOMAIN s}
    BY DEF Fork
<1>3. using[q] = 0 /\ using' = using
    BY <1>1 DEF Openers, TypeOK, Fork
<1>4. s \in Seq(free)
    BY <1>1, <1>2 DEF Copies, TypeOK
<1>5. TypeOK'
    <2>1. s \in Seq(Frame \cup {Hole, Page0})
        BY <1>1, <1>4 DEF TypeOK
    <2> QED
        BY <1>1, <1>2, <1>3, <2>1 DEF TypeOK, table, Fork
<1>6. \A r \in Proc \ {q} : pt'[r] = pt[r]
    BY <1>1, <1>2 DEF TypeOK
<1>7. \A i \in DOMAIN pt'[q] :
        /\ pt'[q][i] \notin free'
        /\ pt'[q][i] \in free \/ (i \in DOMAIN pt[q] /\ pt'[q][i] = pt[q][i])
    BY <1>1, <1>2, <1>4 DEF TypeOK
<1>9. \A g \in free' : g \in free \/ (using[q] = 0 /\ \E i \in DOMAIN pt[q] : pt[q][i] = g)
    BY <1>2
<1>8. \A r \in Proc : using[r] # 0 => state'[r] \in {"user", "fork"}
    BY <1>1, <1>3 DEF Openers, TypeOK, Fork
<1> QED
    BY <1>1, <1>2, <1>3, <1>5, <1>6, <1>7, <1>8, <1>9, NewSpace

\* exec() and wait() free an address space that shares nothing.
LEMMA ExecKeeps == ASSUME Sharing, SharedIInv, NEW p \in Proc, Exec(p) PROVE SharedIInv'
<1>1. TypeOK /\ Openers /\ Private /\ UNCHANGED <<state, shmemaddr, using, table>> /\ using[p] = 0
    BY DEF SharedIInv, Exec, MayDrop, Sharing
<1>2. PICK f \in free : pt' = [pt EXCEPT ![p] = <<f>>] /\ free' = (free \ {f}) \cup Mapped(p)
    BY DEF Exec
<1>3. Mapped(p) \subseteq Frame
    BY <1>1 DEF Exec, FreevmPanics, Mapped, TypeOK
<1>4. TypeOK'
    BY <1>1, <1>2, <1>3 DEF TypeOK, table
<1>5. (\A q \in Proc \ {p} : pt'[q] = pt[q]) /\ pt'[p] = <<f>>
    BY <1>1, <1>2 DEF TypeOK
<1>6. \A i \in DOMAIN pt'[p] :
        /\ pt'[p][i] \notin free'
        /\ pt'[p][i] \in free \/ (i \in DOMAIN pt[p] /\ pt'[p][i] = pt[p][i])
    <2>1. f \notin Mapped(p)
        BY <1>1, <1>2 DEF Private, Mapped
    <2>2. \A i \in DOMAIN pt'[p] : pt'[p][i] = f
        BY <1>5
    <2> QED
        BY <1>2, <2>1, <2>2
<1>7. \A g \in free' : g \in free \/ (using[p] = 0 /\ \E i \in DOMAIN pt[p] : pt[p][i] = g)
    <2>1. \A g \in Mapped(p) : \E i \in DOMAIN pt[p] : pt[p][i] = g
        BY DEF Mapped
    <2> QED
        BY <1>1, <1>2, <2>1
<1>8. \A q \in Proc : using[q] # 0 => state'[q] \in {"user", "fork"}
    BY <1>1 DEF Openers
<1> QED
    BY <1>1, <1>4, <1>5, <1>6, <1>7, <1>8, NewSpace

\* So does wait() for its child.
LEMMA ReapKeeps == ASSUME Sharing, SharedIInv, NEW p \in Proc, Reap(p) PROVE SharedIInv'
<1>1. TypeOK /\ Openers /\ Private /\ UNCHANGED <<shmemaddr, using, table>> /\ using[p] = 0
    BY DEF SharedIInv, Reap, Openers
<1>2. pt' = [pt EXCEPT ![p] = <<>>] /\ free' = free \cup Mapped(p)
    BY DEF Reap
<1>3. Mapped(p) \subseteq Frame
    BY <1>1 DEF Reap, FreevmPanics, Mapped, TypeOK
<1>4. TypeOK'
    BY <1>1, <1>2, <1>3 DEF TypeOK, table, Reap
<1>5. (\A q \in Proc \ {p} : pt'[q] = pt[q]) /\ pt'[p] = <<>>
    BY <1>1, <1>2 DEF TypeOK
<1>6. \A g \in free' : g \in free \/ (using[p] = 0 /\ \E i \in DOMAIN pt[p] : pt[p][i] = g)
    <2>1. \A g \in Mapped(p) : \E i \in DOMAIN pt[p] : pt[p][i] = g
        BY DEF Mapped
    <2> QED
        BY <1>1, <1>2, <2>1
<1>7. \A q \in Proc : using[q] # 0 => state'[q] \in {"user", "fork"}
    BY <1>1 DEF Openers, TypeOK, Reap
<1> QED
    BY <1>1, <1>4, <1>5, <1>6, <1>7, NewSpace

-----------------------------------------------------------------------------
(* Steps on the table *)

\* Process p opens the page of entry e, which is the entry of k already or becomes it.
LEMMA Opens ==
    ASSUME Sharing, SharedIInv, NEW p \in Proc, NEW k \in Ids, NEW e \in Entries, NEW f,
           using[p] = 0, state[p] = "user", state' = state, Len(pt[p]) < MaxPages,
           pt' = [pt EXCEPT ![p] = Append(@, f)],
           shmemaddr' = [shmemaddr EXCEPT ![p] = Len(pt[p]) + 1],
           using' = [using EXCEPT ![p] = k],
           id' = [id EXCEPT ![e] = k], n_access' = [n_access EXCEPT ![e] = @ + 1],
           physicalAddr' = [physicalAddr EXCEPT ![e] = f],
           \/ id[e] = k /\ physicalAddr[e] = f /\ free' = free
           \/ WithId(k) = {} /\ id[e] = 0 /\ f \in free /\ free' = free \ {f}
    PROVE  SharedIInv'
<1>i. TypeOK /\ Openers /\ OneEntry /\ CountsUsers /\ Private
    BY DEF SharedIInv
<1> DEFINE a == Len(pt[p]) + 1
<1>k. k # 0
    BY DEF Sharing
<1>1. /\ DOMAIN pt'[p] = DOMAIN pt[p] \cup {a} /\ a \notin DOMAIN pt[p]
      /\ \A i \in DOMAIN pt[p] : pt'[p][i] = pt[p][i]
      /\ pt'[p][a] = f /\ shmemaddr'[p] = a /\ using'[p] = k
    <2>1. pt[p] \in Seq(Frame \cup {Hole, Page0}) /\ pt'[p] = Append(pt[p], f)
        BY <1>i DEF TypeOK
    <2> QED
        BY <1>i, <2>1 DEF TypeOK
<1>2. \A q \in Proc \ {p} :
        pt'[q] = pt[q] /\ shmemaddr'[q] = shmemaddr[q] /\ using'[q] = using[q]
    BY <1>i DEF TypeOK
<1>3. /\ id'[e] = k /\ n_access'[e] = n_access[e] + 1 /\ physicalAddr'[e] = f
      /\ \A i \in Entries \ {e} :
            /\ id'[i] = id[i] /\ n_access'[i] = n_access[i]
            /\ physicalAddr'[i] = physicalAddr[i] /\ id[i] # k
            /\ f # Page0 => physicalAddr[i] # f
    <2>1. ASSUME NEW i \in Entries \ {e} PROVE id[i] # k /\ (f # Page0 => physicalAddr[i] # f)
        BY <1>i, <1>k DEF OneEntry, WithId
    <2> QED
        BY <1>i, <2>1 DEF TypeOK
<1>4. f \notin free' /\ free' \subseteq free /\ f \in Frame \cup {Page0}
    BY <1>i DEF OneEntry, TypeOK
<1>5. \A q \in Proc : using[q] = k => id[e] = k
    BY <1>i, <1>k DEF Openers, WithId
<1>6. \A q \in Proc : \A i \in DOMAIN pt[q] :
        pt[q][i] \in Frame /\ ~Shared(q, i) => pt[q][i] # f
    BY <1>i DEF Private
<1> HIDE DEF a
<1>10. TypeOK'
    <2>1. pt' \in [Proc -> Seq(Frame \cup {Hole, Page0})]
        <3>1. Append(pt[p], f) \in Seq(Frame \cup {Hole, Page0})
            BY <1>i, <1>4 DEF TypeOK
        <3> QED
            BY <1>i, <3>1 DEF TypeOK
    <2>2. Len(pt[p]) + 1 \in 1..MaxPages
        BY <1>i DEF TypeOK, Sharing
    <2>3. shmemaddr' \in [Proc -> 1..MaxPages]
        BY <1>i, <2>2 DEF TypeOK
    <2> QED
        BY <1>i, <1>4, <2>1, <2>3 DEF TypeOK
<1>11. Openers'
    <2> SUFFICES ASSUME NEW q \in Proc, using'[q] # 0
                 PROVE  /\ state'[q] \in {"user", "fork"} /\ shmemaddr'[q] \in DOMAIN pt'[q]
                        /\ \E i \in Entries : /\ id'[i] = using'[q]
                                              /\ pt'[q][shmemaddr'[q]] = physicalAddr'[i]
        BY DEF Openers
    <2>1. CASE q = p
        BY <1>1, <1>3, <2>1
    <2>2. CASE q # p
        <3>1. PICK i \in Entries : id[i] = using[q] /\ pt[q][shmemaddr[q]] = physicalAddr[i]
            BY <1>i, <1>2, <2>2 DEF Openers
        <3>2. id'[i] = id[i] /\ physicalAddr'[i] = physicalAddr[i]
            BY <1>2, <1>3, <2>2, <3>1
        <3> QED
            BY <1>i, <1>2, <2>2, <3>1, <3>2 DEF Openers
    <2> QED
        BY <2>1, <2>2
<1>12. OneEntry'
    <2> SUFFICES ASSUME NEW i \in Entries
                 PROVE  /\ id'[i] = 0 => n_access'[i] = 0
                        /\ physicalAddr'[i] \notin free'
                        /\ \A j \in Entries :
                             /\ id'[i] = id'[j] /\ id'[i] # 0 => i = j
                             /\ physicalAddr'[i] = physicalAddr'[j] /\ physicalAddr'[i] # Page0
                                  => i = j
        BY DEF OneEntry
    <2>1. CASE i = e
        BY <1>3, <1>4, <1>k, <2>1
    <2>2. CASE i # e
        BY <1>i, <1>3, <1>4, <2>2 DEF OneEntry
    <2> QED
        BY <2>1, <2>2
<1>13. CountsUsers'
    <2> SUFFICES ASSUME NEW i \in Entries, id'[i] # 0
                 PROVE  n_access'[i] = Cardinality({q \in Proc : using'[q] = id'[i]})
        BY DEF CountsUsers, Users
    <2>1. CASE i = e
        <3>1. IsFiniteSet(Users(k)) /\ p \notin Users(k)
            BY <1>k, FS_Subset DEF Users, Sharing
        <3>2. {q \in Proc : using'[q] = k} = Users(k) \cup {p}
            BY <1>1, <1>2 DEF Users
        <3>3. n_access[e] = Cardinality(Users(k))
            <4>1. CASE id[e] = k
                BY <1>i, <1>k, <4>1 DEF CountsUsers
            <4>2. CASE id[e] # k
                <5>1. Users(k) = {} /\ id[e] = 0
                    BY <1>5, <4>2 DEF Users
                <5> QED
                    BY <1>i, <5>1, FS_EmptySet DEF OneEntry
            <4> QED
                BY <4>1, <4>2
        <3>4. Cardinality(Users(k) \cup {p}) = Cardinality(Users(k)) + 1
            BY <3>1, FS_AddElement
        <3>5. n_access'[i] = n_access[e] + 1 /\ id'[i] = k
            BY <1>3, <2>1
        <3> QED
            BY <3>2, <3>3, <3>4, <3>5
    <2>2. CASE i # e
        <3>1. PICK m : m = id[i]
            OBVIOUS
        <3>2. id'[i] = m /\ m # 0 /\ m # k /\ n_access'[i] = n_access[i]
            BY <1>3, <2>2, <3>1
        <3>3. {q \in Proc : using'[q] = m} = {q \in Proc : using[q] = m}
            BY <1>1, <1>2, <3>2
        <3>4. n_access[i] = Cardinality({q \in Proc : using[q] = m})
            BY <1>i, <3>1, <3>2 DEF CountsUsers, Users
        <3> QED
            BY <3>2, <3>3, <3>4
    <2> QED
        BY <2>1, <2>2
<1>14. Private'
    <2> SUFFICES ASSUME NEW q \in Proc, NEW i \in DOMAIN pt'[q]
                 PROVE  /\ pt'[q][i] \notin free'
                        /\ pt'[q][i] \in Frame /\ ~Shared(q, i)' =>
                             /\ \A g \in Entries : physicalAddr'[g] # pt'[q][i]
                             /\ \A r \in Proc : \A j \in DOMAIN pt'[r] :
                                  pt'[r][j] = pt'[q][i] => r = q
        BY DEF Private
    <2>1. CASE q = p /\ i = a
        BY <1>1, <1>4, <1>k, <2>1 DEF Shared
    <2>2. CASE ~(q = p /\ i = a)
        <3>1. i \in DOMAIN pt[q] /\ pt'[q][i] = pt[q][i]
            BY <1>1, <1>2, <2>2
        <3>2. pt'[q][i] \notin free'
            BY <1>i, <1>4, <3>1 DEF Private
        <3>3. ASSUME pt[q][i] \in Frame, ~Shared(q, i)'
              PROVE  /\ \A g \in Entries : physicalAddr'[g] # pt[q][i]
                     /\ \A r \in Proc : \A j \in DOMAIN pt'[r] : pt'[r][j] = pt[q][i] => r = q
            <4>1. ~Shared(q, i)
                BY <1>2, <3>3 DEF Shared
            <4>2. pt[q][i] # f
                BY <1>6, <3>1, <3>3, <4>1
            <4>3. \A g \in Entries : physicalAddr'[g] # pt[q][i]
                BY <1>i, <1>3, <3>1, <3>3, <4>1, <4>2 DEF Private
            <4>4. ASSUME NEW r \in Proc, NEW j \in DOMAIN pt'[r], pt'[r][j] = pt[q][i] PROVE r = q
                <5>1. j \in DOMAIN pt[r] /\ pt'[r][j] = pt[r][j]
                    BY <1>1, <1>2, <4>2, <4>4
                <5> QED
                    BY <1>i, <3>1, <3>3, <4>1, <4>4, <5>1 DEF Private
            <4> QED
                BY <4>3, <4>4
        <3> QED
            BY <3>1, <3>2, <3>3
    <2> QED
        BY <2>1, <2>2
<1> QED
    BY <1>10, <1>11, <1>12, <1>13, <1>14 DEF SharedIInv

\* The page is in the table.
LEMMA OpenExistingKeeps ==
    ASSUME Sharing, SharedIInv, NEW p \in Proc, NEW k \in Ids, OpenExisting(p, k) PROVE SharedIInv'
<1>1. PICK e \in Entries : id[e] = k /\ CountOpen(e) /\ MapAtEnd(p, physicalAddr[e])
    BY DEF OpenExisting, IsFirst, WithId
<1>2. TypeOK
    BY DEF SharedIInv
<1>3. id' = [id EXCEPT ![e] = k] /\ physicalAddr' = [physicalAddr EXCEPT ![e] = physicalAddr[e]]
    BY <1>1, <1>2 DEF OpenExisting, TypeOK
<1>4. /\ using[p] = 0 /\ state[p] = "user" /\ state' = state /\ Len(pt[p]) < MaxPages
      /\ using' = [using EXCEPT ![p] = k] /\ free' = free
    BY DEF OpenExisting, MayOpen, Sharing
<1>5. /\ pt' = [pt EXCEPT ![p] = Append(@, physicalAddr[e])]
      /\ shmemaddr' = [shmemaddr EXCEPT ![p] = Len(pt[p]) + 1]
      /\ n_access' = [n_access EXCEPT ![e] = @ + 1]
    BY <1>1 DEF MapAtEnd, CountOpen
<1> QED
    BY <1>1, <1>3, <1>4, <1>5, Opens

\* It is made for the first user.
LEMMA OpenNewKeeps ==
    ASSUME Sharing, SharedIInv, NEW p \in Proc, NEW k \in Ids, OpenNew(p, k) PROVE SharedIInv'
<1>1. PICK e \in Entries, f \in free :
        /\ id[e] = 0 /\ CountOpen(e) /\ MapAtEnd(p, f)
        /\ id' = [id EXCEPT ![e] = k] /\ physicalAddr' = [physicalAddr EXCEPT ![e] = f]
        /\ free' = free \ {f}
    BY DEF OpenNew, IsFirst, WithId
<1>2. /\ using[p] = 0 /\ state[p] = "user" /\ state' = state /\ Len(pt[p]) < MaxPages
      /\ using' = [using EXCEPT ![p] = k] /\ WithId(k) = {}
    BY DEF OpenNew, MayOpen, Sharing
<1>3. /\ pt' = [pt EXCEPT ![p] = Append(@, f)]
      /\ shmemaddr' = [shmemaddr EXCEPT ![p] = Len(pt[p]) + 1]
      /\ n_access' = [n_access EXCEPT ![e] = @ + 1]
    BY <1>1 DEF MapAtEnd, CountOpen
<1> QED
    BY <1>1, <1>2, <1>3, Opens

\* An id that stays behind without a page has no users.
LEMMA OpenNoMemoryKeeps ==
    ASSUME Sharing, SharedIInv, NEW p \in Proc, NEW k \in Ids, OpenNoMemory(p, k) PROVE SharedIInv'
<1>i. TypeOK /\ Openers /\ OneEntry /\ CountsUsers /\ Private
    BY DEF SharedIInv
<1>1. PICK e \in Entries : id[e] = 0 /\ id' = [id EXCEPT ![e] = k]
    BY DEF OpenNoMemory, IsFirst, WithId
<1>2. /\ UNCHANGED <<state, pt, shmemaddr, using, n_access, physicalAddr, free>>
      /\ \A i \in Entries : id[i] # k
    BY DEF OpenNoMemory, WithId
<1>3. k # 0 /\ id'[e] = k /\ \A i \in Entries \ {e} : id'[i] = id[i]
    BY <1>i, <1>1 DEF TypeOK, Sharing
<1>4. TypeOK'
    BY <1>i, <1>1, <1>2 DEF TypeOK
<1>5. Openers'
    BY <1>i, <1>1, <1>2, <1>3 DEF Openers
<1>6. OneEntry'
    BY <1>i, <1>1, <1>2, <1>3 DEF OneEntry
<1>7. CountsUsers'
    <2> SUFFICES ASSUME NEW i \in Entries, id'[i] # 0
                 PROVE  n_access'[i] = Cardinality({q \in Proc : using'[q] = id'[i]})
        BY DEF CountsUsers, Users
    <2>1. CASE i = e
        <3>1. {q \in Proc : using'[q] = k} = {}
            BY <1>i, <1>2, <1>3 DEF Openers
        <3>2. n_access'[i] = 0
            BY <1>i, <1>1, <1>2, <2>1 DEF OneEntry
        <3> QED
            BY <1>3, <2>1, <3>1, <3>2, FS_EmptySet
    <2>2. CASE i # e
        BY <1>i, <1>2, <1>3, <2>2 DEF CountsUsers, Users
    <2> QED
        BY <2>1, <2>2
<1>8. Private'
    BY <1>i, <1>2 DEF Private, Shared
<1> QED
    BY <1>4, <1>5, <1>6, <1>7, <1>8 DEF SharedIInv

\* The last close gives up the id, an earlier one leaves it to the other users.
LEMMA CloseKeeps ==
    ASSUME Sharing, SharedIInv, NEW p \in Proc, NEW k \in Ids, Close(p, k) PROVE SharedIInv'
<1>i. TypeOK /\ Openers /\ OneEntry /\ CountsUsers /\ Private
    BY DEF SharedIInv
<1>0. PICK e \in Entries :
        /\ id[e] = k /\ n_access' = [n_access EXCEPT ![e] = @ - 1]
        /\ id' = [id EXCEPT ![e] = IF n_access[e] = 1 THEN 0 ELSE k]
    BY DEF Close, IsFirst, WithId, IdAfterClose
<1> DEFINE a == shmemaddr[p]
           s == [j \in DOMAIN pt[p] |-> IF j = a THEN Hole ELSE pt[p][j]]
<1>1. /\ pt' = [pt EXCEPT ![p] = s] /\ k # 0 /\ using[p] = k
      /\ using' = [using EXCEPT ![p] = 0]
      /\ UNCHANGED <<state, shmemaddr, physicalAddr, free>>
    <2>1. pt' = [pt EXCEPT ![p] = s]
        BY <1>i DEF Close, CloseAt, TypeOK
    <2>2. k # 0 /\ using[p] = k
        BY DEF Close, MayClose, Sharing
    <2> QED
        BY <1>i, <2>1, <2>2 DEF Close, TypeOK
<1>2. /\ pt'[p] = s /\ using'[p] = 0
      /\ \A q \in Proc \ {p} : pt'[q] = pt[q] /\ using'[q] = using[q]
    BY <1>i, <1>1 DEF TypeOK
<1>4. /\ IsFiniteSet(Users(k)) /\ p \in Users(k)
      /\ n_access[e] = Cardinality(Users(k)) /\ n_access[e] >= 1
      /\ Cardinality(Users(k) \ {p}) = n_access[e] - 1 /\ IsFiniteSet(Users(k) \ {p})
    <2>1. IsFiniteSet(Users(k)) /\ p \in Users(k)
        BY <1>1, FS_Subset DEF Users, Sharing
    <2>2. n_access[e] = Cardinality(Users(k))
        BY <1>i, <1>0, <1>1 DEF CountsUsers
    <2>3. /\ Cardinality(Users(k) \ {p}) = Cardinality(Users(k)) - 1
          /\ IsFiniteSet(Users(k) \ {p})
        BY <2>1, FS_RemoveElement
    <2>4. Cardinality(Users(k) \ {p}) \in Nat /\ Cardinality(Users(k)) \in Nat
        BY <2>1, <2>3, FS_CardinalityType
    <2> QED
        BY <2>1, <2>2, <2>3, <2>4
<1>5. \A q \in Proc \ {p} : using[q] = k => n_access[e] # 1
    <2> SUFFICES ASSUME NEW q \in Proc \ {p}, using[q] = k, n_access[e] = 1 PROVE FALSE
        OBVIOUS
    <2>1. Users(k) \ {p} = {}
        BY <1>4, FS_EmptySet
    <2> QED
        BY <2>1 DEF Users
<1>6. /\ n_access'[e] = n_access[e] - 1 /\ id'[e] = (IF n_access[e] = 1 THEN 0 ELSE k)
      /\ \A i \in Entries \ {e} : id'[i] = id[i] /\ n_access'[i] = n_access[i] /\ id[i] # k
    BY <1>i, <1>0, <1>1 DEF TypeOK, OneEntry
<1>10. TypeOK'
    <2>1. s \in Seq(Frame \cup {Hole, Page0})
        <3>1. PICK n \in Nat : /\ DOMAIN pt[p] = 1..n
                               /\ \A j \in 1..n : pt[p][j] \in Frame \cup {Hole, Page0}
            <4>1. pt[p] \in Seq(Frame \cup {Hole, Page0})
                BY <1>i DEF TypeOK
            <4> QED
                BY <4>1
        <3>2. s \in [1..n -> Frame \cup {Hole, Page0}]
            BY <3>1
        <3> HIDE DEF s
        <3> QED
            BY <3>2
    <2>2. n_access' \in [Entries -> Nat]
        BY <1>i, <1>0, <1>4 DEF TypeOK
    <2>3. pt' \in [Proc -> Seq(Frame \cup {Hole, Page0})]
        <3> HIDE DEF s
        <3> QED
            BY <1>i, <1>1, <2>1 DEF TypeOK
    <2>4. id' \in [Entries -> Ids \cup {0}] /\ using' \in [Proc -> Ids \cup {0}]
        BY <1>i, <1>0, <1>1 DEF TypeOK
    <2> HIDE DEF s
    <2> QED
        BY <1>i, <1>1, <2>2, <2>3, <2>4 DEF TypeOK
<1> HIDE DEF s
<1>11. Openers'
    <2> SUFFICES ASSUME NEW q \in Proc, using'[q] # 0
                 PROVE  /\ state'[q] \in {"user", "fork"} /\ shmemaddr'[q] \in DOMAIN pt'[q]
                        /\ \E i \in Entries : /\ id'[i] = using'[q]
                                              /\ pt'[q][shmemaddr'[q]] = physicalAddr'[i]
        BY DEF Openers
    <2>1. q # p /\ using[q] # 0 /\ pt'[q] = pt[q] /\ using'[q] = using[q]
        BY <1>2
    <2>2. PICK i \in Entries : id[i] = using[q] /\ pt[q][shmemaddr[q]] = physicalAddr[i]
        BY <1>i, <2>1 DEF Openers
    <2>3. id'[i] = id[i]
        BY <1>0, <1>5, <1>6, <2>1, <2>2
    <2> QED
        BY <1>i, <1>1, <2>1, <2>2, <2>3 DEF Openers
<1>12. OneEntry'
    <2> SUFFICES ASSUME NEW i \in Entries
                 PROVE  /\ id'[i] = 0 => n_access'[i] = 0
                        /\ physicalAddr'[i] \notin free'
                        /\ \A j \in Entries :
                             /\ id'[i] = id'[j] /\ id'[i] # 0 => i = j
                             /\ physicalAddr'[i] = physicalAddr'[j] /\ physicalAddr'[i] # Page0
                                  => i = j
        BY DEF OneEntry
    <2>1. id'[i] = 0 => n_access'[i] = 0
        <3>1. CASE i = e
            BY <1>1, <1>6, <3>1
        <3>2. CASE i # e
            BY <1>i, <1>6, <3>2 DEF OneEntry
        <3> QED
            BY <3>1, <3>2
    <2>2. \A j \in Entries : id'[i] = id'[j] /\ id'[i] # 0 => i = j
        BY <1>i, <1>6 DEF OneEntry
    <2> QED
        BY <1>i, <1>1, <2>1, <2>2 DEF OneEntry
<1>13. CountsUsers'
    <2> SUFFICES ASSUME NEW i \in Entries, id'[i] # 0
                 PROVE  n_access'[i] = Cardinality({q \in Proc : using'[q] = id'[i]})
        BY DEF CountsUsers, Users
    <2>1. PICK m : m = id[i]
        OBVIOUS
    <2>2. CASE i = e
        <3>1. {q \in Proc : using'[q] = k} = Users(k) \ {p}
            BY <1>1, <1>2 DEF Users
        <3> QED
            BY <1>4, <1>6, <2>2, <3>1
    <2>3. CASE i # e
        <3>1. id'[i] = m /\ m # 0 /\ m # k /\ n_access'[i] = n_access[i]
            BY <1>6, <2>1, <2>3
        <3>2. {q \in Proc : using'[q] = m} = {q \in Proc : using[q] = m}
            BY <1>1, <1>2, <3>1
        <3>3. n_access[i] = Cardinality({q \in Proc : using[q] = m})
            BY <1>i, <2>1, <3>1 DEF CountsUsers, Users
        <3> QED
            BY <3>1, <3>2, <3>3
    <2> QED
        BY <2>2, <2>3
<1>14. Private'
    <2> SUFFICES ASSUME NEW q \in Proc, NEW i \in DOMAIN pt'[q]
                 PROVE  /\ pt'[q][i] \notin free
                        /\ pt'[q][i] \in Frame /\ ~Shared(q, i)' =>
                             /\ \A g \in Entries : physicalAddr[g] # pt'[q][i]
                             /\ \A r \in Proc : \A j \in DOMAIN pt'[r] :
                                  pt'[r][j] = pt'[q][i] => r = q
        BY <1>1 DEF Private
    <2>0. \A r \in Proc : \A j \in DOMAIN pt'[r] :
            j \in DOMAIN pt[r] /\ (pt'[r][j] = pt[r][j] \/ (pt'[r][j] = Hole /\ r = p /\ j = a))
        BY <1>2 DEF s
    <2>1. CASE pt'[q][i] = Hole
        BY <1>i, <2>1 DEF TypeOK, Sharing
    <2>2. CASE pt'[q][i] # Hole
        <3>1. i \in DOMAIN pt[q] /\ pt'[q][i] = pt[q][i]
            BY <2>0, <2>2
        <3>2. ~Shared(q, i)' => ~Shared(q, i)
            <4>1. CASE q = p
                <5>1. i # a
                    BY <1>2, <2>2, <3>1, <4>1 DEF s
                <5> QED
                    BY <4>1, <5>1 DEF Shared
            <4>2. CASE q # p
                BY <1>1, <1>2, <4>2 DEF Shared
            <4> QED
                BY <4>1, <4>2
        <3>3. ASSUME pt[q][i] \in Frame, ~Shared(q, i)'
              PROVE  /\ \A g \in Entries : physicalAddr[g] # pt[q][i]
                     /\ \A r \in Proc : \A j \in DOMAIN pt'[r] : pt'[r][j] = pt[q][i] => r = q
            <4>1. \A g \in Entries : physicalAddr[g] # pt[q][i]
                BY <1>i, <3>1, <3>2, <3>3 DEF Private
            <4>2. ASSUME NEW r \in Proc, NEW j \in DOMAIN pt'[r], pt'[r][j] = pt[q][i] PROVE r = q
                <5>1. j \in DOMAIN pt[r] /\ pt[r][j] = pt[q][i]
                    BY <2>0, <2>2, <3>1, <4>2
                <5> QED
                    BY <1>i, <3>1, <3>2, <3>3, <5>1 DEF Private
            <4> QED
                BY <4>1, <4>2
        <3>4. pt[q][i] \notin free
            BY <1>i, <3>1 DEF Private
        <3> QED
            BY <3>1, <3>3, <3>4
    <2> QED
        BY <2>1, <2>2
<1> QED
    BY <1>10, <1>11, <1>12, <1>13, <1>14 DEF SharedIInv

-----------------------------------------------------------------------------
(* The invariant *)

\* One process with a private page.
LEMMA SharedInit == ASSUME Sharing, Init PROVE SharedIInv
<1>1. TypeOK
    <2>1. PICK f \in Frame :
            /\ pt = [p \in Proc |-> IF p = First THEN <<f>> ELSE <<>>] /\ free = Frame \ {f}
        BY DEF Init
    <2>2. <<f>> \in Seq(Frame \cup {Hole, Page0}) /\ <<>> \in Seq(Frame \cup {Hole, Page0})
        OBVIOUS
    <2>3. pt \in [Proc -> Seq(Frame \cup {Hole, Page0})] /\ free \subseteq Frame
        BY <2>1, <2>2
    <2>4. shmemaddr \in [Proc -> 1..MaxPages]
        BY DEF Init, Sharing
    <2> QED
        BY <2>3, <2>4 DEF Init, TypeOK, Sharing
<1>2. Openers /\ OneEntry
    BY DEF Init, Openers, OneEntry, Sharing
<1>3. CountsUsers
    BY DEF Init, CountsUsers
<1>4. Private
    BY DEF Init, Private, Sharing
<1> QED
    BY <1>1, <1>2, <1>3, <1>4 DEF SharedIInv

\* No step breaks it.
LEMMA SharedNext == ASSUME Sharing, SharedIInv, [Next]_vars PROVE SharedIInv'
<1>1. CASE UNCHANGED vars
    BY <1>1 DEF vars, table, SharedIInv, TypeOK, Openers, OneEntry, CountsUsers, Users,
                Private, Shared
<1>2. ASSUME NEW p \in Proc, NEW k \in Ids,
             OpenExisting(p, k) \/ OpenNew(p, k) \/ OpenNoMemory(p, k) \/ Close(p, k)
      PROVE  SharedIInv'
    BY <1>2, OpenExistingKeeps, OpenNewKeeps, OpenNoMemoryKeeps, CloseKeeps
<1>3. ASSUME NEW p \in Proc, \/ \E k \in Ids : OpenTableFull(p, k)
                             \/ ExecFail(p)
      PROVE  SharedIInv'
    BY <1>1, <1>3 DEF OpenTableFull, ExecFail
<1>4. ASSUME NEW p \in Proc, \/ Grow(p) \/ CallFork(p) \/ ForkFail(p) \/ Exit(p)
                             \/ Exec(p) \/ Reap(p) \/ \E q \in Proc : Fork(p, q)
      PROVE  SharedIInv'
    BY <1>4, GrowKeeps, StateKeeps, ExecKeeps, ReapKeeps, ForkKeeps
<1> QED
    BY <1>1, <1>2, <1>3, <1>4 DEF Next

\* Programs that behave as sham_test.c does keep the table and their address spaces
\* in order, however open, close, fork, exec, exit and wait interleave and wherever
\* the memory or the table runs out.
THEOREM SharedInvariant == ASSUME Sharing PROVE Spec => []SharedIInv
<1>1. Init => SharedIInv
    BY SharedInit
<1>2. SharedIInv /\ [Next]_vars => SharedIInv'
    BY SharedNext
<1> QED
    BY <1>1, <1>2, PTL DEF Spec

\* Whoever has a page open finds, at the address open_sharedmem() returned, the one
\* frame the table has for its id, and n_access counts the users of an id.
THEOREM SharingIsReal == ASSUME Sharing PROVE Spec => [](SameFrame /\ CountsUsers)
<1>1. ASSUME SharedIInv PROVE SameFrame
    <2> SUFFICES ASSUME NEW p \in Proc, using[p] # 0
                 PROVE  \E i \in Entries : /\ WithId(using[p]) = {i}
                                           /\ pt[p][shmemaddr[p]] = physicalAddr[i]
        BY DEF SameFrame
    <2>1. PICK i \in Entries : id[i] = using[p] /\ pt[p][shmemaddr[p]] = physicalAddr[i]
        BY <1>1 DEF SharedIInv, Openers
    <2>2. WithId(using[p]) = {i}
        BY <1>1, <2>1 DEF SharedIInv, OneEntry, WithId
    <2> QED
        BY <2>1, <2>2
<1>2. SharedIInv => SameFrame /\ CountsUsers
    BY <1>1 DEF SharedIInv
<1> QED
    BY <1>2, SharedInvariant, PTL

\* No address space maps a frame that kalloc() may hand out again, and two address
\* spaces have no frame in common but that of a page both have open.
THEOREM NothingElseIsShared == ASSUME Sharing PROVE Spec => []NoStrayFrame
<1>1. ASSUME SharedIInv PROVE NoStrayFrame
    <2>1. \A p \in Proc : Mapped(p) \cap free = {}
        BY <1>1 DEF SharedIInv, Private, Mapped
    <2>2. ASSUME NEW p \in Proc, NEW q \in Proc, p # q,
                 NEW i \in DOMAIN pt[p], NEW j \in DOMAIN pt[q],
                 pt[p][i] = pt[q][j], pt[p][i] \in Frame
          PROVE  using[p] # 0 /\ using[p] = using[q] /\ i = shmemaddr[p] /\ j = shmemaddr[q]
        <3>1. Shared(p, i) /\ Shared(q, j)
            BY <1>1, <2>2 DEF SharedIInv, Private
        <3>2. PICK e \in Entries : id[e] = using[p] /\ pt[p][i] = physicalAddr[e]
            BY <1>1, <3>1 DEF SharedIInv, Openers, Shared
        <3>3. PICK g \in Entries : id[g] = using[q] /\ pt[q][j] = physicalAddr[g]
            BY <1>1, <3>1 DEF SharedIInv, Openers, Shared
        <3>4. physicalAddr[e] # Page0
            BY <2>2, <3>2 DEF Sharing
        <3>5. e = g
            BY <1>1, <2>2, <3>2, <3>3, <3>4 DEF SharedIInv, OneEntry
        <3> QED
            BY <3>1, <3>2, <3>3, <3>5 DEF Shared
    <2> QED
        BY <2>1, <2>2 DEF NoStrayFrame
<1> QED
    BY <1>1, SharedInvariant, PTL

\* All that shared memory promises to programs.
THEOREM SharedMemoryWorks == ASSUME Sharing PROVE Spec => []SharedPagesAreShared
<1>1. SharedIInv => TypeOK
    BY DEF SharedIInv
<1> QED
    BY <1>1, SharedInvariant, SharingIsReal, NothingElseIsShared, PTL DEF SharedPagesAreShared

-----------------------------------------------------------------------------
(* The reentrant lock of Lab 4 *)

CONSTANTS Nobody, MaxDepth
VARIABLES rlock, depth, inherited

Reentrant == INSTANCE ReentrantLock

\* A process is not nobody, and acquisitions are counted.
Named == First \in Proc /\ Nobody \notin Proc /\ MaxDepth \in Nat

Copy == [locked : BOOLEAN, recursive : Nat, owner : Proc \cup {Nobody}]

ReentrantTypes ==
    /\ rlock \in [Proc -> Copy]
    /\ state \in [Proc -> {"free", "user", "sleeping", "woken"}]
    /\ depth \in [Proc -> Nat]
    /\ inherited \in [Proc -> BOOLEAN]

\* Every copy, also one that fork() has made and one that exit() has left, counts the
\* acquisitions of its program; one that was not inherited is its program's own.
CopiesCount ==
    \A p \in Proc :
        /\ rlock[p].locked <=> depth[p] > 0
        /\ rlock[p].locked => rlock[p].recursive = depth[p]
        /\ ~rlock[p].locked => rlock[p].owner = Nobody
        /\ rlock[p].locked /\ ~inherited[p] => rlock[p].owner = p

\* Who waits has inherited a copy that is locked.
HeirsWait ==
    \A p \in Proc : state[p] \in {"sleeping", "woken"} => inherited[p] /\ rlock[p].locked

ReentrantIInv == ReentrantTypes /\ CopiesCount /\ HeirsWait

\* The lock is free at first.
LEMMA ReentrantInit == ASSUME Named, Reentrant!Init PROVE ReentrantIInv
BY DEF Named, Reentrant!Init, Reentrant!Unlocked, ReentrantIInv, ReentrantTypes, CopiesCount,
       HeirsWait, Copy

\* A process starts over.
LEMMA InitLockKeeps ==
    ASSUME Named, ReentrantIInv, NEW p \in Proc, Reentrant!InitLock(p) PROVE ReentrantIInv'
<1> USE DEF Reentrant!InitLock, Reentrant!Unlocked
<1>1. ReentrantTypes'
    BY DEF ReentrantIInv, ReentrantTypes, Copy
<1>2. CopiesCount'
    BY DEF ReentrantIInv, ReentrantTypes, CopiesCount
<1>3. HeirsWait'
    BY DEF ReentrantIInv, ReentrantTypes, HeirsWait
<1> QED
    BY <1>1, <1>2, <1>3 DEF ReentrantIInv

\* The owner comes in again.
LEMMA AcquireAgainKeeps ==
    ASSUME Named, ReentrantIInv, NEW p \in Proc, Reentrant!AcquireAgain(p) PROVE ReentrantIInv'
<1> USE DEF Reentrant!AcquireAgain, Reentrant!Deeper
<1>1. ReentrantTypes'
    <2>1. rlock[p] \in Copy /\ depth[p] + 1 \in Nat
        BY DEF ReentrantIInv, ReentrantTypes
    <2>2. [rlock[p] EXCEPT !.recursive = @ + 1] \in Copy
        BY <2>1 DEF Copy
    <2>3. rlock' \in [Proc -> Copy]
        BY <2>2 DEF ReentrantIInv, ReentrantTypes
    <2> QED
        BY <2>1, <2>3 DEF ReentrantIInv, ReentrantTypes
<1>2. CopiesCount'
    BY DEF ReentrantIInv, ReentrantTypes, CopiesCount, Reentrant!Reenters
<1>3. HeirsWait'
    BY DEF ReentrantIInv, ReentrantTypes, HeirsWait
<1> QED
    BY <1>1, <1>2, <1>3 DEF ReentrantIInv

\* Another waits, if there is an owner.
LEMMA AcquireOrSleepKeeps ==
    ASSUME Named, ReentrantIInv, NEW p \in Proc, Reentrant!AcquireOrSleep(p)
    PROVE  ReentrantIInv'
<1> USE DEF Reentrant!AcquireOrSleep, Reentrant!Deeper, Reentrant!Blocked
<1>1. ReentrantTypes'
    <2>1. [locked |-> TRUE, recursive |-> 1, owner |-> p] \in Copy
        BY DEF Copy
    <2>2. depth[p] + 1 \in Nat
        BY DEF ReentrantIInv, ReentrantTypes
    <2>3. rlock' \in [Proc -> Copy]
        BY <2>1 DEF ReentrantIInv, ReentrantTypes
    <2>4. depth' \in [Proc -> Nat]
        BY <2>2 DEF ReentrantIInv, ReentrantTypes
    <2> QED
        BY <2>3, <2>4 DEF ReentrantIInv, ReentrantTypes
<1>2. CopiesCount'
    BY DEF ReentrantIInv, ReentrantTypes, CopiesCount
<1>3. HeirsWait'
    BY DEF ReentrantIInv, ReentrantTypes, HeirsWait, CopiesCount, Reentrant!Reenters
<1> QED
    BY <1>1, <1>2, <1>3 DEF ReentrantIInv

\* The last release of the owner opens its copy.
LEMMA ReleaseKeeps ==
    ASSUME Named, ReentrantIInv, NEW p \in Proc, Reentrant!Release(p) PROVE ReentrantIInv'
<1> DEFINE less == Reentrant!OneLess(rlock[p])
<1>1. rlock[p] \in Copy /\ rlock[p].locked /\ rlock[p].recursive = depth[p] /\ depth[p] > 0
    BY DEF ReentrantIInv, ReentrantTypes, CopiesCount, Named, Reentrant!Release
<1>2. depth[p] - 1 \in Nat /\ Reentrant!Unlocked \in Copy
    BY <1>1 DEF ReentrantIInv, ReentrantTypes, Reentrant!Unlocked, Copy
<1>3. /\ less \in Copy /\ less.locked /\ less.owner = rlock[p].owner
      /\ less.recursive = depth[p] - 1
    BY <1>1, <1>2 DEF Reentrant!OneLess, Copy
<1> HIDE DEF less
<1>4. /\ rlock' = [rlock EXCEPT ![p] = IF rlock[p].recursive = 1 THEN Reentrant!Unlocked
                                      ELSE less]
      /\ inherited' = inherited
      /\ state' = [q \in Proc |-> IF rlock[p].recursive = 1 /\ state[q] = "sleeping"
                                  THEN "woken" ELSE state[q]]
    BY DEF Reentrant!Release, Reentrant!LastRelease, less
<1>5. depth' = [depth EXCEPT ![p] = depth[p] - 1]
    <2>1. depth[p] # 0
        BY <1>1
    <2> QED
        BY <2>1 DEF Reentrant!Release
<1>6. ReentrantTypes'
    BY <1>2, <1>3, <1>4, <1>5 DEF ReentrantIInv, ReentrantTypes
<1>7. CopiesCount'
    BY <1>1, <1>2, <1>3, <1>4, <1>5
       DEF ReentrantIInv, ReentrantTypes, CopiesCount, Reentrant!Unlocked
<1>8. HeirsWait'
    <2>1. state[p] = "user"
        BY DEF Reentrant!Release
    <2> QED
        BY <1>4, <2>1 DEF ReentrantIInv, ReentrantTypes, HeirsWait
<1> QED
    BY <1>6, <1>7, <1>8 DEF ReentrantIInv

\* fork() copies the lock, exit() leaves it, and a sleeper that kill() wakes looks again.
LEMMA ForkExitKillKeep ==
    ASSUME Named, ReentrantIInv, NEW p \in Proc, NEW child \in Proc,
           Reentrant!Fork(p, child) \/ Reentrant!Exit(p) \/ Reentrant!Kill(p)
    PROVE  ReentrantIInv'
<1> USE DEF Reentrant!Fork, Reentrant!Exit, Reentrant!Kill
<1>1. ReentrantTypes'
    BY DEF ReentrantIInv, ReentrantTypes, Copy
<1>2. CopiesCount'
    BY DEF ReentrantIInv, ReentrantTypes, CopiesCount
<1>3. HeirsWait'
    BY DEF ReentrantIInv, ReentrantTypes, HeirsWait
<1> QED
    BY <1>1, <1>2, <1>3 DEF ReentrantIInv

\* Every step keeps the counts.
LEMMA ReentrantNext == ASSUME Named, ReentrantIInv, [Reentrant!Next]_Reentrant!vars
                       PROVE  ReentrantIInv'
<1>1. CASE UNCHANGED Reentrant!vars
    BY <1>1 DEF Reentrant!vars, ReentrantIInv, ReentrantTypes, CopiesCount, HeirsWait
<1>2. CASE Reentrant!Next
    BY <1>2, InitLockKeeps, AcquireAgainKeeps, AcquireOrSleepKeeps, ReleaseKeeps,
       ForkExitKillKeep DEF Reentrant!Next
<1> QED
    BY <1>1, <1>2

\* A process that waits inherited a locked copy, which only it could open.
LEMMA WaitsOn == ASSUME Named, ReentrantIInv, [Reentrant!Next]_Reentrant!vars
                 PROVE  Reentrant!StillWaits
<1> SUFFICES ASSUME NEW q \in Proc, state[q] \in {"sleeping", "woken"}
             PROVE  state'[q] \in {"sleeping", "woken"}
    BY DEF Reentrant!StillWaits
<1>1. rlock[q].locked
    BY DEF ReentrantIInv, HeirsWait
<1>2. CASE UNCHANGED Reentrant!vars
    BY <1>2 DEF Reentrant!vars
<1>3. ASSUME NEW p \in Proc, Reentrant!AcquireOrSleep(p) PROVE state'[q] \in {"sleeping", "woken"}
    BY <1>1, <1>3 DEF Reentrant!AcquireOrSleep, Reentrant!Blocked, ReentrantIInv, ReentrantTypes
<1>4. ASSUME NEW p \in Proc, NEW child \in Proc,
             \/ Reentrant!InitLock(p) \/ Reentrant!AcquireAgain(p) \/ Reentrant!Release(p)
             \/ Reentrant!Kill(p) \/ Reentrant!Fork(p, child) \/ Reentrant!Exit(p)
      PROVE  state'[q] \in {"sleeping", "woken"}
    BY <1>4 DEF Reentrant!InitLock, Reentrant!AcquireAgain, Reentrant!Release, Reentrant!Kill,
       Reentrant!Fork, Reentrant!Exit, ReentrantIInv, ReentrantTypes
<1> QED
    BY <1>2, <1>3, <1>4 DEF Reentrant!Next

\* A reentrant lock counts its owner's acquisitions, exactly: its owner never waits for
\* it, whatever others do with theirs at the same address; only an heir does.
THEOREM ReentrantCounts ==
    ASSUME Named
    PROVE  Reentrant!Spec => [](Reentrant!DepthMatches /\ Reentrant!OnlyHeirsSleep)
<1>1. Reentrant!Init => ReentrantIInv
    BY ReentrantInit
<1>2. ReentrantIInv /\ [Reentrant!Next]_Reentrant!vars => ReentrantIInv'
    BY ReentrantNext
<1>3. ReentrantIInv => Reentrant!DepthMatches /\ Reentrant!OnlyHeirsSleep
    BY DEF ReentrantIInv, CopiesCount, HeirsWait, Reentrant!DepthMatches,
       Reentrant!OnlyHeirsSleep
<1> QED
    BY <1>1, <1>2, <1>3, PTL DEF Reentrant!Spec

\* A child that waits for the lock it inherited waits for ever.
THEOREM HeirsWaitForEver == ASSUME Named PROVE Reentrant!Spec => Reentrant!HeirsNeverWake
<1>1. Reentrant!Init => ReentrantIInv
    BY ReentrantInit
<1>2. ReentrantIInv /\ [Reentrant!Next]_Reentrant!vars => ReentrantIInv'
    BY ReentrantNext
<1>3. ReentrantIInv /\ [Reentrant!Next]_Reentrant!vars => [Reentrant!StillWaits]_Reentrant!vars
    BY WaitsOn
<1> QED
    BY <1>1, <1>2, <1>3, PTL DEF Reentrant!Spec, Reentrant!HeirsNeverWake

-----------------------------------------------------------------------------
(* The clock *)

CONSTANTS Sleepers, WRAP, Naps, MaxTicks
VARIABLES ticks, tickslock, ptablelock, timer, pc, n, ticks0, killed, ret, total, since

Clock == INSTANCE Clock WITH Proc <- Sleepers

\* Processes are told from the timer and from nobody; a nap is an int.
Ticking == Sleepers \cap {-1, 0} = {} /\ WRAP \in Nat \ {0} /\ Naps \subseteq Int

ClockTypes ==
    /\ ticks \in 0..(WRAP - 1) /\ total \in Nat
    /\ tickslock \in Sleepers \cup {-1, 0} /\ ptablelock \in Sleepers \cup {-1}
    /\ timer \in {"idle", "wakeup"}
    /\ pc \in [Sleepers -> {"user", "check", "sleep", "locked", "sched", "asleep", "awake"}]
    /\ n \in [Sleepers -> Int] /\ ticks0 \in [Sleepers -> 0..(WRAP - 1)]
    /\ since \in [Sleepers -> Nat]
    /\ ret \in [Sleepers -> {-1, 0, 1}]

\* The ticks of a call that has begun are the real time, but for turns of the counter.
TicksTellTime ==
    \A p \in Sleepers :
        /\ since[p] <= total
        /\ pc[p] # "user" => \E k \in Int : ticks - ticks0[p] = total - since[p] + WRAP * k

\* The locks that sys_sleep() and sleep() hold, and what they know by them: who is on
\* its way to sleep has still to wait, unless a wakeup() is waiting for ptable.lock.
AsleepInTime ==
    /\ timer = "wakeup" => tickslock = 0
    /\ \A p \in Sleepers :
        /\ pc[p] \in {"check", "sleep", "locked"} => tickslock = p
        /\ pc[p] \in {"locked", "sched"} => ptablelock = p
        /\ pc[p] \in {"sleep", "locked"} => Clock!Early(p)
        /\ pc[p] \in {"sched", "asleep"} /\ timer = "idle" => Clock!Early(p)

ClockIInv == ClockTypes /\ TicksTellTime /\ AsleepInTime /\ Clock!SleepsLongEnough

\* A multiple of WRAP is not between 0 and WRAP.
LEMMA Turns == ASSUME Ticking, NEW k \in Int
               PROVE  (k >= 1 => WRAP * k >= WRAP) /\ (k <= 0 => WRAP * k <= 0)
<1>1. k >= 1 => WRAP * (k - 1) >= 0
    BY DEF Ticking
<1>2. WRAP * (k - 1) = WRAP * k - WRAP
    BY DEF Ticking
<1>3. k <= 0 => WRAP * (0 - k) >= 0
    BY DEF Ticking
<1>4. WRAP * (0 - k) = 0 - WRAP * k /\ WRAP * k \in Int
    BY DEF Ticking
<1> QED
    BY <1>1, <1>2, <1>3, <1>4 DEF Ticking

\* The counter after one more tick.
LEMMA OneMore == ASSUME Ticking, NEW x \in 0..(WRAP - 1)
                 PROVE  (x + 1) % WRAP = IF x = WRAP - 1 THEN 0 ELSE x + 1
<1>1. \A y \in 0..(WRAP - 1) : y % WRAP = y
    BY DEF Ticking
<1>2. WRAP % WRAP = 0
    BY DEF Ticking
<1> QED
    BY <1>1, <1>2 DEF Ticking

\* A difference of counter readings never exceeds the time between them.
LEMMA NoMoreThanTime ==
    ASSUME Ticking, NEW d \in Int, NEW e \in Nat, NEW k \in Int, d = e + WRAP * k
    PROVE  d % WRAP \in Nat /\ d % WRAP <= e
<1> DEFINE q == d \div WRAP
<1>1. d = WRAP * q + (d % WRAP) /\ d % WRAP \in 0..(WRAP - 1) /\ q \in Int
    BY DEF Ticking
<1> HIDE DEF q
<1>2. PICK r \in 0..(WRAP - 1) : r = d % WRAP
    BY <1>1
<1>3. WRAP * (k - q) = WRAP * k - WRAP * q /\ WRAP * k \in Int /\ WRAP * q \in Int
    BY <1>1 DEF Ticking
<1>4. r = e + WRAP * (k - q)
    BY <1>1, <1>2, <1>3
<1>5. k - q <= 0 => WRAP * (k - q) <= 0
    BY <1>1, Turns
<1>6. k - q >= 1 => WRAP * (k - q) >= WRAP
    BY <1>1, Turns
<1>7. WRAP * (k - q) \in Int /\ k - q \in Int
    BY <1>1 DEF Ticking
<1>8. PICK m \in Int, u \in Int : m = k - q /\ u = WRAP * m
    BY <1>7
<1> QED
    BY <1>2, <1>4, <1>5, <1>6, <1>8 DEF Ticking

\* Nobody sleeps at first.
LEMMA ClockInit == ASSUME Ticking, Clock!Init PROVE ClockIInv
BY DEF Ticking, Clock!Init, Clock!Nobody, ClockIInv, ClockTypes, TicksTellTime, AsleepInTime,
       Clock!SleepsLongEnough

\* The timer interrupt ticks, which may wrap the counter.
LEMMA TickKeeps == ASSUME Ticking, ClockIInv, Clock!Tick PROVE ClockIInv'
<1> USE DEF Clock!Tick, Clock!TIMER, Clock!Nobody
<1>0. ticks' = IF ticks = WRAP - 1 THEN 0 ELSE ticks + 1
    BY OneMore DEF ClockIInv, ClockTypes
<1>1. ClockTypes'
    BY <1>0 DEF Ticking, ClockIInv, ClockTypes
<1>2. TicksTellTime'
    <2> SUFFICES ASSUME NEW p \in Sleepers
                 PROVE  /\ since'[p] <= total'
                        /\ pc'[p] # "user" =>
                             \E k \in Int : ticks' - ticks0'[p] = total' - since'[p] + WRAP * k
        BY DEF TicksTellTime
    <2>1. since'[p] <= total'
        BY DEF ClockIInv, ClockTypes, TicksTellTime
    <2>2. ASSUME pc[p] # "user"
          PROVE  \E k \in Int : ticks' - ticks0'[p] = total' - since'[p] + WRAP * k
        <3>1. PICK k \in Int : ticks - ticks0[p] = total - since[p] + WRAP * k
            BY <2>2 DEF ClockIInv, TicksTellTime
        <3>2. WRAP * (k - 1) = WRAP * k - WRAP /\ WRAP * k \in Int
            BY DEF Ticking
        <3>3. ticks \in Int /\ total \in Int /\ ticks0[p] \in Int /\ since[p] \in Int
            BY DEF ClockIInv, ClockTypes
        <3>4. CASE ticks = WRAP - 1
            <4>1. ticks' - ticks0[p] = total' - since[p] + WRAP * (k - 1)
                BY <1>0, <3>1, <3>2, <3>3, <3>4 DEF Ticking
            <4> QED
                BY <4>1
        <3>5. CASE ticks # WRAP - 1
            BY <1>0, <3>1, <3>2, <3>3, <3>5
        <3> QED
            BY <3>4, <3>5
    <2> QED
        BY <2>1, <2>2
<1>3. AsleepInTime'
    BY DEF Ticking, ClockIInv, ClockTypes, AsleepInTime
<1>4. Clock!SleepsLongEnough'
    <2>1. \A p \in Sleepers : n[p] % WRAP \in Nat
        BY DEF ClockIInv, ClockTypes, Ticking
    <2> QED
        BY <2>1 DEF ClockIInv, ClockTypes, Clock!SleepsLongEnough
<1> QED
    BY <1>1, <1>2, <1>3, <1>4 DEF ClockIInv

\* wakeup(), kill() and the steps of sleep() leave the time of a call alone.
LEMMA SameTime ==
    ASSUME ClockIInv, UNCHANGED <<ticks, total, n, ticks0, since, ret>>,
           \A p \in Sleepers : pc'[p] = "user" <=> pc[p] = "user"
    PROVE  /\ TicksTellTime' /\ Clock!SleepsLongEnough'
           /\ \A p \in Sleepers : Clock!Early(p)' = Clock!Early(p)
BY DEF ClockIInv, TicksTellTime, Clock!SleepsLongEnough, Clock!Early

\* wakeup() finds nobody on the way to sleep.
LEMMA WakeupKeeps == ASSUME Ticking, ClockIInv, Clock!Wakeup PROVE ClockIInv'
<1> USE DEF Clock!Wakeup, Clock!TIMER, Clock!Nobody
<1>1. ClockTypes'
    BY DEF Ticking, ClockIInv, ClockTypes
<1>2. \A p \in Sleepers : pc'[p] = IF pc[p] = "asleep" THEN "awake" ELSE pc[p]
    OBVIOUS
<1>3. /\ TicksTellTime' /\ Clock!SleepsLongEnough'
      /\ \A p \in Sleepers : Clock!Early(p)' = Clock!Early(p)
    BY <1>2, SameTime
<1>4. AsleepInTime'
    BY <1>2, <1>3 DEF Ticking, ClockIInv, ClockTypes, AsleepInTime
<1> QED
    BY <1>1, <1>3, <1>4 DEF ClockIInv

\* sleep() lets go of tickslock when it has ptable.lock; kill() needs ptable.lock too.
LEMMA SleepKeeps ==
    ASSUME Ticking, ClockIInv, NEW p \in Sleepers,
           \/ Clock!SleepAcquire(p) \/ Clock!SleepRelease(p) \/ Clock!Sched(p)
           \/ Clock!Reacquire(p) \/ Clock!Kill(p)
    PROVE  ClockIInv'
<1> USE DEF Clock!SleepAcquire, Clock!SleepRelease, Clock!Sched, Clock!Reacquire, Clock!Kill,
            Clock!Goto, Clock!LetsGo, Clock!Nobody
<1>1. ClockTypes'
    BY DEF ClockIInv, ClockTypes
<1>2. UNCHANGED <<ticks, total, n, ticks0, since, ret, timer>>
    OBVIOUS
<1>3. \A q \in Sleepers : q # p => pc'[q] = pc[q]
    BY DEF ClockIInv, ClockTypes
<1>4. pc'[p] = "user" <=> pc[p] = "user"
    BY DEF ClockIInv, ClockTypes
<1>5. /\ TicksTellTime' /\ Clock!SleepsLongEnough'
      /\ \A q \in Sleepers : Clock!Early(q)' = Clock!Early(q)
    BY <1>2, <1>3, <1>4, SameTime
<1>6. AsleepInTime'
    BY <1>2, <1>5 DEF Ticking, ClockIInv, ClockTypes, AsleepInTime
<1> QED
    BY <1>1, <1>5, <1>6 DEF ClockIInv

\* A call begins with the time of the counter.
LEMMA CallKeeps ==
    ASSUME Ticking, ClockIInv, NEW p \in Sleepers, NEW nap \in Naps, Clock!Call(p, nap)
    PROVE  ClockIInv'
<1> USE DEF Clock!Call, Clock!Goto, Clock!Nobody
<1>1. ClockTypes'
    BY DEF Ticking, ClockIInv, ClockTypes
<1>2. TicksTellTime'
    <2>1. ticks - ticks = total - total + WRAP * 0
        BY DEF Ticking, ClockIInv, ClockTypes
    <2>2. \A q \in Sleepers : q # p => /\ pc'[q] = pc[q] /\ since'[q] = since[q]
                                   /\ ticks0'[q] = ticks0[q]
        BY DEF ClockIInv, ClockTypes
    <2>3. since'[p] = total /\ ticks0'[p] = ticks
        BY DEF ClockIInv, ClockTypes
    <2>4. total <= total
        BY DEF ClockIInv, ClockTypes
    <2> QED
        BY <2>1, <2>2, <2>3, <2>4 DEF ClockIInv, TicksTellTime
<1>3. AsleepInTime'
    BY DEF Ticking, ClockIInv, ClockTypes, AsleepInTime, Clock!Early
<1>4. Clock!SleepsLongEnough'
    BY DEF ClockIInv, ClockTypes, Clock!SleepsLongEnough
<1> QED
    BY <1>1, <1>2, <1>3, <1>4 DEF ClockIInv

\* The test of sys_sleep(): the ticks that have gone by are no more than the time.
LEMMA CheckKeeps == ASSUME Ticking, ClockIInv, NEW p \in Sleepers, Clock!Check(p) PROVE ClockIInv'
<1> USE DEF Clock!Check, Clock!Goto, Clock!Nobody
<1>1. ClockTypes'
    BY DEF Ticking, ClockIInv, ClockTypes
<1>2. TicksTellTime'
    BY DEF ClockIInv, ClockTypes, TicksTellTime
<1>3. AsleepInTime'
    BY DEF Ticking, ClockIInv, ClockTypes, AsleepInTime, Clock!Early
<1>4. Clock!SleepsLongEnough'
    <2>1. ASSUME ~Clock!Early(p) PROVE total >= since[p] + (n[p] % WRAP)
        <3>1. PICK k \in Int : ticks - ticks0[p] = total - since[p] + WRAP * k
            BY DEF ClockIInv, TicksTellTime
        <3>2. ticks - ticks0[p] \in Int /\ total - since[p] \in Nat
            BY DEF ClockIInv, ClockTypes, TicksTellTime
        <3>3. /\ (ticks - ticks0[p]) % WRAP \in Nat
              /\ (ticks - ticks0[p]) % WRAP <= total - since[p]
            BY <3>1, <3>2, NoMoreThanTime
        <3>4. n[p] % WRAP \in Nat
            BY DEF Ticking, ClockIInv, ClockTypes
        <3>5. n[p] % WRAP <= (ticks - ticks0[p]) % WRAP
            BY <2>1, <3>3, <3>4 DEF Clock!Early
        <3> QED
            BY <3>3, <3>4, <3>5 DEF ClockIInv, ClockTypes
    <2>2. ret' = ret \/ ret' = [ret EXCEPT ![p] = IF Clock!Early(p) THEN -1 ELSE 0]
        OBVIOUS
    <2> QED
        BY <2>1, <2>2 DEF ClockIInv, ClockTypes, Clock!SleepsLongEnough
<1> QED
    BY <1>1, <1>2, <1>3, <1>4 DEF ClockIInv

\* So does every step.
LEMMA ClockNext == ASSUME Ticking, ClockIInv, [Clock!Next]_Clock!vars PROVE ClockIInv'
<1>1. CASE UNCHANGED Clock!vars
    BY <1>1 DEF Clock!vars, ClockIInv, ClockTypes, TicksTellTime, AsleepInTime, Clock!Early,
       Clock!SleepsLongEnough
<1>2. CASE Clock!Next
    BY <1>2, TickKeeps, WakeupKeeps, SleepKeeps, CallKeeps, CheckKeeps DEF Clock!Next
<1> QED
    BY <1>1, <1>2

\* sleep(n) lasts n ticks, however often the counter wraps meanwhile, and no tick
\* between its test and its sleep is missed.
THEOREM SleepIsLongEnough ==
    ASSUME Ticking
    PROVE  Clock!Spec => []Clock!SleepsItsTicks
<1>1. Clock!Init => ClockIInv
    BY ClockInit
<1>2. ClockIInv /\ [Clock!Next]_Clock!vars => ClockIInv'
    BY ClockNext
<1>3. ClockIInv => Clock!SleepsItsTicks
    BY DEF ClockIInv, AsleepInTime, Clock!SleepsItsTicks, Clock!NoTickIsMissed
<1> QED
    BY <1>1, <1>2, <1>3, PTL DEF Clock!Spec

-----------------------------------------------------------------------------
(* Spin locks *)

CONSTANTS CPU, NLOCK, MaxFrames
VARIABLES locked, cpu, ncli, intena, IF_, eflags, stack, panicked

Spin == INSTANCE SpinLock WITH MaxDepth <- MaxFrames

\* No CPU is NOCPU, and locks are numbered.
Numbered == 0 \notin CPU /\ NLOCK \in Nat

\* Where code runs with an acquire() or release() half done.
Critical == {"xchg", "own", "erase", "open", "popcli"}
Code == [pc : {"run", "cli"} \cup Critical, lk : Nat, held : SUBSET (1..NLOCK), saved : BOOLEAN]

SpinTypes ==
    /\ locked \in [1..NLOCK -> BOOLEAN] /\ cpu \in [1..NLOCK -> CPU \cup {0}]
    /\ ncli \in [CPU -> Nat]
    /\ intena \in [CPU -> BOOLEAN] /\ IF_ \in [CPU -> BOOLEAN] /\ eflags \in [CPU -> BOOLEAN]
    /\ stack \in [CPU -> Seq(Code)] /\ \A c \in CPU : Len(stack[c]) >= 1
    /\ panicked = "no"

\* The code that a CPU runs.
Runs(c) == stack[c][1]

\* Locks are taken in order, and the one that is given back is no longer held.
InOrder(f) ==
    /\ f.pc \in {"cli", "xchg", "own", "erase", "open"} => f.lk \in 1..NLOCK
    /\ f.pc \in {"cli", "xchg", "own"} => \A m \in f.held : m < f.lk
    /\ f.pc \in {"erase", "open"} => f.lk \notin f.held

\* Code is interrupted only where it holds no lock.
Interrupted ==
    \A c \in CPU : \A k \in 2..Len(stack[c]) :
        /\ stack[c][k].held = {} /\ stack[c][k].saved
        /\ stack[c][k].pc \in {"run", "cli"} /\ InOrder(stack[c][k])

\* pushcli() has been called for each lock that is held, taken or given back.
Depth(f) == Cardinality(f.held) + (IF f.pc \in Critical THEN 1 ELSE 0)
Nesting == \A c \in CPU : ncli[c] = Depth(Runs(c))

\* The interrupt flag is off while there is such a lock, and as it was otherwise.
Flags ==
    \A c \in CPU :
        /\ IF_[c] <=> ncli[c] = 0 /\ Runs(c).saved
        /\ ncli[c] # 0 => (intena[c] <=> Runs(c).saved)
        /\ ncli[c] = 0 /\ Runs(c).pc = "cli" => (eflags[c] <=> Runs(c).saved)

\* f has lock l and its CPU is written in it, or not yet, or no longer.
Owns(f, l) == l \in f.held \/ (f.pc = "erase" /\ f.lk = l)
Takes(f, l) == f.pc \in {"own", "open"} /\ f.lk = l

\* A lock is locked for one, and its field cpu is right about who that is.
Owners ==
    \A l \in 1..NLOCK : \A c \in CPU :
        /\ cpu[l] = c <=> Owns(Runs(c), l)
        /\ Owns(Runs(c), l) => locked[l]
        /\ Takes(Runs(c), l) => locked[l] /\ cpu[l] = 0
        /\ \A d \in CPU : Takes(Runs(c), l) /\ Takes(Runs(d), l) => c = d

\* Each CPU keeps to that order.
Ordered == \A c \in CPU : InOrder(Runs(c))

SpinIInv == SpinTypes /\ Interrupted /\ Nesting /\ Flags /\ Owners /\ Ordered

-----------------------------------------------------------------------------

\* What is at each place of a stack that a frame is pushed on.
LEMMA Pushed ==
    ASSUME NEW S, NEW s \in Seq(S), NEW f \in S
    PROVE  \E t \in Seq(S) : /\ t = <<f>> \o s /\ Len(t) = Len(s) + 1 /\ t[1] = f
                             /\ \A k \in 2..Len(t) : t[k] = s[k - 1] /\ k - 1 \in 1..Len(s)
<1> DEFINE t == <<f>> \o s
<1>1. <<f>> \in Seq(S) /\ Len(<<f>>) = 1 /\ <<f>>[1] = f
    OBVIOUS
<1>2. t \in Seq(S) /\ Len(t) = Len(s) + 1
    BY <1>1
<1>3. t[1] = f
    BY <1>1
<1>4. ASSUME NEW k \in 2..Len(t) PROVE t[k] = s[k - 1] /\ k - 1 \in 1..Len(s)
    BY <1>1, <1>2
<1> QED
    BY <1>2, <1>3, <1>4

\* What is left when one is popped.
LEMMA Popped ==
    ASSUME NEW S, NEW s \in Seq(S), Len(s) > 1
    PROVE  \E t \in Seq(S) : /\ t = Tail(s) /\ Len(t) = Len(s) - 1
                             /\ \A k \in 1..Len(t) : t[k] = s[k + 1] /\ k + 1 \in 2..Len(s)
<1> DEFINE t == Tail(s)
<1>1. t \in Seq(S) /\ Len(t) = Len(s) - 1
    OBVIOUS
<1>2. ASSUME NEW k \in 1..Len(t) PROVE t[k] = s[k + 1] /\ k + 1 \in 2..Len(s)
    BY <1>1
<1> QED
    BY <1>1, <1>2

\* Sets of locks are finite.
LEMMA Holdings ==
    ASSUME Numbered, NEW h \in SUBSET (1..NLOCK)
    PROVE  /\ Cardinality(h) \in Nat /\ (Cardinality(h) = 0 <=> h = {})
           /\ \A l \in 1..NLOCK \ h : Cardinality(h \cup {l}) = Cardinality(h) + 1
           /\ \A l \in h : Cardinality(h \ {l}) = Cardinality(h) - 1
<1>1. IsFiniteSet(h)
    <2>1. IsFiniteSet(1..NLOCK)
        BY FS_Interval DEF Numbered
    <2> QED
        BY <2>1, FS_Subset
<1> QED
    BY <1>1, FS_CardinalityType, FS_EmptySet, FS_AddElement, FS_RemoveElement

\* The code that runs goes on, and nobody else.
LEMMA GoesOn ==
    ASSUME SpinTypes, NEW c \in CPU, NEW f \in Code, stack' = [stack EXCEPT ![c][1] = f]
    PROVE  /\ stack' \in [CPU -> Seq(Code)]
           /\ \A d \in CPU : Len(stack'[d]) = Len(stack[d])
           /\ \A d \in CPU \ {c} : stack'[d] = stack[d]
           /\ stack'[c][1] = f
           /\ \A k \in 2..Len(stack[c]) : stack'[c][k] = stack[c][k]
<1>1. PICK s \in Seq(Code) : s = stack[c] /\ Len(s) >= 1
    BY DEF SpinTypes
<1>2. PICK t : t = [s EXCEPT ![1] = f]
    OBVIOUS
<1>3. t \in Seq(Code) /\ Len(t) = Len(s) /\ t[1] = f /\ \A k \in 2..Len(s) : t[k] = s[k]
    BY <1>1, <1>2
<1>4. stack' = [stack EXCEPT ![c] = t]
    BY <1>1, <1>2
<1> QED
    BY <1>1, <1>3, <1>4 DEF SpinTypes

\* What a step of the code that CPU c runs has to keep.
LEMMA StepOf ==
    ASSUME Numbered, SpinIInv, NEW c \in CPU, NEW f \in Code,
           stack' = [stack EXCEPT ![c][1] = f], panicked' = panicked,
           locked' \in [1..NLOCK -> BOOLEAN], cpu' \in [1..NLOCK -> CPU \cup {0}],
           ncli' \in [CPU -> Nat], intena' \in [CPU -> BOOLEAN],
           IF_' \in [CPU -> BOOLEAN], eflags' \in [CPU -> BOOLEAN],
           \A d \in CPU \ {c} : /\ ncli'[d] = ncli[d] /\ intena'[d] = intena[d]
                                /\ IF_'[d] = IF_[d] /\ eflags'[d] = eflags[d],
           ncli'[c] = Depth(f), IF_'[c] <=> ncli'[c] = 0 /\ f.saved,
           ncli'[c] # 0 => (intena'[c] <=> f.saved),
           ncli'[c] = 0 /\ f.pc = "cli" => (eflags'[c] <=> f.saved),
           InOrder(f), Owners'
    PROVE  SpinIInv'
<1>1. /\ stack' \in [CPU -> Seq(Code)]
      /\ \A d \in CPU : Len(stack'[d]) = Len(stack[d])
      /\ \A d \in CPU \ {c} : stack'[d] = stack[d]
      /\ stack'[c][1] = f
      /\ \A k \in 2..Len(stack[c]) : stack'[c][k] = stack[c][k]
    BY GoesOn DEF SpinIInv
<1>2. SpinTypes'
    BY <1>1 DEF SpinIInv, SpinTypes
<1>3. Interrupted'
    BY <1>1 DEF SpinIInv, Interrupted
<1>4. Nesting'
    BY <1>1 DEF SpinIInv, SpinTypes, Nesting, Runs
<1>5. Flags'
    BY <1>1 DEF SpinIInv, SpinTypes, Flags, Runs
<1>6. Ordered'
    BY <1>1 DEF SpinIInv, Ordered, Runs
<1> QED
    BY <1>2, <1>3, <1>4, <1>5, <1>6 DEF SpinIInv

\* The state of CPU c, and of what it runs.
LEMMA StateOf ==
    ASSUME Numbered, SpinIInv, NEW c \in CPU
    PROVE  /\ Runs(c) \in Code /\ Head(stack[c]) = Runs(c)
           /\ ncli[c] \in Nat /\ ncli[c] = Depth(Runs(c))
           /\ intena[c] \in BOOLEAN /\ IF_[c] \in BOOLEAN /\ eflags[c] \in BOOLEAN
           /\ IF_[c] <=> ncli[c] = 0 /\ Runs(c).saved
           /\ ncli[c] # 0 => (intena[c] <=> Runs(c).saved)
           /\ ncli[c] = 0 /\ Runs(c).pc = "cli" => (eflags[c] <=> Runs(c).saved)
           /\ InOrder(Runs(c))
<1>1. Runs(c) \in Code /\ Head(stack[c]) = Runs(c)
    BY DEF SpinIInv, SpinTypes, Runs
<1> QED
    BY <1>1 DEF SpinIInv, SpinTypes, Nesting, Flags, Ordered

\* The locks after a step are right for f, which c goes on with, and for the others.
OwnersFit(c, f) ==
    \A l \in 1..NLOCK :
        /\ cpu'[l] = c <=> Owns(f, l)
        /\ Owns(f, l) => locked'[l]
        /\ Takes(f, l) => locked'[l] /\ cpu'[l] = 0
        /\ Takes(f, l) => \A d \in CPU \ {c} : ~Takes(Runs(d), l)
        /\ \A d \in CPU \ {c} : cpu'[l] = d <=> cpu[l] = d
        /\ \A d \in CPU \ {c} : locked[l] /\ Owns(Runs(d), l) => locked'[l]
        /\ \A d \in CPU \ {c} : Takes(Runs(d), l) => locked'[l] /\ cpu'[l] = 0

\* Who owns and who takes locks, if only what c runs has changed, to f.
LEMMA OwnersOf ==
    ASSUME SpinIInv, NEW c \in CPU, NEW f \in Code, stack' = [stack EXCEPT ![c][1] = f],
           OwnersFit(c, f)
    PROVE  Owners'
<1>1. Runs(c)' = f /\ \A d \in CPU \ {c} : Runs(d)' = Runs(d)
    BY GoesOn DEF SpinIInv, Runs
<1> SUFFICES ASSUME NEW l \in 1..NLOCK, NEW b \in CPU
             PROVE  /\ cpu'[l] = b <=> Owns(Runs(b)', l)
                    /\ Owns(Runs(b)', l) => locked'[l]
                    /\ Takes(Runs(b)', l) => locked'[l] /\ cpu'[l] = 0
                    /\ \A d \in CPU : Takes(Runs(b)', l) /\ Takes(Runs(d)', l) => b = d
    BY DEF Owners, Owns, Takes
<1>2. CASE b = c
    BY <1>1, <1>2 DEF OwnersFit
<1>3. CASE b # c
    BY <1>1, <1>3 DEF OwnersFit, SpinIInv, Owners
<1> QED
    BY <1>2, <1>3

-----------------------------------------------------------------------------

\* A step of the code that c runs, as a record of its own.
LEMMA GoesTo ==
    ASSUME Numbered, SpinIInv, NEW c \in CPU, NEW x \in {"run", "cli"} \cup Critical,
           NEW l \in Nat, NEW h \in SUBSET (1..NLOCK), Spin!Goes(c, x, l, h)
    PROVE  \E f \in Code : /\ stack' = [stack EXCEPT ![c][1] = f]
                           /\ f.pc = x /\ f.lk = l /\ f.held = h /\ f.saved = Runs(c).saved
<1> DEFINE f == [pc |-> x, lk |-> l, held |-> h, saved |-> Runs(c).saved]
<1>1. f \in Code
    BY StateOf DEF Code
<1>2. stack' = [stack EXCEPT ![c][1] = f]
    BY StateOf DEF Spin!Goes
<1> QED
    BY <1>1, <1>2

\* A step that has nothing to do with interrupts.
LEMMA LockStep ==
    ASSUME Numbered, SpinIInv, NEW c \in CPU, NEW f \in Code,
           stack' = [stack EXCEPT ![c][1] = f],
           UNCHANGED <<ncli, intena, IF_, eflags, panicked>>,
           locked' \in [1..NLOCK -> BOOLEAN], cpu' \in [1..NLOCK -> CPU \cup {0}],
           Depth(f) = Depth(Runs(c)), f.saved = Runs(c).saved, f.pc # "cli", InOrder(f), Owners'
    PROVE  SpinIInv'
<1>1. /\ ncli' \in [CPU -> Nat] /\ intena' \in [CPU -> BOOLEAN]
      /\ IF_' \in [CPU -> BOOLEAN] /\ eflags' \in [CPU -> BOOLEAN]
    BY DEF SpinIInv, SpinTypes
<1>2. /\ ncli'[c] = Depth(f) /\ (IF_'[c] <=> ncli'[c] = 0 /\ f.saved)
      /\ ncli'[c] # 0 => (intena'[c] <=> f.saved)
    BY StateOf
<1> QED
    BY <1>1, <1>2, StepOf

\* A step that has nothing to do with who has which lock.
LEMMA SameOwners ==
    ASSUME SpinIInv, NEW c \in CPU, NEW f \in Code, stack' = [stack EXCEPT ![c][1] = f],
           UNCHANGED <<locked, cpu>>,
           \A l \in 1..NLOCK : (Owns(f, l) <=> Owns(Runs(c), l)) /\ ~Takes(f, l)
    PROVE  /\ Owners'
           /\ locked' \in [1..NLOCK -> BOOLEAN] /\ cpu' \in [1..NLOCK -> CPU \cup {0}]
<1>1. OwnersFit(c, f)
    BY DEF OwnersFit, SpinIInv, Owners
<1> QED
    BY <1>1, OwnersOf DEF SpinIInv, SpinTypes

\* acquire() is called.
LEMMA AcquireKeeps ==
    ASSUME Numbered, SpinIInv, NEW c \in CPU, NEW l \in 1..NLOCK, Spin!Acquire(c, l)
    PROVE  SpinIInv'
<1>1. /\ Runs(c).pc = "run" /\ \A m \in Runs(c).held : m < l
      /\ Runs(c).held \in SUBSET (1..NLOCK) /\ l \in Nat
      /\ Spin!Goes(c, "cli", l, Runs(c).held)
    <2>1. Runs(c) \in Code /\ Head(stack[c]) = Runs(c)
        BY StateOf
    <2> QED
        BY <2>1 DEF Spin!Acquire, Spin!At, Spin!Held, Code, Numbered
<1>2. PICK f \in Code : /\ stack' = [stack EXCEPT ![c][1] = f] /\ f.pc = "cli" /\ f.lk = l
                        /\ f.held = Runs(c).held /\ f.saved = Runs(c).saved
    <2>1. Runs(c).held \in SUBSET (1..NLOCK) /\ l \in Nat
          /\ Spin!Goes(c, "cli", l, Runs(c).held)
        BY <1>1
    <2> QED
        BY <2>1, GoesTo
<1>3. UNCHANGED <<locked, cpu, ncli, intena, IF_, panicked>>
      /\ eflags' = [eflags EXCEPT ![c] = IF_[c]]
    BY DEF Spin!Acquire
<1>4. \A m \in 1..NLOCK : (Owns(f, m) <=> Owns(Runs(c), m)) /\ ~Takes(f, m)
    BY <1>1, <1>2 DEF Owns, Takes
<1>5. /\ Owners'
      /\ locked' \in [1..NLOCK -> BOOLEAN] /\ cpu' \in [1..NLOCK -> CPU \cup {0}]
    BY <1>2, <1>3, <1>4, SameOwners
<1>6. InOrder(f) /\ Depth(f) = Depth(Runs(c))
    BY <1>1, <1>2 DEF InOrder, Depth, Critical
<1>7. /\ ncli' \in [CPU -> Nat] /\ intena' \in [CPU -> BOOLEAN]
      /\ IF_' \in [CPU -> BOOLEAN] /\ eflags' \in [CPU -> BOOLEAN]
      /\ eflags'[c] = IF_[c] /\ \A d \in CPU \ {c} : eflags'[d] = eflags[d]
    BY <1>3 DEF SpinIInv, SpinTypes
<1>8. /\ ncli'[c] = Depth(f) /\ (IF_'[c] <=> ncli'[c] = 0 /\ f.saved)
      /\ ncli'[c] # 0 => (intena'[c] <=> f.saved)
      /\ ncli'[c] = 0 => (eflags'[c] <=> f.saved)
    BY <1>2, <1>3, <1>6, <1>7, StateOf
<1> QED
    BY <1>2, <1>3, <1>5, <1>6, <1>7, <1>8, StepOf

\* pushcli() turns interrupts off; the first one remembers what they were.
LEMMA PushcliKeeps ==
    ASSUME Numbered, SpinIInv, NEW c \in CPU, Spin!Pushcli(c) PROVE SpinIInv'
<1>1. /\ Runs(c).pc = "cli" /\ Runs(c).lk \in Nat
      /\ Runs(c).held \in SUBSET (1..NLOCK)
      /\ Spin!Goes(c, "xchg", Runs(c).lk, Runs(c).held)
    BY StateOf DEF Spin!Pushcli, Spin!At, Spin!Goto, Spin!Lk, Spin!Held, Code
<1>2. PICK f \in Code : /\ stack' = [stack EXCEPT ![c][1] = f] /\ f.pc = "xchg"
                        /\ f.lk = Runs(c).lk
                        /\ f.held = Runs(c).held /\ f.saved = Runs(c).saved
    BY <1>1, GoesTo DEF Critical
<1>3. /\ UNCHANGED <<locked, cpu, eflags, panicked>>
      /\ IF_' = [IF_ EXCEPT ![c] = FALSE] /\ ncli' = [ncli EXCEPT ![c] = @ + 1]
      /\ intena' = IF ncli[c] = 0 THEN [intena EXCEPT ![c] = eflags[c]] ELSE intena
    BY DEF Spin!Pushcli, Spin!Records
<1>4. \A m \in 1..NLOCK : (Owns(f, m) <=> Owns(Runs(c), m)) /\ ~Takes(f, m)
    BY <1>1, <1>2 DEF Owns, Takes
<1>5. /\ Owners'
      /\ locked' \in [1..NLOCK -> BOOLEAN] /\ cpu' \in [1..NLOCK -> CPU \cup {0}]
    BY <1>2, <1>3, <1>4, SameOwners
<1>6. InOrder(f)
    BY <1>1, <1>2, StateOf DEF InOrder
<1>7. Depth(f) = Depth(Runs(c)) + 1
    BY <1>1, <1>2, Holdings DEF Depth, Critical
<1>8. /\ ncli' \in [CPU -> Nat] /\ intena' \in [CPU -> BOOLEAN]
      /\ IF_' \in [CPU -> BOOLEAN] /\ eflags' \in [CPU -> BOOLEAN]
      /\ ncli'[c] = ncli[c] + 1 /\ ~IF_'[c]
      /\ intena'[c] = IF ncli[c] = 0 THEN eflags[c] ELSE intena[c]
      /\ \A d \in CPU \ {c} : /\ ncli'[d] = ncli[d] /\ intena'[d] = intena[d]
                              /\ IF_'[d] = IF_[d]
    BY <1>3 DEF SpinIInv, SpinTypes
<1>9. /\ ncli'[c] = Depth(f) /\ (IF_'[c] <=> ncli'[c] = 0 /\ f.saved)
      /\ ncli'[c] # 0 => (intena'[c] <=> f.saved)
    BY <1>1, <1>2, <1>7, <1>8, StateOf
<1> QED
    BY <1>2, <1>3, <1>5, <1>6, <1>8, <1>9, StepOf

\* xchg() takes a lock that is free; acquire() never finds that it has it already.
LEMMA XchgKeeps == ASSUME Numbered, SpinIInv, NEW c \in CPU, Spin!Xchg(c) PROVE SpinIInv'
<1>1. PICK l \in 1..NLOCK : l = Runs(c).lk
    BY StateOf DEF Spin!Xchg, Spin!At, InOrder
<1>2. /\ Runs(c).pc = "xchg" /\ Spin!Lk(c) = l /\ l \in Nat
      /\ Runs(c).held \in SUBSET (1..NLOCK) /\ l \notin Runs(c).held
    BY <1>1, StateOf DEF Spin!Xchg, Spin!At, Spin!Lk, Code, InOrder
<1>3. cpu[l] # c
    BY <1>1, <1>2 DEF SpinIInv, Owners, Owns
<1>4. /\ ~locked[l] /\ locked' = [locked EXCEPT ![l] = TRUE]
      /\ Spin!Goes(c, "own", l, Runs(c).held)
      /\ UNCHANGED <<cpu, ncli, intena, IF_, eflags, panicked>>
    BY <1>2, <1>3, StateOf DEF Spin!Xchg, Spin!Holding, Spin!Free, Spin!Goto, Spin!Held
<1>5. PICK f \in Code : /\ stack' = [stack EXCEPT ![c][1] = f] /\ f.pc = "own" /\ f.lk = l
                        /\ f.held = Runs(c).held /\ f.saved = Runs(c).saved
    BY <1>2, <1>4, GoesTo DEF Critical
<1>6. \A d \in CPU : ~Owns(Runs(d), l) /\ ~Takes(Runs(d), l)
    BY <1>4 DEF SpinIInv, Owners
<1>7. cpu[l] = 0
    BY <1>6 DEF SpinIInv, SpinTypes, Owners
<1>8. /\ locked' \in [1..NLOCK -> BOOLEAN] /\ cpu' \in [1..NLOCK -> CPU \cup {0}]
      /\ locked'[l] /\ \A m \in 1..NLOCK : locked[m] => locked'[m]
    BY <1>4 DEF SpinIInv, SpinTypes
<1>9. \A m \in 1..NLOCK : (Owns(f, m) <=> Owns(Runs(c), m)) /\ (Takes(f, m) <=> m = l)
    BY <1>2, <1>5 DEF Owns, Takes
<1>10. OwnersFit(c, f)
    BY <1>4, <1>6, <1>7, <1>8, <1>9 DEF OwnersFit, SpinIInv, Owners
<1>11. Owners'
    BY <1>5, <1>10, OwnersOf
<1>12. InOrder(f) /\ Depth(f) = Depth(Runs(c))
    BY <1>1, <1>2, <1>5, StateOf DEF InOrder, Depth, Critical
<1> QED
    BY <1>4, <1>5, <1>8, <1>11, <1>12, LockStep

\* The owner is written into the lock.
LEMMA OwnKeeps == ASSUME Numbered, SpinIInv, NEW c \in CPU, Spin!Own(c) PROVE SpinIInv'
<1>1. PICK l \in 1..NLOCK : l = Runs(c).lk
    BY StateOf DEF Spin!Own, Spin!At, InOrder
<1>2. /\ Runs(c).pc = "own" /\ Spin!Lk(c) = l /\ Spin!Held(c) = Runs(c).held /\ l \in Nat
      /\ Runs(c).held \in SUBSET (1..NLOCK) /\ l \notin Runs(c).held
    BY <1>1, StateOf DEF Spin!Own, Spin!At, Spin!Lk, Spin!Held, Code, InOrder
<1>3. /\ cpu' = [cpu EXCEPT ![l] = c]
      /\ Spin!Goes(c, "run", l, Runs(c).held \cup {l})
      /\ UNCHANGED <<locked, ncli, intena, IF_, eflags, panicked>>
    BY <1>2 DEF Spin!Own
<1>4. PICK f \in Code : /\ stack' = [stack EXCEPT ![c][1] = f] /\ f.pc = "run" /\ f.lk = l
                        /\ f.held = Runs(c).held \cup {l} /\ f.saved = Runs(c).saved
    BY <1>2, <1>3, GoesTo
<1>5. locked[l] /\ cpu[l] = 0 /\ \A d \in CPU \ {c} : ~Takes(Runs(d), l)
    BY <1>1, <1>2 DEF SpinIInv, Owners, Takes
<1>6. /\ locked' \in [1..NLOCK -> BOOLEAN] /\ cpu' \in [1..NLOCK -> CPU \cup {0}]
      /\ cpu'[l] = c /\ \A m \in 1..NLOCK \ {l} : cpu'[m] = cpu[m]
    BY <1>3 DEF SpinIInv, SpinTypes
<1>7. \A m \in 1..NLOCK : (Owns(f, m) <=> Owns(Runs(c), m) \/ m = l) /\ ~Takes(f, m)
    BY <1>2, <1>4 DEF Owns, Takes
<1>8. OwnersFit(c, f)
    BY <1>3, <1>5, <1>6, <1>7 DEF OwnersFit, SpinIInv, Owners, Numbered
<1>9. Owners'
    BY <1>4, <1>8, OwnersOf
<1>10. InOrder(f) /\ Depth(f) = Depth(Runs(c))
    BY <1>2, <1>4, Holdings DEF InOrder, Depth, Critical
<1> QED
    BY <1>3, <1>4, <1>6, <1>9, <1>10, LockStep

\* release() of a lock that is held finds that it is.
LEMMA ReleaseStarts ==
    ASSUME Numbered, SpinIInv, NEW c \in CPU, NEW l \in 1..NLOCK, Spin!Release(c, l)
    PROVE  SpinIInv'
<1>1. /\ Runs(c).pc = "run" /\ l \in Runs(c).held /\ l \in Nat
      /\ Spin!Held(c) = Runs(c).held /\ Runs(c).held \in SUBSET (1..NLOCK)
    BY StateOf DEF Spin!Release, Spin!At, Spin!Held, Code, Numbered
<1>2. locked[l] /\ cpu[l] = c
    BY <1>1 DEF SpinIInv, Owners, Owns
<1>3. /\ Spin!Goes(c, "erase", l, Runs(c).held \ {l})
      /\ UNCHANGED <<locked, cpu, ncli, intena, IF_, eflags, panicked>>
    BY <1>1, <1>2 DEF Spin!Release, Spin!Holding, Spin!ReleaseOrder
<1>4. PICK f \in Code : /\ stack' = [stack EXCEPT ![c][1] = f] /\ f.pc = "erase" /\ f.lk = l
                        /\ f.held = Runs(c).held \ {l} /\ f.saved = Runs(c).saved
    BY <1>1, <1>3, GoesTo DEF Critical
<1>5. \A m \in 1..NLOCK : (Owns(f, m) <=> Owns(Runs(c), m)) /\ ~Takes(f, m)
    BY <1>1, <1>4 DEF Owns, Takes
<1>6. /\ Owners'
      /\ locked' \in [1..NLOCK -> BOOLEAN] /\ cpu' \in [1..NLOCK -> CPU \cup {0}]
    BY <1>3, <1>4, <1>5, SameOwners
<1>7. Cardinality(Runs(c).held \ {l}) = Cardinality(Runs(c).held) - 1
      /\ Cardinality(Runs(c).held) \in Nat
    BY <1>1, Holdings
<1>8. InOrder(f) /\ Depth(f) = Depth(Runs(c))
    BY <1>1, <1>4, <1>7 DEF InOrder, Depth, Critical
<1> QED
    BY <1>3, <1>4, <1>6, <1>8, LockStep

\* The owner is erased.
LEMMA EraseKeeps == ASSUME Numbered, SpinIInv, NEW c \in CPU, Spin!Erase(c) PROVE SpinIInv'
<1>1. PICK l \in 1..NLOCK : l = Runs(c).lk
    BY StateOf DEF Spin!Erase, Spin!At, InOrder
<1>2. /\ Runs(c).pc = "erase" /\ Spin!Lk(c) = l /\ Spin!Held(c) = Runs(c).held /\ l \in Nat
      /\ Runs(c).held \in SUBSET (1..NLOCK) /\ l \notin Runs(c).held
    BY <1>1, StateOf DEF Spin!Erase, Spin!At, Spin!Lk, Spin!Held, Code, InOrder
<1>3. /\ cpu' = [cpu EXCEPT ![l] = 0]
      /\ Spin!Goes(c, "open", l, Runs(c).held)
      /\ UNCHANGED <<locked, ncli, intena, IF_, eflags, panicked>>
    BY <1>2 DEF Spin!Erase, Spin!Goto, Spin!NextOf, Spin!ReleaseOrder, Spin!NOCPU
<1>4. PICK f \in Code : /\ stack' = [stack EXCEPT ![c][1] = f] /\ f.pc = "open" /\ f.lk = l
                        /\ f.held = Runs(c).held /\ f.saved = Runs(c).saved
    BY <1>2, <1>3, GoesTo DEF Critical
<1>5. locked[l] /\ cpu[l] = c /\ \A d \in CPU : ~Takes(Runs(d), l)
    BY <1>1, <1>2 DEF SpinIInv, Owners, Owns, Numbered
<1>6. /\ locked' \in [1..NLOCK -> BOOLEAN] /\ cpu' \in [1..NLOCK -> CPU \cup {0}]
      /\ cpu'[l] = 0 /\ \A m \in 1..NLOCK \ {l} : cpu'[m] = cpu[m]
    BY <1>3 DEF SpinIInv, SpinTypes
<1>7. \A m \in 1..NLOCK : /\ Owns(f, m) <=> Owns(Runs(c), m) /\ m # l
                          /\ Takes(f, m) <=> m = l
    BY <1>1, <1>2, <1>4 DEF Owns, Takes
<1>8. OwnersFit(c, f)
    BY <1>3, <1>5, <1>6, <1>7 DEF OwnersFit, SpinIInv, Owners, Numbered
<1>9. Owners'
    BY <1>4, <1>8, OwnersOf
<1>10. InOrder(f) /\ Depth(f) = Depth(Runs(c))
    BY <1>2, <1>4 DEF InOrder, Depth, Critical
<1> QED
    BY <1>3, <1>4, <1>6, <1>9, <1>10, LockStep

\* The lock is open.
LEMMA OpenKeeps == ASSUME Numbered, SpinIInv, NEW c \in CPU, Spin!Open(c) PROVE SpinIInv'
<1>1. PICK l \in 1..NLOCK : l = Runs(c).lk
    BY StateOf DEF Spin!Open, Spin!At, InOrder
<1>2. /\ Runs(c).pc = "open" /\ Spin!Lk(c) = l /\ Spin!Held(c) = Runs(c).held /\ l \in Nat
      /\ Runs(c).held \in SUBSET (1..NLOCK) /\ l \notin Runs(c).held
    BY <1>1, StateOf DEF Spin!Open, Spin!At, Spin!Lk, Spin!Held, Code, InOrder
<1>3. /\ locked' = [locked EXCEPT ![l] = FALSE]
      /\ Spin!Goes(c, "popcli", l, Runs(c).held)
      /\ UNCHANGED <<cpu, ncli, intena, IF_, eflags, panicked>>
    BY <1>2 DEF Spin!Open, Spin!Goto, Spin!NextOf, Spin!ReleaseOrder
<1>4. PICK f \in Code : /\ stack' = [stack EXCEPT ![c][1] = f] /\ f.pc = "popcli" /\ f.lk = l
                        /\ f.held = Runs(c).held /\ f.saved = Runs(c).saved
    BY <1>2, <1>3, GoesTo DEF Critical
<1>5. cpu[l] = 0 /\ \A d \in CPU \ {c} : ~Takes(Runs(d), l) /\ ~Owns(Runs(d), l)
    BY <1>1, <1>2 DEF SpinIInv, Owners, Takes, Numbered
<1>6. /\ locked' \in [1..NLOCK -> BOOLEAN] /\ cpu' \in [1..NLOCK -> CPU \cup {0}]
      /\ \A m \in 1..NLOCK \ {l} : locked'[m] = locked[m]
    BY <1>3 DEF SpinIInv, SpinTypes
<1>7. \A m \in 1..NLOCK : (Owns(f, m) <=> Owns(Runs(c), m)) /\ (Owns(f, m) => m # l)
                          /\ ~Takes(f, m)
    BY <1>2, <1>4 DEF Owns, Takes
<1>8. OwnersFit(c, f)
    BY <1>3, <1>5, <1>6, <1>7 DEF OwnersFit, SpinIInv, Owners
<1>9. Owners'
    BY <1>4, <1>8, OwnersOf
<1>10. InOrder(f) /\ Depth(f) = Depth(Runs(c))
    BY <1>2, <1>4 DEF InOrder, Depth, Critical
<1> QED
    BY <1>3, <1>4, <1>6, <1>9, <1>10, LockStep

\* popcli() never panics, and the last one turns interrupts on if they were.
LEMMA PopcliKeeps == ASSUME Numbered, SpinIInv, NEW c \in CPU, Spin!Popcli(c) PROVE SpinIInv'
<1>1. /\ Runs(c).pc = "popcli" /\ Spin!Lk(c) = Runs(c).lk /\ Spin!Held(c) = Runs(c).held
      /\ Runs(c).lk \in Nat /\ Runs(c).held \in SUBSET (1..NLOCK)
    BY StateOf DEF Spin!Popcli, Spin!At, Spin!Lk, Spin!Held, Code
<1>2. ncli[c] = Cardinality(Runs(c).held) + 1 /\ ncli[c] # 0 /\ ncli[c] - 1 \in Nat
    BY <1>1, StateOf, Holdings DEF Depth, Critical
<1>3. ~IF_[c]
    BY <1>2, StateOf
<1>4. /\ ncli' = [ncli EXCEPT ![c] = @ - 1]
      /\ IF_' = [IF_ EXCEPT ![c] = ncli[c] = 1 /\ intena[c]]
      /\ Spin!Goes(c, "run", Runs(c).lk, Runs(c).held)
      /\ UNCHANGED <<locked, cpu, intena, eflags, panicked>>
    BY <1>1, <1>2, <1>3 DEF Spin!Popcli, Spin!Goto, Spin!Enables
<1>5. PICK f \in Code : /\ stack' = [stack EXCEPT ![c][1] = f] /\ f.pc = "run"
                        /\ f.lk = Runs(c).lk
                        /\ f.held = Runs(c).held /\ f.saved = Runs(c).saved
    BY <1>1, <1>4, GoesTo
<1>6. \A m \in 1..NLOCK : (Owns(f, m) <=> Owns(Runs(c), m)) /\ ~Takes(f, m)
    BY <1>1, <1>5 DEF Owns, Takes
<1>7. /\ Owners'
      /\ locked' \in [1..NLOCK -> BOOLEAN] /\ cpu' \in [1..NLOCK -> CPU \cup {0}]
    BY <1>4, <1>5, <1>6, SameOwners
<1>8. InOrder(f) /\ Depth(f) = Cardinality(Runs(c).held)
    BY <1>5, <1>1, Holdings DEF InOrder, Depth, Critical
<1>9. /\ ncli' \in [CPU -> Nat] /\ intena' \in [CPU -> BOOLEAN]
      /\ eflags' \in [CPU -> BOOLEAN]
      /\ ncli'[c] = ncli[c] - 1 /\ intena'[c] = intena[c]
      /\ \A d \in CPU \ {c} : ncli'[d] = ncli[d] /\ intena'[d] = intena[d]
    BY <1>2, <1>4 DEF SpinIInv, SpinTypes
<1>10. /\ IF_' \in [CPU -> BOOLEAN]
       /\ IF_'[c] <=> ncli[c] = 1 /\ intena[c]
       /\ \A d \in CPU \ {c} : IF_'[d] = IF_[d]
    BY <1>4 DEF SpinIInv, SpinTypes
<1>11. /\ ncli'[c] = Depth(f) /\ (IF_'[c] <=> ncli'[c] = 0 /\ f.saved)
       /\ ncli'[c] # 0 => (intena'[c] <=> f.saved)
    <2>1. Cardinality(Runs(c).held) \in Nat
        BY <1>1, Holdings
    <2>2. (IF_[c] <=> ncli[c] = 0 /\ Runs(c).saved) /\ (intena[c] <=> Runs(c).saved)
        BY <1>2, StateOf
    <2> QED
        BY <1>2, <1>5, <1>8, <1>9, <1>10, <2>1, <2>2
<1> QED
    BY <1>4, <1>5, <1>7, <1>8, <1>9, <1>10, <1>11, StepOf

\* An interrupt comes where no lock is held.
LEMMA InterruptKeeps ==
    ASSUME Numbered, SpinIInv, NEW c \in CPU, Spin!Interrupt(c) PROVE SpinIInv'
<1>1. PICK s \in Seq(Code) : s = stack[c] /\ Len(s) >= 1
    BY DEF SpinIInv, SpinTypes
<1>2. PICK f \in Code : f = Spin!Frame(FALSE) /\ f.pc = "run" /\ f.held = {} /\ ~f.saved
    <2>1. Spin!Frame(FALSE) = [pc |-> "run", lk |-> 1, held |-> {}, saved |-> FALSE]
        BY DEF Spin!Frame
    <2>2. [pc |-> "run", lk |-> 1, held |-> {}, saved |-> FALSE] \in Code
        BY SMT DEF Code
    <2> QED
        BY <2>1, <2>2
<1>3. PICK t \in Seq(Code) : /\ t = <<f>> \o s /\ Len(t) = Len(s) + 1 /\ t[1] = f
                             /\ \A k \in 2..Len(t) : t[k] = s[k - 1] /\ k - 1 \in 1..Len(s)
    BY Pushed, Zenon
<1>4. /\ IF_[c] /\ IF_' = [IF_ EXCEPT ![c] = FALSE]
      /\ stack' = [stack EXCEPT ![c] = t]
      /\ UNCHANGED <<locked, cpu, ncli, intena, eflags, panicked>>
    BY <1>1, <1>2, <1>3 DEF Spin!Interrupt
<1>5. ncli[c] = 0 /\ Runs(c).saved /\ Runs(c).held = {} /\ Runs(c).pc \in {"run", "cli"}
    <2>1. ncli[c] = 0 /\ Runs(c).saved /\ ncli[c] = Depth(Runs(c)) /\ Runs(c) \in Code
        BY <1>4, StateOf
    <2>2. Runs(c).held \in SUBSET (1..NLOCK) /\ Runs(c).pc \in {"run", "cli"} \cup Critical
        BY <2>1 DEF Code
    <2>3. /\ Cardinality(Runs(c).held) \in Nat
          /\ Cardinality(Runs(c).held) = 0 <=> Runs(c).held = {}
        BY <2>2, Holdings
    <2> QED
        BY <2>1, <2>2, <2>3 DEF Depth
<1>6. /\ stack' \in [CPU -> Seq(Code)] /\ stack'[c] = t
      /\ \A d \in CPU \ {c} : stack'[d] = stack[d]
    BY <1>4 DEF SpinIInv, SpinTypes
<1>7. Runs(c)' = f /\ \A d \in CPU \ {c} : Runs(d)' = Runs(d)
    BY <1>3, <1>6 DEF Runs
<1>8. SpinTypes'
    BY <1>1, <1>3, <1>4, <1>6 DEF SpinIInv, SpinTypes
<1>9. Interrupted'
    <2>1. \A k \in 2..Len(t) : /\ t[k].held = {} /\ t[k].saved
                               /\ t[k].pc \in {"run", "cli"} /\ InOrder(t[k])
        <3> SUFFICES ASSUME NEW k \in 2..Len(t)
                     PROVE  /\ t[k].held = {} /\ t[k].saved
                            /\ t[k].pc \in {"run", "cli"} /\ InOrder(t[k])
            OBVIOUS
        <3>1. t[k] = s[k - 1]
            BY <1>3
        <3>2. CASE k = 2
            BY <1>1, <1>5, <3>1, <3>2, StateOf DEF Runs
        <3>3. CASE k # 2
            <4>1. k - 1 \in 2..Len(s)
                BY <1>3, <3>3
            <4> QED
                BY <1>1, <3>1, <4>1 DEF SpinIInv, Interrupted
        <3> QED
            BY <3>2, <3>3
    <2> QED
        BY <1>6, <2>1 DEF SpinIInv, Interrupted
<1>10. Depth(f) = 0
    <2>1. Cardinality(f.held) = 0
        BY <1>2, FS_EmptySet
    <2>2. f.pc \notin Critical
        BY <1>2 DEF Critical
    <2> QED
        BY <2>1, <2>2 DEF Depth
<1>11. Nesting'
    BY <1>4, <1>5, <1>7, <1>10 DEF SpinIInv, Nesting
<1>12. Flags'
    <2>1. /\ ~IF_'[c] /\ ncli'[c] = 0 /\ Runs(c)'.pc = "run" /\ ~Runs(c)'.saved
          /\ \A d \in CPU \ {c} : IF_'[d] = IF_[d] /\ Runs(d)' = Runs(d)
        BY <1>2, <1>4, <1>5, <1>7 DEF SpinIInv, SpinTypes
    <2> QED
        BY <1>4, <2>1 DEF SpinIInv, Flags
<1>13. Owners'
    <2>1. \A l \in 1..NLOCK : /\ ~Owns(f, l) /\ ~Takes(f, l)
                              /\ ~Owns(Runs(c), l) /\ ~Takes(Runs(c), l)
        BY <1>2, <1>5 DEF Owns, Takes
    <2> SUFFICES ASSUME NEW l \in 1..NLOCK, NEW b \in CPU
                 PROVE  /\ cpu'[l] = b <=> Owns(Runs(b)', l)
                        /\ Owns(Runs(b)', l) => locked'[l]
                        /\ Takes(Runs(b)', l) => locked'[l] /\ cpu'[l] = 0
                        /\ \A d \in CPU : Takes(Runs(b)', l) /\ Takes(Runs(d)', l) => b = d
        BY DEF Owners, Owns, Takes
    <2>2. CASE b = c
        BY <1>4, <1>7, <2>1, <2>2 DEF SpinIInv, Owners
    <2>3. CASE b # c
        BY <1>4, <1>7, <2>1, <2>3 DEF SpinIInv, Owners
    <2> QED
        BY <2>2, <2>3
<1>14. Ordered'
    BY <1>2, <1>7 DEF SpinIInv, Ordered, InOrder
<1> QED
    BY <1>8, <1>9, <1>11, <1>12, <1>13, <1>14 DEF SpinIInv

\* The handler returns to code that holds no lock, with interrupts on.
LEMMA ReturnKeeps == ASSUME Numbered, SpinIInv, NEW c \in CPU, Spin!Return(c) PROVE SpinIInv'
<1>1. PICK s \in Seq(Code) : s = stack[c] /\ Len(s) > 1
    BY DEF SpinIInv, SpinTypes, Spin!Return
<1>2. PICK t \in Seq(Code) : /\ t = Tail(s) /\ Len(t) = Len(s) - 1
                             /\ \A k \in 1..Len(t) : t[k] = s[k + 1] /\ k + 1 \in 2..Len(s)
    BY <1>1, Popped
<1>3. /\ Runs(c).pc = "run" /\ Runs(c).held = {}
      /\ IF_' = [IF_ EXCEPT ![c] = TRUE] /\ eflags' = [eflags EXCEPT ![c] = TRUE]
      /\ stack' = [stack EXCEPT ![c] = t]
      /\ UNCHANGED <<locked, cpu, ncli, intena, panicked>>
    BY <1>1, <1>2, StateOf DEF Spin!Return, Spin!At, Spin!Held
<1>4. PICK f \in Code : f = t[1]
    BY <1>1, <1>2
<1>5. f.held = {} /\ f.saved /\ f.pc \in {"run", "cli"} /\ InOrder(f)
    BY <1>1, <1>2, <1>4 DEF SpinIInv, Interrupted
<1>6. Depth(f) = 0 /\ Depth(Runs(c)) = 0
    BY <1>3, <1>5, FS_EmptySet DEF Depth, Critical
<1>7. ncli[c] = 0
    BY <1>6, StateOf
<1>8. /\ stack' \in [CPU -> Seq(Code)] /\ stack'[c] = t
      /\ \A d \in CPU \ {c} : stack'[d] = stack[d]
    BY <1>3 DEF SpinIInv, SpinTypes
<1>9. Runs(c)' = f /\ \A d \in CPU \ {c} : Runs(d)' = Runs(d)
    BY <1>4, <1>8 DEF Runs
<1>10. SpinTypes'
    BY <1>1, <1>2, <1>3, <1>8 DEF SpinIInv, SpinTypes
<1>11. Interrupted'
    <2>1. \A k \in 2..Len(t) : /\ t[k].held = {} /\ t[k].saved
                               /\ t[k].pc \in {"run", "cli"} /\ InOrder(t[k])
        BY <1>1, <1>2 DEF SpinIInv, Interrupted
    <2> QED
        BY <1>8, <2>1 DEF SpinIInv, Interrupted
<1>12. Nesting'
    BY <1>3, <1>6, <1>7, <1>9 DEF SpinIInv, Nesting
<1>13. Flags'
    BY <1>3, <1>5, <1>7, <1>9 DEF SpinIInv, SpinTypes, Flags
<1>14. Owners'
    <2>1. \A l \in 1..NLOCK : /\ ~Owns(f, l) /\ ~Takes(f, l)
                              /\ ~Owns(Runs(c), l) /\ ~Takes(Runs(c), l)
        BY <1>3, <1>5 DEF Owns, Takes
    <2> SUFFICES ASSUME NEW l \in 1..NLOCK, NEW b \in CPU
                 PROVE  /\ cpu'[l] = b <=> Owns(Runs(b)', l)
                        /\ Owns(Runs(b)', l) => locked'[l]
                        /\ Takes(Runs(b)', l) => locked'[l] /\ cpu'[l] = 0
                        /\ \A d \in CPU : Takes(Runs(b)', l) /\ Takes(Runs(d)', l) => b = d
        BY DEF Owners, Owns, Takes
    <2>2. CASE b = c
        BY <1>3, <1>9, <2>1, <2>2 DEF SpinIInv, Owners
    <2>3. CASE b # c
        BY <1>3, <1>9, <2>1, <2>3 DEF SpinIInv, Owners
    <2> QED
        BY <2>2, <2>3
<1>15. Ordered'
    BY <1>5, <1>9 DEF SpinIInv, Ordered
<1> QED
    BY <1>10, <1>11, <1>12, <1>13, <1>14, <1>15 DEF SpinIInv

\* At first every CPU runs code that holds nothing.
LEMMA SpinInit == ASSUME Numbered, Spin!Init PROVE SpinIInv
<1>1. /\ IF_ \in [CPU -> BOOLEAN] /\ ncli = [c \in CPU |-> 0]
      /\ intena = [c \in CPU |-> FALSE] /\ eflags = [c \in CPU |-> FALSE]
      /\ locked = [l \in 1..NLOCK |-> FALSE] /\ cpu = [l \in 1..NLOCK |-> 0]
      /\ panicked = "no"
    BY DEF Spin!Init, Spin!Lock, Spin!NOCPU
<1>2. \A c \in CPU : /\ stack[c] = <<Spin!Frame(IF_[c])>> /\ Spin!Frame(IF_[c]) \in Code
                     /\ Spin!Frame(IF_[c]).held = {} /\ Spin!Frame(IF_[c]).pc = "run"
                     /\ Spin!Frame(IF_[c]).saved = IF_[c]
    BY <1>1 DEF Spin!Init, Spin!Frame, Code
<1>3. ASSUME NEW c \in CPU
      PROVE  /\ stack[c] \in Seq(Code) /\ Len(stack[c]) = 1
             /\ Runs(c).held = {} /\ Runs(c).pc = "run" /\ Runs(c).saved = IF_[c]
    <2>1. PICK f \in Code : /\ f = Spin!Frame(IF_[c]) /\ stack[c] = <<f>>
                            /\ f.held = {} /\ f.pc = "run" /\ f.saved = IF_[c]
        BY <1>2
    <2>2. <<f>> \in Seq(Code) /\ Len(<<f>>) = 1 /\ <<f>>[1] = f
        OBVIOUS
    <2> QED
        BY <2>1, <2>2 DEF Runs
<1>4. stack \in [CPU -> Seq(Code)]
    BY <1>3 DEF Spin!Init
<1>5. SpinTypes
    <2>1. /\ locked \in [1..NLOCK -> BOOLEAN] /\ cpu \in [1..NLOCK -> CPU \cup {0}]
          /\ ncli \in [CPU -> Nat] /\ intena \in [CPU -> BOOLEAN]
          /\ eflags \in [CPU -> BOOLEAN] /\ IF_ \in [CPU -> BOOLEAN] /\ panicked = "no"
        BY <1>1
    <2>2. \A c \in CPU : Len(stack[c]) >= 1
        BY <1>3
    <2> QED
        BY <1>4, <2>1, <2>2 DEF SpinTypes
<1>6. Interrupted
    BY <1>3 DEF Interrupted
<1>7. Nesting
    <2> SUFFICES ASSUME NEW c \in CPU PROVE ncli[c] = Depth(Runs(c))
        BY DEF Nesting
    <2>1. Cardinality(Runs(c).held) = 0 /\ Runs(c).pc \notin Critical /\ ncli[c] = 0
        BY <1>1, <1>3, FS_EmptySet DEF Critical
    <2> QED
        BY <2>1 DEF Depth
<1>8. Flags
    BY <1>1, <1>3 DEF Flags
<1>9. Owners
    BY <1>1, <1>3 DEF Owners, Owns, Takes, Numbered
<1>10. Ordered
    BY <1>3 DEF Ordered, InOrder
<1> QED
    BY <1>5, <1>6, <1>7, <1>8, <1>9, <1>10 DEF SpinIInv

\* Every step of a CPU keeps the invariant.
LEMMA SpinNext == ASSUME Numbered, SpinIInv, [Spin!Next]_(Spin!vars) PROVE SpinIInv'
<1>1. CASE UNCHANGED Spin!vars
    BY <1>1 DEF Spin!vars, SpinIInv, SpinTypes, Interrupted, Nesting, Flags, Owners, Ordered,
                Runs
<1>2. CASE Spin!Next
    <2>1. PICK c \in CPU : Spin!Step(c)
        BY <1>2 DEF Spin!Next
    <2>2. ASSUME NEW l \in 1..NLOCK, Spin!Acquire(c, l) PROVE SpinIInv'
        BY <2>2, AcquireKeeps
    <2>3. ASSUME NEW l \in 1..NLOCK, Spin!Release(c, l) PROVE SpinIInv'
        BY <2>3, ReleaseStarts
    <2>4. CASE Spin!Pushcli(c)
        BY <2>4, PushcliKeeps
    <2>5. CASE Spin!Xchg(c)
        BY <2>5, XchgKeeps
    <2>6. CASE Spin!Own(c)
        BY <2>6, OwnKeeps
    <2>7. CASE Spin!Erase(c)
        BY <2>7, EraseKeeps
    <2>8. CASE Spin!Open(c)
        BY <2>8, OpenKeeps
    <2>9. CASE Spin!Popcli(c)
        BY <2>9, PopcliKeeps
    <2>10. CASE Spin!Interrupt(c)
        BY <2>10, InterruptKeeps
    <2>11. CASE Spin!Return(c)
        BY <2>11, ReturnKeeps
    <2> QED
        BY <2>1, <2>2, <2>3, <2>4, <2>5, <2>6, <2>7, <2>8, <2>9, <2>10, <2>11
        DEF Spin!Step, Spin!Lock
<1> QED
    BY <1>1, <1>2

-----------------------------------------------------------------------------

\* Only the frame that runs holds locks, and the lock says whose CPU that is.
LEMMA OneHolds ==
    ASSUME Numbered, SpinIInv, NEW c \in CPU, NEW k \in DOMAIN stack[c],
           NEW l \in stack[c][k].held
    PROVE  k = 1 /\ l \in 1..NLOCK /\ cpu[l] = c
<1>1. Len(stack[c]) \in Nat /\ DOMAIN stack[c] = 1..Len(stack[c]) /\ Len(stack[c]) >= 1
    BY DEF SpinIInv, SpinTypes
<1>2. k = 1
    BY <1>1 DEF SpinIInv, Interrupted
<1>3. l \in 1..NLOCK
    BY <1>2, StateOf DEF Runs, Code
<1> QED
    BY <1>2, <1>3 DEF SpinIInv, Owners, Owns, Runs

\* acquire() and release() exclude everybody else, never wait for themselves, never panic,
\* and leave the interrupt flag as it was, for any number of CPUs, locks and handlers.
THEOREM SpinLocksAreSound == ASSUME Numbered PROVE Spin!Spec => []Spin!SpinLocksExclude
<1>1. Spin!Init => SpinIInv
    BY SpinInit
<1>2. SpinIInv /\ [Spin!Next]_(Spin!vars) => SpinIInv'
    BY SpinNext
<1>3. SpinIInv => Spin!SpinLocksExclude
    <2> SUFFICES ASSUME SpinIInv PROVE Spin!SpinLocksExclude
        OBVIOUS
    <2>1. Spin!MutualExclusion
        BY OneHolds DEF Spin!MutualExclusion
    <2>2. Spin!NoSelfDeadlock
        BY DEF SpinIInv, Interrupted, Spin!NoSelfDeadlock
    <2>3. Spin!NoLockPanic
        BY DEF SpinIInv, SpinTypes, Spin!NoLockPanic
    <2>4. Spin!FlagIsRestored
        <3> SUFFICES ASSUME NEW c \in CPU, Spin!At(c, "run"), Spin!Held(c) = {}
                     PROVE  IF_[c] = Head(stack[c]).saved
            BY DEF Spin!FlagIsRestored
        <3>1. Head(stack[c]) = Runs(c) /\ Runs(c).saved \in BOOLEAN
              /\ (IF_[c] <=> ncli[c] = 0 /\ Runs(c).saved) /\ ncli[c] = Depth(Runs(c))
            BY StateOf DEF Code
        <3>2. Cardinality(Runs(c).held) = 0
            BY <3>1, FS_EmptySet DEF Spin!Held
        <3>3. Runs(c).pc \notin Critical
            BY <3>1 DEF Spin!At, Critical
        <3>4. IF_[c] <=> Runs(c).saved
            BY <3>1, <3>2, <3>3 DEF Depth
        <3>5. IF_[c] \in BOOLEAN
            BY StateOf
        <3> QED
            BY <3>1, <3>4, <3>5
    <2> QED
        BY <2>1, <2>2, <2>3, <2>4 DEF Spin!SpinLocksExclude
<1> QED
    BY <1>1, <1>2, <1>3, PTL DEF Spin!Spec

-----------------------------------------------------------------------------
(* The keyboard *)

CONSTANT MaxHeld
VARIABLES shift, bytes, held, got

Keyboard == INSTANCE Keyboard

Key == Keyboard!Plain \cup Keyboard!Extended
Flag == {"SHIFT", "CTL", "ALT", "CAPSLOCK", "E0ESC"}

\* The cursor key shares its code with the keypad's 8.
Cursor(k) == k.ext /\ k.code = 72

\* The code that kbdgetc() makes of an extended key.
Extending(k) == IF k.ext THEN k.code + 128 ELSE k.code

\* The bytes of key k, or the last of them, with `d` for its code, are still to be read.
Unread(k, d) ==
    \/ k.ext /\ bytes = <<Keyboard!E0, d>> /\ "E0ESC" \notin shift
    \/ bytes = <<d>> /\ (k.ext <=> "E0ESC" \in shift)

\* What has been sent is of one key, the last to go down or one that has gone up.
Sent(k) ==
    \/ bytes = <<>> /\ "E0ESC" \notin shift
    \/ k \in held /\ got = [key |-> k, char |-> Keyboard!NO] /\ Unread(k, k.code)
    \/ k \notin held /\ Unread(k, k.code + 128)

\* Every modifier is that of a key that is down, or that has gone up as k and is unread.
Modified(k) ==
    \A flag \in shift \ {"CAPSLOCK", "E0ESC"} :
        \E h \in held \cup (IF bytes = <<>> THEN {} ELSE {k}) : flag \in Keyboard!Shiftcode(h.code)

\* The character is that of its key, unless the key is still to be read.
Decoded ==
    got.key \in held =>
        \/ (got.char = "up") <=> Cursor(got.key)
        \/ Unread(got.key, got.key.code)

KeyboardIInv ==
    /\ shift \subseteq Flag /\ held \subseteq Key
    /\ got = [key |-> got.key, char |-> got.char]
    /\ \E k \in Key : Sent(k) /\ Modified(k)
    /\ Decoded

\* The codes of the keys: only some are extended, and they are no other key's.
LEMMA KeyCodes ==
    /\ \A k \in Key : /\ k.code \in {30, 2, 42, 54, 29, 56, 58, 72} /\ k.ext \in BOOLEAN
                      /\ k.ext => k.code \in {29, 56, 72}
                      /\ k = [code |-> k.code, ext |-> k.ext]
    /\ Keyboard!NoKey \notin Key
<1>1. ASSUME NEW k \in Keyboard!Plain
      PROVE  /\ k.code \in {30, 2, 42, 54, 29, 56, 58, 72} /\ k.ext = FALSE
             /\ k = [code |-> k.code, ext |-> k.ext]
    <2>1. PICK name \in DOMAIN Keyboard!Code : k = [code |-> Keyboard!Code[name], ext |-> FALSE]
        BY DEF Keyboard!Plain
    <2>2. name \in {"a", "one", "lshift", "rshift", "ctl", "alt", "caps", "eight"}
        BY DEF Keyboard!Code
    <2>3. Keyboard!Code[name] \in {30, 2, 42, 54, 29, 56, 58, 72}
        BY <2>2 DEF Keyboard!Code
    <2> QED
        BY <2>1, <2>3
<1>2. ASSUME NEW k \in Keyboard!Extended
      PROVE  /\ k.code \in {29, 56, 72} /\ k.ext = TRUE
             /\ k = [code |-> k.code, ext |-> k.ext]
    <2>1. PICK name \in {"ctl", "alt", "eight"} : k = [code |-> Keyboard!Code[name], ext |-> TRUE]
        BY DEF Keyboard!Extended
    <2>2. Keyboard!Code[name] \in {29, 56, 72}
        BY DEF Keyboard!Code
    <2> QED
        BY <2>1, <2>2
<1>3. \A k \in Key : k \in Keyboard!Plain \/ k \in Keyboard!Extended
    BY DEF Key
<1>4. \A k \in Key : /\ k.code \in {30, 2, 42, 54, 29, 56, 58, 72} /\ k.ext \in BOOLEAN
                     /\ k.ext => k.code \in {29, 56, 72}
                     /\ k = [code |-> k.code, ext |-> k.ext]
    <2> TAKE k \in Key
    <2>1. CASE k \in Keyboard!Plain
        BY <2>1, <1>1
    <2>2. CASE k \in Keyboard!Extended
        BY <2>2, <1>2
    <2> QED
        BY <2>1, <2>2, <1>3
<1>5. Keyboard!NoKey.code = 0
    BY DEF Keyboard!NoKey
<1> QED
    BY <1>4, <1>5

\* What the tables say of a key: an extended one has the flag of its code, and only the
\* cursor key is "up".
LEMMA KeyTables ==
    ASSUME NEW k \in Key
    PROVE  /\ Keyboard!Shiftcode(Extending(k)) = Keyboard!Shiftcode(k.code)
           /\ Keyboard!Shiftcode(k.code) \subseteq {"SHIFT", "CTL", "ALT"}
           /\ Keyboard!Togglecode(Extending(k)) \subseteq {"CAPSLOCK"}
           /\ \A flags : (Keyboard!Lookup(Keyboard!Charcode(flags), Extending(k)) = "up")
                            <=> Cursor(k)
<1> DEFINE x == Extending(k)
<1>1. /\ x \in {30, 2, 42, 54, 29, 56, 58, 72, 157, 184, 200}
      /\ x = 200 <=> Cursor(k)
      /\ x \in {157, 184, 200} => k.code = x - 128
      /\ x \notin {157, 184, 200} => k.code = x
    BY KeyCodes DEF Extending, Cursor
<1> HIDE DEF x
<1>2. Keyboard!Shiftcode(x) = Keyboard!Shiftcode(k.code)
    BY <1>1 DEF Keyboard!Shiftcode
<1>3. /\ Keyboard!Shiftcode(k.code) \subseteq {"SHIFT", "CTL", "ALT"}
      /\ Keyboard!Togglecode(x) \subseteq {"CAPSLOCK"}
    BY DEF Keyboard!Shiftcode, Keyboard!Togglecode
<1>4. /\ (Keyboard!Ctlmap(x) = "up") <=> x = 200
      /\ (Keyboard!Shiftmap(x) = "up") <=> x = 200
      /\ (Keyboard!Normalmap(x) = "up") <=> x = 200
    BY <1>1 DEF Keyboard!Ctlmap, Keyboard!Shiftmap, Keyboard!Normalmap, Keyboard!NO
<1>5. ASSUME NEW flags
      PROVE  (Keyboard!Lookup(Keyboard!Charcode(flags), x) = "up") <=> Cursor(k)
    <2> DEFINE map == Keyboard!Charcode(flags)
    <2>1. map \in {"ctl", "shift", "normal"}
        BY DEF Keyboard!Charcode
    <2> HIDE DEF map
    <2>2. (Keyboard!Lookup(map, x) = "up") <=> x = 200
        BY <2>1, <1>4 DEF Keyboard!Lookup
    <2> QED
        BY <2>2, <1>1 DEF map
<1> QED
    BY <1>2, <1>3, <1>5 DEF x

\* No key is down at first.
LEMMA KeyboardInit == Keyboard!Init => KeyboardIInv
<1> SUFFICES ASSUME Keyboard!Init PROVE KeyboardIInv
    OBVIOUS
<1>1. got.key = Keyboard!NoKey /\ held = {} /\ shift = {} /\ bytes = <<>>
      /\ got = [key |-> got.key, char |-> got.char]
    BY DEF Keyboard!Init
<1>2. PICK k : k \in Key
    BY DEF Key, Keyboard!Extended
<1>3. Sent(k) /\ Modified(k)
    BY <1>1 DEF Sent, Modified
<1> QED
    BY <1>1, <1>2, <1>3 DEF KeyboardIInv, Decoded

\* A key goes down.
LEMMA PressKeeps == ASSUME KeyboardIInv, NEW k \in Key, Keyboard!Press(k) PROVE KeyboardIInv'
<1>1. /\ bytes = <<>> /\ shift' = shift /\ held' = held \cup {k}
      /\ got' = [key |-> k, char |-> Keyboard!NO]
      /\ bytes' = <<>> \o (IF k.ext THEN <<Keyboard!E0, k.code>> ELSE <<k.code>>)
    BY DEF Keyboard!Press, Keyboard!Send
<1>2. bytes' = IF k.ext THEN <<Keyboard!E0, k.code>> ELSE <<k.code>>
    BY <1>1
<1>3. PICK h \in Key : Sent(h) /\ Modified(h)
    BY DEF KeyboardIInv
<1>4. "E0ESC" \notin shift
    BY <1>1, <1>3 DEF Sent, Unread
<1>5. Unread(k, k.code)'
    BY <1>1, <1>2, <1>4, KeyCodes DEF Unread
<1>6. Sent(k)' /\ Decoded'
    BY <1>1, <1>5 DEF Sent, Decoded
<1>7. Modified(k)'
    BY <1>1, <1>3 DEF Modified
<1> QED
    BY <1>1, <1>6, <1>7 DEF KeyboardIInv

\* A key goes up.
LEMMA UnpressKeeps == ASSUME KeyboardIInv, NEW k \in Key, Keyboard!Unpress(k) PROVE KeyboardIInv'
<1>1. /\ bytes = <<>> /\ shift' = shift /\ held' = held \ {k} /\ got' = got
      /\ bytes' = <<>> \o (IF k.ext THEN <<Keyboard!E0, k.code + 128>> ELSE <<k.code + 128>>)
    BY DEF Keyboard!Unpress, Keyboard!Send
<1>2. bytes' = IF k.ext THEN <<Keyboard!E0, k.code + 128>> ELSE <<k.code + 128>>
    BY <1>1
<1>3. PICK h \in Key : Sent(h) /\ Modified(h)
    BY DEF KeyboardIInv
<1>4. "E0ESC" \notin shift
    BY <1>1, <1>3 DEF Sent, Unread
<1>5. Unread(k, k.code + 128)'
    BY <1>1, <1>2, <1>4, KeyCodes DEF Unread
<1>6. Sent(k)' /\ bytes' # <<>>
    BY <1>1, <1>2, <1>5 DEF Sent
<1>7. Modified(k)'
    BY <1>1, <1>3, <1>6 DEF Modified
<1>8. Decoded'
    BY <1>1 DEF KeyboardIInv, Decoded, Unread
<1> QED
    BY <1>1, <1>6, <1>7, <1>8 DEF KeyboardIInv

\* The first byte of an extended key is read.
LEMMA EscapeKeeps ==
    ASSUME KeyboardIInv, Keyboard!Kbdgetc, NEW k \in Key, Sent(k), Modified(k),
           NEW d \in {k.code, k.code + 128}, k.ext, bytes = <<Keyboard!E0, d>>,
           "E0ESC" \notin shift
    PROVE  KeyboardIInv'
<1>1. Head(bytes) = Keyboard!E0 /\ Tail(bytes) = <<d>>
    OBVIOUS
<1>2. bytes' = <<d>> /\ shift' = shift \cup {"E0ESC"} /\ got' = got /\ held' = held
    BY <1>1 DEF Keyboard!Kbdgetc
<1>3. Sent(k)'
    BY <1>2, KeyCodes DEF Sent, Unread
<1>4. Modified(k)'
    BY <1>2 DEF Modified
<1>5. Decoded'
    BY <1>2, KeyCodes DEF KeyboardIInv, Decoded, Unread, Keyboard!E0
<1>6. shift' \subseteq Flag
    BY <1>2 DEF KeyboardIInv, Flag
<1> QED
    BY <1>2, <1>3, <1>4, <1>5, <1>6 DEF KeyboardIInv

\* The code of a key that has gone down is read.
LEMMA DownKeeps ==
    ASSUME KeyboardIInv, Keyboard!Kbdgetc, NEW k \in Key, Modified(k), k \in held,
           got = [key |-> k, char |-> Keyboard!NO], bytes = <<k.code>>,
           k.ext <=> "E0ESC" \in shift
    PROVE  KeyboardIInv'
<1> DEFINE x == Keyboard!Extend(k.code)
           flags == Keyboard!SymmetricDifference(
                      (shift \ {"E0ESC"}) \cup Keyboard!Shiftcode(x), Keyboard!Togglecode(x))
           c == Keyboard!Lookup(Keyboard!Charcode(flags), x)
<1>1. Head(bytes) = k.code /\ Tail(bytes) = <<>> /\ k.code < 128 /\ k.code # Keyboard!E0
    BY KeyCodes DEF Keyboard!E0
<1>2. x = Extending(k)
    BY DEF Keyboard!Extend, Extending
<1>3. /\ bytes' = <<>> /\ held' = held /\ shift' = flags
      /\ got' = [got EXCEPT !.char = IF "CAPSLOCK" \in flags THEN Keyboard!Capslock(c) ELSE c]
    <2>1. ~(k.code >= 128)
        BY KeyCodes
    <2> HIDE DEF x
    <2> QED
        BY <1>1, <2>1 DEF Keyboard!Kbdgetc, x
<1>4. shift' \subseteq ((shift \cup Keyboard!Shiftcode(k.code)) \ {"E0ESC"}) \cup {"CAPSLOCK"}
    BY <1>2, <1>3, KeyTables DEF Keyboard!SymmetricDifference
<1>5. Sent(k)' /\ shift' \subseteq Flag
    BY <1>3, <1>4, KeyTables DEF Sent, KeyboardIInv, Flag
<1>6. Modified(k)'
    BY <1>3, <1>4 DEF Modified
<1>7. (c = "up") <=> Cursor(k)
    BY <1>2, KeyTables
<1> HIDE DEF c, flags
<1>8. (Keyboard!Capslock(c) = "up") <=> c = "up"
    BY DEF Keyboard!Capslock
<1>9. (got'.char = "up") <=> Cursor(got'.key)
    BY <1>3, <1>7, <1>8
<1> QED
    BY <1>3, <1>5, <1>6, <1>9 DEF KeyboardIInv, Decoded

\* The code of a key that has gone up is read.
LEMMA UpKeeps ==
    ASSUME KeyboardIInv, Keyboard!Kbdgetc, NEW k \in Key, Modified(k), k \notin held,
           bytes = <<k.code + 128>>, k.ext <=> "E0ESC" \in shift
    PROVE  KeyboardIInv'
<1>1. /\ Head(bytes) = k.code + 128 /\ Tail(bytes) = <<>>
      /\ k.code + 128 >= 128 /\ k.code + 128 # Keyboard!E0 /\ k.code \in Int
    BY KeyCodes DEF Keyboard!E0
<1>2. Extending(k) = IF "E0ESC" \in shift THEN k.code + 128 ELSE k.code + 128 - 128
    BY <1>1 DEF Extending
<1>3. /\ bytes' = <<>> /\ held' = held /\ got' = got
      /\ shift' = shift \ Keyboard!Cleared(Extending(k))
    BY <1>1, <1>2 DEF Keyboard!Kbdgetc
<1>4. shift' = shift \ (Keyboard!Shiftcode(k.code) \cup {"E0ESC"})
    BY <1>3, KeyTables DEF Keyboard!Cleared
<1>5. Sent(k)' /\ shift' \subseteq Flag
    BY <1>3, <1>4 DEF Sent, KeyboardIInv
<1>6. Modified(k)'
    BY <1>3, <1>4 DEF Modified
<1>7. Decoded'
    BY <1>3, KeyCodes DEF KeyboardIInv, Decoded, Unread
<1> QED
    BY <1>3, <1>5, <1>6, <1>7 DEF KeyboardIInv

\* kbdgetc() reads one byte.
LEMMA KbdgetcKeeps == ASSUME KeyboardIInv, Keyboard!Kbdgetc PROVE KeyboardIInv'
<1>1. PICK k \in Key : Sent(k) /\ Modified(k)
    BY DEF KeyboardIInv
<1>2. bytes # <<>>
    BY DEF Keyboard!Kbdgetc
<1> QED
    BY <1>1, <1>2, EscapeKeeps, DownKeeps, UpKeeps DEF Sent, Unread

\* The invariant of the keyboard is one.
LEMMA KeyboardNext == KeyboardIInv /\ [Keyboard!Next]_Keyboard!vars => KeyboardIInv'
<1> SUFFICES ASSUME KeyboardIInv, [Keyboard!Next]_Keyboard!vars PROVE KeyboardIInv'
    OBVIOUS
<1>1. ASSUME NEW k \in Key, Keyboard!Press(k) \/ Keyboard!Unpress(k) PROVE KeyboardIInv'
    BY <1>1, PressKeeps, UnpressKeeps
<1>2. CASE UNCHANGED Keyboard!vars
    BY <1>2 DEF Keyboard!vars, KeyboardIInv, Sent, Unread, Modified, Decoded
<1> QED
    BY <1>1, <1>2, KbdgetcKeeps DEF Keyboard!Next, Key

\* Shift, control and alt end with the keys that set them, whatever else is held down or
\* goes up in between; and a cursor key is never taken for the digit of the keypad whose
\* code it shares, nor the digit for the cursor key.
THEOREM KeysAreKept ==
    Keyboard!Spec => [](Keyboard!NoModifierSticks /\ Keyboard!CursorKeyIsExtended)
<1>1. KeyboardIInv => Keyboard!NoModifierSticks
    BY DEF KeyboardIInv, Sent, Unread, Modified, Flag, Keyboard!NoModifierSticks
<1>2. KeyboardIInv => Keyboard!CursorKeyIsExtended
    <2> SUFFICES ASSUME Decoded, bytes = <<>>, got.key \in held
                 PROVE  (got.char = "up") <=> got.key.ext /\ got.key.code = 72
        BY DEF KeyboardIInv, Keyboard!CursorKeyIsExtended
    <2> QED
        BY DEF Decoded, Unread, Cursor
<1> QED
    BY <1>1, <1>2, KeyboardInit, KeyboardNext, PTL DEF Keyboard!Spec

-----------------------------------------------------------------------------
(* Sums *)

CONSTANTS Callers, ncpu, Result, MaxCounted
VARIABLES cpus, numof_all_syscalls, holder, on, at, weight, loaded, query, calls

Counting == INSTANCE SyscallCount WITH Proc <- Callers, MaxCalls <- MaxCounted

SumOf(f, S) == Counting!SumFunctionOnSet(f, S)

\* A sum takes an element that CHOOSE picks, and goes on with the others: g has the sums
\* of the subsets of D.
Picked(s) == CHOOSE x \in s : TRUE
Sums(f, D, g) ==
    g = [s \in D |-> IF s = {} THEN 0 ELSE f[Picked(s)] + g[s \ {Picked(s)}]]

HaveSums(f, D) == \E g : Sums(f, D, g)

\* Every set of numbers has a least one.
LEMMA LeastNumber == ASSUME NEW N \in SUBSET Nat, N # {} PROVE \E x \in N : \A y \in N : x <= y
<1> DEFINE R == OpToRel(<, Nat)
<1>1. IsWellFoundedOn(R, Nat)
    BY NatLessThanWellFounded
<1>2. \A x, y \in Nat : x < y => <<x, y>> \in R
    BY DEF OpToRel
<1> HIDE DEF R
<1>3. PICK x \in N : \A y \in N : ~(<<y, x>> \in R)
    BY <1>1, WFMin
<1>4. ASSUME NEW y \in N PROVE x <= y
    <2>1. ~(y < x)
        BY <1>2, <1>3
    <2> QED
        BY <2>1, SMT
<1> QED
    BY <1>4

\* A finite set without one of its elements.
LEMMA OneLess ==
    ASSUME NEW S, IsFiniteSet(S), NEW s \in SUBSET S, NEW x \in s
    PROVE  /\ s \ {x} \in SUBSET S /\ IsFiniteSet(s) /\ Cardinality(s) \in Nat \ {0}
           /\ Cardinality(s \ {x}) = Cardinality(s) - 1
<1>1. IsFiniteSet(s)
    BY FS_Subset
<1> QED
    BY <1>1, FS_RemoveElement, FS_EmptySet, FS_CardinalityType

\* The subsets of S up to a size.
Subsets(S, size) == {t \in SUBSET S : Cardinality(t) <= size}

\* There are sums of them.
LEMMA SumsBelow ==
    ASSUME NEW f, NEW S, IsFiniteSet(S), NEW size \in Nat
    PROVE  HaveSums(f, Subsets(S, size))
<1> DEFINE Small(m) == {t \in SUBSET S : Cardinality(t) <= m}
           Bad == {m \in Nat : ~ \E g : Sums(f, Small(m), g)}
<1>1. SUFFICES ASSUME Bad # {} PROVE FALSE
    BY DEF HaveSums, Subsets
<1>2. PICK m \in Bad : \A k \in Bad : m <= k
    BY <1>1, LeastNumber
<1>3. \A s \in SUBSET S : s # {} => Picked(s) \in s
    BY DEF Picked
<1>4. CASE m = 0
    <2> DEFINE g == [s \in Small(0) |-> 0]
    <2>1. ASSUME NEW s \in Small(0) PROVE s = {}
        <3>1. IsFiniteSet(s) /\ Cardinality(s) = 0
            BY FS_Subset, FS_CardinalityType
        <3> QED
            BY <3>1, FS_EmptySet
    <2>2. Sums(f, Small(0), g)
        BY <2>1 DEF Sums
    <2> QED
        BY <1>4, <2>2
<1>5. CASE m # 0
    <2>1. m - 1 \in Nat /\ m - 1 \notin Bad
        <3>1. m \in Nat
            BY <1>2
        <3> HIDE DEF Bad
        <3> QED
            BY <1>2, <1>5, <3>1
    <2>2. PICK g : Sums(f, Small(m - 1), g)
        BY <2>1
    <2> DEFINE h == [s \in Small(m) |-> IF s = {} THEN 0 ELSE f[Picked(s)] + g[s \ {Picked(s)}]]
    <2>3. ASSUME NEW s \in Small(m), s # {} PROVE h[s \ {Picked(s)}] = g[s \ {Picked(s)}]
        <3>1. s \ {Picked(s)} \in SUBSET S /\ Cardinality(s \ {Picked(s)}) <= m - 1
            BY <1>3, <2>3, OneLess
        <3> DEFINE t == s \ {Picked(s)}
        <3>2. t \in Small(m - 1) /\ t \in Small(m)
            <4>1. IsFiniteSet(t)
                BY <3>1, FS_Subset
            <4> QED
                BY <3>1, <4>1, FS_CardinalityType
        <3> HIDE DEF t
        <3>3. g[t] = IF t = {} THEN 0 ELSE f[Picked(t)] + g[t \ {Picked(t)}]
            BY <2>2, <3>2 DEF Sums
        <3>4. h[t] = IF t = {} THEN 0 ELSE f[Picked(t)] + g[t \ {Picked(t)}]
            BY <3>2
        <3> QED
            BY <3>3, <3>4 DEF t
    <2>4. Sums(f, Small(m), h)
        BY <2>3, Zenon DEF Sums
    <2> QED
        BY <1>2, <2>4
<1> QED
    BY <1>4, <1>5

\* Two tables of sums agree on what they both have.
LEMMA SumsAgree ==
    ASSUME NEW f, NEW S, IsFiniteSet(S), NEW T \in SUBSET S, NEW g, NEW h,
           Sums(f, SUBSET S, g), Sums(f, SUBSET T, h)
    PROVE  h[T] = g[T]
<1> DEFINE Bad == {size \in Nat : \E s \in SUBSET T : Cardinality(s) = size /\ h[s] # g[s]}
<1>0. IsFiniteSet(T)
    BY FS_Subset
<1>1. SUFFICES ASSUME Bad # {} PROVE FALSE
    <2>1. Cardinality(T) \in Nat /\ T \in SUBSET T
        BY <1>0, FS_CardinalityType
    <2> QED
        BY <2>1
<1>2. PICK m \in Bad : \A k \in Bad : m <= k
    BY <1>1, LeastNumber
<1>3. PICK s \in SUBSET T : Cardinality(s) = m /\ h[s] # g[s]
    BY <1>2
<1>4. /\ g[s] = IF s = {} THEN 0 ELSE f[Picked(s)] + g[s \ {Picked(s)}]
      /\ h[s] = IF s = {} THEN 0 ELSE f[Picked(s)] + h[s \ {Picked(s)}]
    BY DEF Sums
<1>5. s # {} /\ Picked(s) \in s
    <2>1. s # {}
        <3>1. ASSUME s = {} PROVE FALSE
            <4>1. g[s] = 0
                BY <1>4, <3>1
            <4>2. h[s] = 0
                BY <1>4, <3>1
            <4> QED
                BY <1>3, <4>1, <4>2
        <3> QED
            BY <3>1
    <2> QED
        BY <2>1 DEF Picked
<1>6. s \ {Picked(s)} \in SUBSET T /\ Cardinality(s \ {Picked(s)}) = m - 1 /\ m - 1 \in Nat
    <2> DEFINE x == Picked(s)
    <2>1. x \in s
        BY <1>5
    <2> HIDE DEF x
    <2>2. /\ s \ {x} \in SUBSET T /\ Cardinality(s) \in Nat \ {0}
          /\ Cardinality(s \ {x}) = Cardinality(s) - 1
        BY <1>0, <2>1, OneLess
    <2>3. /\ s \ {x} \in SUBSET T /\ Cardinality(s \ {x}) = m - 1 /\ m - 1 \in Nat
        BY <1>3, <2>2
    <2> QED
        BY <2>3 DEF x
<1>7. h[s \ {Picked(s)}] = g[s \ {Picked(s)}]
    BY <1>2, <1>6
<1> QED
    BY <1>3, <1>4, <1>5, <1>7

\* There are sums of all subsets.
LEMMA SumsExist ==
    ASSUME NEW f, NEW S, IsFiniteSet(S), NEW T \in SUBSET S
    PROVE  HaveSums(f, SUBSET T)
<1>1. IsFiniteSet(T) /\ Cardinality(T) \in Nat
    BY FS_Subset, FS_CardinalityType
<1>2. Subsets(T, Cardinality(T)) = SUBSET T
    BY <1>1, FS_Subset DEF Subsets
<1>3. HaveSums(f, Subsets(T, Cardinality(T)))
    BY <1>1, SumsBelow, Zenon
<1> QED
    BY <1>2, <1>3

\* A sum is the one in the table.
LEMMA SumInTable ==
    ASSUME NEW f, NEW S, IsFiniteSet(S), NEW T \in SUBSET S, NEW g, Sums(f, SUBSET S, g)
    PROVE  SumOf(f, T) = g[T]
<1> DEFINE h == CHOOSE it : Sums(f, SUBSET T, it)
<1>1. SumOf(f, T) = h[T]
    BY DEF SumOf, Counting!SumFunctionOnSet, Counting!FoldFunctionOnSet, Counting!MapThenFoldSet,
           Sums, Picked
<1>4. HaveSums(f, SUBSET T)
    BY SumsExist
<1>5. Sums(f, SUBSET T, h)
    BY <1>4 DEF HaveSums
<1> QED
    BY <1>1, <1>5, SumsAgree

\* The sum of nothing, and of a set by the element that is picked.
LEMMA SumSteps ==
    ASSUME NEW f, NEW S, IsFiniteSet(S)
    PROVE  /\ SumOf(f, {}) = 0
           /\ S # {} => /\ Picked(S) \in S
                        /\ SumOf(f, S) = f[Picked(S)] + SumOf(f, S \ {Picked(S)})
<1>1. S \in SUBSET S
    OBVIOUS
<1>3. PICK g : Sums(f, SUBSET S, g)
    BY <1>1, SumsExist DEF HaveSums
<1>4. \A T \in SUBSET S : SumOf(f, T) = g[T]
    BY <1>3, SumInTable
<1>5. g[{}] = 0 /\ (S # {} => g[S] = f[Picked(S)] + g[S \ {Picked(S)}])
    BY <1>3 DEF Sums
<1> QED
    BY <1>4, <1>5 DEF Picked

\* Sums of integers are integers, and any element can be taken first.
LEMMA SumTakes ==
    ASSUME NEW D, IsFiniteSet(D), NEW f, \A x \in D : f[x] \in Int
    PROVE  /\ \A S \in SUBSET D : SumOf(f, S) \in Int
           /\ \A S \in SUBSET D : \A x \in S : SumOf(f, S) = f[x] + SumOf(f, S \ {x})
<1> DEFINE Good(S) == /\ SumOf(f, S) \in Int
                      /\ \A x \in S : SumOf(f, S) = f[x] + SumOf(f, S \ {x})
           Bad == {size \in Nat : \E S \in SUBSET D : Cardinality(S) = size /\ ~Good(S)}
<1>1. SUFFICES ASSUME Bad # {} PROVE FALSE
    <2>1. \A S \in SUBSET D : Cardinality(S) \in Nat
        BY FS_Subset, FS_CardinalityType
    <2>2. \A S \in SUBSET D : Good(S)
        BY <2>1
    <2> QED
        BY <2>2
<1>2. PICK m \in Bad : \A k \in Bad : m <= k
    BY <1>1, LeastNumber
<1>3. PICK S \in SUBSET D : Cardinality(S) = m /\ ~Good(S)
    BY <1>2
<1>4. ASSUME NEW T \in SUBSET D, Cardinality(T) \in Nat, Cardinality(T) < m PROVE Good(T)
    BY <1>2, <1>4
<1>0. m \in Nat
    BY <1>2
<1> HIDE DEF Bad
<1>5. IsFiniteSet(S)
    BY FS_Subset
<1>6. S # {}
    <2>1. SumOf(f, {}) = 0
        BY <1>5, SumSteps
    <2> QED
        BY <1>3, <2>1
<1> DEFINE y == Picked(S)
<1>7. y \in S /\ SumOf(f, S) = f[y] + SumOf(f, S \ {y})
    BY <1>5, <1>6, SumSteps
<1> HIDE DEF y
<1>8. ASSUME NEW x \in S PROVE Good(S \ {x})
    <2>1. S \ {x} \in SUBSET D /\ Cardinality(S \ {x}) = m - 1 /\ m \in Nat \ {0}
        BY <1>3, OneLess
    <2> QED
        BY <1>4, <2>1
<1>9. SumOf(f, S) \in Int
    BY <1>7, <1>8
<1>10. ASSUME NEW x \in S PROVE SumOf(f, S) = f[x] + SumOf(f, S \ {x})
    <2>1. CASE x = y
        BY <1>7, <2>1
    <2>2. CASE x # y
        <3>1. SumOf(f, S \ {y}) = f[x] + SumOf(f, (S \ {y}) \ {x})
            BY <1>7, <1>8, <2>2
        <3>2. SumOf(f, S \ {x}) = f[y] + SumOf(f, (S \ {x}) \ {y})
            BY <1>7, <1>8, <2>2
        <3>3. (S \ {y}) \ {x} = (S \ {x}) \ {y}
            OBVIOUS
        <3>4. SumOf(f, (S \ {x}) \ {y}) \in Int
            <4>1. (S \ {x}) \ {y} \in SUBSET D /\ Cardinality((S \ {x}) \ {y}) = m - 2
                  /\ m - 2 \in Nat
                <5>1. Cardinality(S \ {x}) = m - 1
                    BY <1>3, <1>5, OneLess
                <5>2. y \in S \ {x} /\ S \ {x} \in SUBSET D
                    BY <1>7, <2>2
                <5>3. Cardinality(S \ {x}) \in Nat \ {0}
                      /\ Cardinality((S \ {x}) \ {y}) = Cardinality(S \ {x}) - 1
                    BY <5>2, OneLess
                <5> QED
                    BY <1>0, <5>1, <5>2, <5>3
            <4>2. Good((S \ {x}) \ {y})
                <5>1. m - 2 < m
                    BY <1>0
                <5> QED
                    BY <1>4, <4>1, <5>1
            <4> QED
                BY <4>2
        <3>5. f[x] \in Int /\ f[y] \in Int
            BY <1>7
        <3> DEFINE rest == SumOf(f, (S \ {x}) \ {y})
        <3>6. /\ SumOf(f, S) = f[y] + (f[x] + rest) /\ SumOf(f, S \ {x}) = f[y] + rest
              /\ rest \in Int
            BY <1>7, <3>1, <3>2, <3>3, <3>4
        <3> HIDE DEF rest
        <3> QED
            BY <3>5, <3>6
    <2> QED
        BY <2>1, <2>2
<1> QED
    BY <1>3, <1>9, <1>10

\* The same of the whole set.
LEMMA SumWithout ==
    ASSUME NEW D, IsFiniteSet(D), NEW f, \A x \in D : f[x] \in Int, NEW x \in D
    PROVE  /\ SumOf(f, D) = f[x] + SumOf(f, D \ {x})
           /\ SumOf(f, D) \in Int /\ SumOf(f, D \ {x}) \in Int
<1>1. D \in SUBSET D /\ D \ {x} \in SUBSET D
    OBVIOUS
<1> QED
    BY <1>1, SumTakes

\* Larger summands, larger sum.
LEMMA SumGrows ==
    ASSUME NEW D, IsFiniteSet(D), NEW f, NEW g,
           \A x \in D : f[x] \in Int /\ g[x] \in Int /\ f[x] <= g[x]
    PROVE  SumOf(f, D) <= SumOf(g, D)
<1> DEFINE Bad == {size \in Nat : \E S \in SUBSET D : Cardinality(S) = size
                                                    /\ ~(SumOf(f, S) <= SumOf(g, S))}
<1>1. SUFFICES ASSUME Bad # {} PROVE FALSE
    <2>1. Cardinality(D) \in Nat
        BY FS_CardinalityType
    <2> QED
        BY <2>1
<1>2. PICK m \in Bad : \A k \in Bad : m <= k
    BY <1>1, LeastNumber
<1>3. PICK S \in SUBSET D : Cardinality(S) = m /\ ~(SumOf(f, S) <= SumOf(g, S))
    BY <1>2
<1>4. IsFiniteSet(S)
    BY FS_Subset
<1>5. S # {}
    <2>1. SumOf(f, {}) = 0 /\ SumOf(g, {}) = 0
        BY <1>4, SumSteps
    <2> QED
        BY <1>3, <2>1
<1>6. PICK x : x \in S
    BY <1>5
<1>7. S \ {x} \in SUBSET D /\ Cardinality(S \ {x}) = m - 1 /\ m - 1 \in Nat
    BY <1>3, <1>6, OneLess
<1>8. SumOf(f, S \ {x}) <= SumOf(g, S \ {x})
    BY <1>2, <1>7
<1>9. /\ SumOf(f, S) = f[x] + SumOf(f, S \ {x}) /\ SumOf(f, S \ {x}) \in Int
      /\ SumOf(g, S) = g[x] + SumOf(g, S \ {x}) /\ SumOf(g, S \ {x}) \in Int
    BY <1>6, <1>7, SumTakes
<1>10. f[x] \in Int /\ g[x] \in Int /\ f[x] <= g[x]
    BY <1>6
<1> QED
    BY <1>3, <1>8, <1>9, <1>10

\* The same summands, the same sum.
LEMMA SumSame ==
    ASSUME NEW D, IsFiniteSet(D), NEW f, NEW g,
           \A x \in D : f[x] \in Int /\ g[x] = f[x]
    PROVE  SumOf(f, D) = SumOf(g, D)
<1>1. SumOf(f, D) <= SumOf(g, D) /\ SumOf(g, D) <= SumOf(f, D)
    BY SumGrows
<1>2. SumOf(f, D) \in Int /\ SumOf(g, D) \in Int
    BY SumTakes
<1> QED
    BY <1>1, <1>2

\* A sum of naturals is not negative.
LEMMA SumIsNatural ==
    ASSUME NEW D, IsFiniteSet(D), NEW f, \A x \in D : f[x] \in Nat
    PROVE  SumOf(f, D) \in Nat
<1> DEFINE Bad == {size \in Nat : \E S \in SUBSET D : Cardinality(S) = size
                                                       /\ SumOf(f, S) \notin Nat}
<1>1. SUFFICES ASSUME Bad # {} PROVE FALSE
    <2>1. Cardinality(D) \in Nat /\ D \in SUBSET D
        BY FS_CardinalityType
    <2> QED
        BY <2>1
<1>2. PICK m \in Bad : \A k \in Bad : m <= k
    BY <1>1, LeastNumber
<1>3. PICK S \in SUBSET D : Cardinality(S) = m /\ SumOf(f, S) \notin Nat
    BY <1>2
<1>4. IsFiniteSet(S)
    BY FS_Subset
<1>5. S # {}
    <2>1. SumOf(f, {}) = 0
        BY <1>4, SumSteps
    <2> QED
        BY <1>3, <2>1
<1>6. Picked(S) \in S /\ SumOf(f, S) = f[Picked(S)] + SumOf(f, S \ {Picked(S)})
    BY <1>4, <1>5, SumSteps
<1>7. /\ S \ {Picked(S)} \in SUBSET D /\ m - 1 \in Nat
      /\ Cardinality(S \ {Picked(S)}) = m - 1
    BY <1>3, <1>6, OneLess
<1>8. SumOf(f, S \ {Picked(S)}) \in Nat /\ f[Picked(S)] \in Nat
    BY <1>2, <1>6, <1>7
<1> QED
    BY <1>3, <1>6, <1>8

\* A sum of zeros is zero.
LEMMA SumOfZeros ==
    ASSUME NEW D, IsFiniteSet(D), NEW f, \A x \in D : f[x] = 0
    PROVE  SumOf(f, D) = 0
<1> DEFINE Bad == {size \in Nat : \E S \in SUBSET D : Cardinality(S) = size /\ SumOf(f, S) # 0}
<1>1. SUFFICES ASSUME Bad # {} PROVE FALSE
    <2>1. Cardinality(D) \in Nat /\ D \in SUBSET D
        BY FS_CardinalityType
    <2> QED
        BY <2>1
<1>2. PICK m \in Bad : \A k \in Bad : m <= k
    BY <1>1, LeastNumber
<1>3. PICK S \in SUBSET D : Cardinality(S) = m /\ SumOf(f, S) # 0
    BY <1>2
<1>4. IsFiniteSet(S)
    BY FS_Subset
<1>5. S # {}
    <2>1. SumOf(f, {}) = 0
        BY <1>4, SumSteps
    <2> QED
        BY <1>3, <2>1
<1>6. Picked(S) \in S /\ SumOf(f, S) = f[Picked(S)] + SumOf(f, S \ {Picked(S)})
    BY <1>4, <1>5, SumSteps
<1>7. /\ S \ {Picked(S)} \in SUBSET D /\ m - 1 \in Nat
      /\ Cardinality(S \ {Picked(S)}) = m - 1
    BY <1>3, <1>6, OneLess
<1>8. SumOf(f, S \ {Picked(S)}) = 0 /\ f[Picked(S)] = 0
    BY <1>2, <1>6, <1>7
<1> QED
    BY <1>3, <1>6, <1>8

-----------------------------------------------------------------------------
(* The counters of system calls *)

\* What the constants stand for.
Counted == IsFiniteSet(Callers) /\ Counting!NoProc \notin Callers /\ ncpu \in Nat

CountTypes ==
    /\ cpus \in [Counting!CPU -> Int] /\ numof_all_syscalls \in Int
    /\ holder \in [{"cpu_lock", "main_lock"} -> Callers \cup {Counting!NoProc}]
    /\ on \in [Callers -> Counting!CPU \cup {Counting!NoCPU}]
    /\ at \in [Callers -> {"user", "count_cpu", "store_cpu", "count_all", "store_all", "sum"}]
    /\ weight \in [Callers -> Nat] /\ loaded \in [Callers -> Int]
    /\ query \in [Callers -> [sum : Int, i : Nat \ {0}, globalBefore : Int]]

\* Who is about to store has the lock, its CPU to itself, and what is still there.
StoresWhatIsThere ==
    \A p \in Callers :
        /\ at[p] = "store_cpu" => /\ holder["cpu_lock"] = p /\ on[p] \in Counting!CPU
                                  /\ loaded[p] = cpus[on[p]]
        /\ at[p] = "store_all" => holder["main_lock"] = p /\ loaded[p] = numof_all_syscalls

Balanced == numof_all_syscalls + SumOf(weight, Counting!Half) = SumOf(cpus, Counting!CPU)

\* A query has read the counters below i; those may only have grown, and what it began
\* with was counted by those it read and the others.
QueriesAreRight ==
    \A p \in Callers : at[p] = "sum" =>
        /\ query[p].i \in 1..ncpu + 1
        /\ query[p].sum <= SumOf(cpus, 1..query[p].i - 1)
        /\ query[p].globalBefore <= query[p].sum + SumOf(cpus, query[p].i..ncpu)

CountIInv == CountTypes /\ StoresWhatIsThere /\ Balanced /\ QueriesAreRight

\* Sums over CPUs and processes are over finite sets of numbers.
LEMMA CountedSums ==
    ASSUME Counted, CountTypes
    PROVE  /\ IsFiniteSet(Counting!CPU) /\ IsFiniteSet(Counting!Half)
           /\ \A i \in Int : /\ IsFiniteSet(1..i - 1) /\ IsFiniteSet(i..ncpu)
                             /\ i \in 1..ncpu + 1 => /\ SumOf(cpus, 1..i - 1) \in Int
                                                     /\ SumOf(cpus, i..ncpu) \in Int
           /\ SumOf(cpus, Counting!CPU) \in Int /\ SumOf(weight, Counting!Half) \in Nat
<1>1. \A a, b \in Int : IsFiniteSet(a..b)
    BY FS_Interval
<1>2. IsFiniteSet(Counting!CPU) /\ IsFiniteSet(Counting!Half)
    <2>1. Counting!Half \in SUBSET Callers
        BY DEF Counting!Half
    <2> QED
        BY <1>1, <2>1, FS_Subset DEF Counted, Counting!CPU
<1>3. \A i \in Int : IsFiniteSet(1..i - 1) /\ IsFiniteSet(i..ncpu)
    BY <1>1 DEF Counted
<1>4. ASSUME NEW i \in 1..ncpu + 1
      PROVE  SumOf(cpus, 1..i - 1) \in Int /\ SumOf(cpus, i..ncpu) \in Int
    <2>1. 1..i - 1 \in SUBSET Counting!CPU /\ i..ncpu \in SUBSET Counting!CPU
        BY DEF Counted, Counting!CPU
    <2>2. \A c \in Counting!CPU : cpus[c] \in Int
        BY DEF CountTypes
    <2> QED
        BY <1>2, <2>1, <2>2, SumTakes
<1>5. SumOf(cpus, Counting!CPU) \in Int
    <2>1. \A c \in Counting!CPU : cpus[c] \in Int
        BY DEF CountTypes
    <2> QED
        BY <1>2, <2>1, SumTakes
<1>6. SumOf(weight, Counting!Half) \in Nat
    <2>1. \A p \in Counting!Half : weight[p] \in Nat
        BY DEF CountTypes, Counting!Half
    <2> QED
        BY <1>2, <2>1, SumIsNatural
<1> QED
    BY <1>2, <1>3, <1>4, <1>5, <1>6 DEF Counted

\* The counters start at zero.
LEMMA CountingBegins == ASSUME Counted, Counting!Init PROVE CountIInv
<1> USE DEF Counting!CPU, Counting!NoCPU, Counting!NoProc
<1>1. CountTypes /\ StoresWhatIsThere /\ QueriesAreRight
    BY DEF CountTypes, StoresWhatIsThere, QueriesAreRight, Counting!Init, Counting!None
<1>2. Counting!Half = {}
    BY DEF Counting!Init, Counting!Half
<1>3. SumOf(weight, {}) = 0
    BY FS_EmptySet, SumSteps
<1>4. SumOf(cpus, Counting!CPU) = 0
    <2>1. IsFiniteSet(Counting!CPU)
        BY <1>1, CountedSums
    <2>2. \A c \in Counting!CPU : cpus[c] = 0
        BY DEF Counting!Init
    <2> QED
        BY <2>1, <2>2, SumOfZeros
<1> QED
    BY <1>1, <1>2, <1>3, <1>4 DEF CountIInv, Balanced, Counting!Init

\* Every step keeps the types.
LEMMA CountTypesKept ==
    ASSUME Counted, CountTypes, [Counting!Next]_(Counting!vars)
    PROVE  CountTypes'
<1> USE DEF Counting!CPU, Counting!NoCPU, Counting!NoProc
<1>1. CASE UNCHANGED Counting!vars
    BY <1>1 DEF CountTypes, Counting!vars, Counting!CPU, Counting!NoCPU, Counting!NoProc
<1>2. ASSUME NEW p \in Callers, NEW c \in Counting!CPU, Counting!Dispatch(p, c) PROVE CountTypes'
    BY <1>2 DEF CountTypes, Counting!Dispatch
<1>3. ASSUME NEW p \in Callers, Counting!Preempt(p) PROVE CountTypes'
    BY <1>3 DEF CountTypes, Counting!Preempt
<1>4. \A r : Counting!Weight(r) \in Nat
    BY DEF Counting!Weight
<1>5. ASSUME NEW p \in Callers, NEW r \in Result, Counting!Syscall(p, r) PROVE CountTypes'
    BY <1>4, <1>5 DEF CountTypes, Counting!Syscall
<1>6. ASSUME NEW p \in Callers, Counting!LoadCpu(p) PROVE CountTypes'
    BY <1>6 DEF CountTypes, Counting!LoadCpu, Counting!Running
<1>7. ASSUME NEW p \in Callers, Counting!StoreCpu(p) PROVE CountTypes'
    <2>1. loaded[p] + weight[p] \in Int
        BY DEF CountTypes
    <2>2. cpus' \in [Counting!CPU -> Int]
        BY <1>7, <2>1 DEF CountTypes, Counting!StoreCpu
    <2> QED
        BY <1>7, <2>2 DEF CountTypes, Counting!StoreCpu
<1>8. ASSUME NEW p \in Callers, Counting!LoadAll(p) PROVE CountTypes'
    BY <1>8 DEF CountTypes, Counting!LoadAll
<1>9. ASSUME NEW p \in Callers, Counting!StoreAll(p) PROVE CountTypes'
    <2>1. loaded[p] + weight[p] \in Int
        BY DEF CountTypes
    <2> QED
        BY <1>9, <2>1 DEF CountTypes, Counting!StoreAll
<1>10. ASSUME NEW p \in Callers, Counting!CountSyscalls(p) PROVE CountTypes'
    <2>1. query' \in [Callers -> [sum : Int, i : Nat \ {0}, globalBefore : Int]]
        <3>1. /\ query \in [Callers -> [sum : Int, i : Nat \ {0}, globalBefore : Int]]
              /\ numof_all_syscalls \in Int
            BY DEF CountTypes
        <3>2. query' = [query EXCEPT ![p] = [sum |-> 0, i |-> 1,
                                             globalBefore |-> numof_all_syscalls]]
            <4>1. query' = [query EXCEPT ![p] = [Counting!None EXCEPT
                                                   !.globalBefore = numof_all_syscalls]]
                BY <1>10 DEF Counting!CountSyscalls
            <4>2. [Counting!None EXCEPT !.globalBefore = numof_all_syscalls]
                    = [sum |-> 0, i |-> 1, globalBefore |-> numof_all_syscalls]
                BY DEF Counting!None
            <4> QED
                BY <4>1, <4>2
        <3> QED
            BY <3>1, <3>2
    <2> QED
        BY <1>10, <2>1 DEF CountTypes, Counting!CountSyscalls
<1>11. ASSUME NEW p \in Callers, Counting!SumCpu(p) PROVE CountTypes'
    <2>1. cpus[query[p].i] \in Int
        <3>1. query[p].i \in Nat \ {0} /\ query[p].i <= ncpu
            BY <1>11 DEF CountTypes, Counting!SumCpu
        <3>2. query[p].i \in 1..ncpu
            BY <3>1 DEF Counted
        <3>3. cpus \in [1..ncpu -> Int]
            BY DEF CountTypes
        <3> QED
            BY <3>2, <3>3
    <2>2. query' \in [Callers -> [sum : Int, i : Nat \ {0}, globalBefore : Int]]
        <3>1. query \in [Callers -> [sum : Int, i : Nat \ {0}, globalBefore : Int]]
            BY DEF CountTypes
        <3>2. query' = [query EXCEPT ![p].sum = @ + cpus[query[p].i], ![p].i = @ + 1]
            BY <1>11 DEF Counting!SumCpu, Counting!Read
        <3> QED
            BY <2>1, <3>1, <3>2
    <2> QED
        BY <1>11, <2>2 DEF CountTypes, Counting!SumCpu
<1>12. ASSUME NEW p \in Callers, Counting!Report(p) PROVE CountTypes'
    <2>1. query' \in [Callers -> [sum : Int, i : Nat \ {0}, globalBefore : Int]]
        BY <1>12 DEF CountTypes, Counting!Report, Counting!None
    <2> QED
        BY <1>4, <1>12, <2>1 DEF CountTypes, Counting!Report
<1> QED
    BY <1>1, <1>2, <1>3, <1>5, <1>6, <1>7, <1>8, <1>9, <1>10, <1>11, <1>12 DEF Counting!Next

\* The locks, and the CPU that holding one keeps, keep what was loaded good.
LEMMA StoresKept ==
    ASSUME Counted, CountTypes, StoresWhatIsThere, [Counting!Next]_(Counting!vars)
    PROVE  StoresWhatIsThere'
<1> USE DEF Counting!CPU, Counting!NoCPU, Counting!NoProc
<1>1. CASE UNCHANGED Counting!vars
    BY <1>1 DEF Counting!vars, StoresWhatIsThere
<1>2. ASSUME NEW p \in Callers, NEW c \in Counting!CPU, Counting!Dispatch(p, c)
      PROVE  StoresWhatIsThere'
    <2>1. DOMAIN on = Callers /\ on[p] = 0 /\ on' = [on EXCEPT ![p] = c]
        BY <1>2 DEF Counting!Dispatch, Counting!Running, CountTypes
    <2>2. UNCHANGED <<cpus, numof_all_syscalls, holder, at, loaded>>
        BY <1>2 DEF Counting!Dispatch
    <2>3. ASSUME NEW q \in Callers PROVE at[q] = "store_cpu" => on'[q] = on[q]
        <3>1. at[p] # "store_cpu"
            BY <2>1 DEF StoresWhatIsThere
        <3>2. q # p => on'[q] = on[q]
            BY <2>1
        <3> QED
            BY <3>1, <3>2
    <2> QED
        BY <2>2, <2>3 DEF StoresWhatIsThere
<1>3. ASSUME NEW p \in Callers, Counting!Preempt(p) PROVE StoresWhatIsThere'
    <2>1. DOMAIN on = Callers /\ on' = [on EXCEPT ![p] = 0]
        BY <1>3 DEF Counting!Preempt, CountTypes
    <2>2. UNCHANGED <<cpus, numof_all_syscalls, holder, at, loaded>>
        BY <1>3 DEF Counting!Preempt
    <2>3. ASSUME NEW q \in Callers PROVE at[q] = "store_cpu" => on'[q] = on[q]
        <3>1. holder["cpu_lock"] # p
            BY <1>3 DEF Counting!Preempt, Counting!Interruptible, CountTypes
        <3>2. at[p] # "store_cpu"
            BY <3>1 DEF StoresWhatIsThere
        <3>3. q # p => on'[q] = on[q]
            BY <2>1
        <3> QED
            BY <3>2, <3>3
    <2> QED
        BY <2>2, <2>3 DEF StoresWhatIsThere
<1>4. ASSUME NEW p \in Callers, NEW r \in Result, Counting!Syscall(p, r) PROVE StoresWhatIsThere'
    BY <1>4 DEF Counting!Syscall, CountTypes, StoresWhatIsThere
<1>5. ASSUME NEW p \in Callers, Counting!LoadCpu(p) PROVE StoresWhatIsThere'
    <2>1. /\ at' = [at EXCEPT ![p] = "store_cpu"] /\ DOMAIN at = Callers
          /\ loaded' = [loaded EXCEPT ![p] = cpus[on[p]]] /\ DOMAIN loaded = Callers
        BY <1>5 DEF Counting!LoadCpu, CountTypes
    <2>2. UNCHANGED <<on, cpus, numof_all_syscalls>>
        BY <1>5 DEF Counting!LoadCpu
    <2>3. /\ holder["cpu_lock"] = "nobody" /\ holder'["cpu_lock"] = p
          /\ holder'["main_lock"] = holder["main_lock"]
        BY <1>5 DEF Counting!LoadCpu, Counting!MayAcquire, CountTypes
    <2>4. on[p] \in Counting!CPU
        BY <1>5 DEF Counting!LoadCpu, Counting!Running, CountTypes
    <2>5. at'[p] = "store_cpu" /\ loaded'[p] = cpus'[on'[p]]
        BY <2>1, <2>2
    <2>6. ASSUME NEW q \in Callers, q # p
          PROVE  at'[q] = at[q] /\ loaded'[q] = loaded[q] /\ at[q] # "store_cpu"
        <3>1. at[q] # "store_cpu"
            BY <2>3 DEF Counted, StoresWhatIsThere
        <3> QED
            BY <2>1, <2>6, <3>1
    <2>7. ASSUME NEW q \in Callers
          PROVE  /\ at'[q] = "store_cpu" => /\ holder'["cpu_lock"] = q
                                            /\ on'[q] \in Counting!CPU
                                            /\ loaded'[q] = cpus'[on'[q]]
                 /\ at'[q] = "store_all" => /\ holder'["main_lock"] = q
                                            /\ loaded'[q] = numof_all_syscalls'
        <3>1. CASE q = p
            BY <2>2, <2>3, <2>4, <2>5, <3>1
        <3>2. CASE q # p
            BY <2>2, <2>3, <2>6, <3>2 DEF StoresWhatIsThere
        <3> QED
            BY <3>1, <3>2
    <2> QED
        BY <2>7 DEF StoresWhatIsThere
<1>6. ASSUME NEW p \in Callers, Counting!StoreCpu(p) PROVE StoresWhatIsThere'
    BY <1>6 DEF Counting!StoreCpu, CountTypes, StoresWhatIsThere
<1>7. ASSUME NEW p \in Callers, Counting!LoadAll(p) PROVE StoresWhatIsThere'
    <2>1. /\ at' = [at EXCEPT ![p] = "store_all"] /\ DOMAIN at = Callers
          /\ loaded' = [loaded EXCEPT ![p] = numof_all_syscalls] /\ DOMAIN loaded = Callers
        BY <1>7 DEF Counting!LoadAll, CountTypes
    <2>2. UNCHANGED <<on, cpus, numof_all_syscalls>>
        BY <1>7 DEF Counting!LoadAll
    <2>3. /\ holder["main_lock"] = "nobody" /\ holder'["main_lock"] = p
          /\ holder'["cpu_lock"] = holder["cpu_lock"]
        BY <1>7 DEF Counting!LoadAll, Counting!MayAcquire, CountTypes
    <2>4. at'[p] = "store_all" /\ loaded'[p] = numof_all_syscalls'
        BY <2>1, <2>2
    <2>5. ASSUME NEW q \in Callers, q # p
          PROVE  at'[q] = at[q] /\ loaded'[q] = loaded[q] /\ at[q] # "store_all"
        <3>1. at[q] # "store_all"
            BY <2>3 DEF Counted, StoresWhatIsThere
        <3> QED
            BY <2>1, <2>5, <3>1
    <2>6. ASSUME NEW q \in Callers
          PROVE  /\ at'[q] = "store_cpu" => /\ holder'["cpu_lock"] = q
                                            /\ on'[q] \in Counting!CPU
                                            /\ loaded'[q] = cpus'[on'[q]]
                 /\ at'[q] = "store_all" => /\ holder'["main_lock"] = q
                                            /\ loaded'[q] = numof_all_syscalls'
        <3>1. CASE q = p
            BY <2>3, <2>4, <3>1
        <3>2. CASE q # p
            BY <2>2, <2>3, <2>5, <3>2 DEF StoresWhatIsThere
        <3> QED
            BY <3>1, <3>2
    <2> QED
        BY <2>6 DEF StoresWhatIsThere
<1>8. ASSUME NEW p \in Callers, Counting!StoreAll(p) PROVE StoresWhatIsThere'
    BY <1>8 DEF Counting!StoreAll, CountTypes, StoresWhatIsThere
<1>9. ASSUME NEW p \in Callers, Counting!CountSyscalls(p) PROVE StoresWhatIsThere'
    BY <1>9 DEF Counting!CountSyscalls, CountTypes, StoresWhatIsThere
<1>10. ASSUME NEW p \in Callers, Counting!SumCpu(p) PROVE StoresWhatIsThere'
    BY <1>10 DEF Counting!SumCpu, CountTypes, StoresWhatIsThere
<1>11. ASSUME NEW p \in Callers, Counting!Report(p) PROVE StoresWhatIsThere'
    BY <1>11 DEF Counting!Report, CountTypes, StoresWhatIsThere
<1> QED
    BY <1>1, <1>2, <1>3, <1>4, <1>5, <1>6, <1>7, <1>8, <1>9, <1>10, <1>11 DEF Counting!Next

\* The two counters move apart and together with the calls between the two additions.
LEMMA BalanceKept ==
    ASSUME Counted, CountTypes, StoresWhatIsThere, Balanced, [Counting!Next]_(Counting!vars)
    PROVE  Balanced'
<1> USE DEF Counting!CPU, Counting!NoCPU, Counting!NoProc
<1>0. IsFiniteSet(Counting!Half) /\ IsFiniteSet(Counting!CPU)
    BY CountedSums
<1>1. ASSUME UNCHANGED <<cpus, numof_all_syscalls>>, Counting!Half' = Counting!Half,
             \A p \in Counting!Half : weight'[p] = weight[p]
      PROVE  Balanced'
    <2>1. \A p \in Counting!Half : weight[p] \in Int
        BY DEF CountTypes, Counting!Half
    <2>2. SumOf(weight', Counting!Half) = SumOf(weight, Counting!Half)
        BY <1>0, <1>1, <2>1, SumSame
    <2> QED
        BY <1>1, <2>2 DEF Balanced
<1>2. CASE UNCHANGED Counting!vars
    BY <1>1, <1>2 DEF Counting!vars, Counting!Half
<1>3. ASSUME NEW p \in Callers,
             \/ \E c \in Counting!CPU : Counting!Dispatch(p, c)
             \/ Counting!Preempt(p)
      PROVE  Balanced'
    BY <1>1, <1>3 DEF Counting!Dispatch, Counting!Preempt, Counting!Half
<1>4. ASSUME NEW p \in Callers, NEW r \in Result, Counting!Syscall(p, r) PROVE Balanced'
    BY <1>1, <1>4 DEF Counting!Syscall, Counting!Half, CountTypes
<1>5. ASSUME NEW p \in Callers, Counting!LoadCpu(p) PROVE Balanced'
    BY <1>1, <1>5 DEF Counting!LoadCpu, Counting!Half, CountTypes
<1>6. ASSUME NEW p \in Callers, Counting!LoadAll(p) PROVE Balanced'
    BY <1>1, <1>6 DEF Counting!LoadAll, Counting!Half, CountTypes
<1>7. ASSUME NEW p \in Callers, Counting!CountSyscalls(p) PROVE Balanced'
    BY <1>1, <1>7 DEF Counting!CountSyscalls, Counting!Half, CountTypes
<1>8. ASSUME NEW p \in Callers, Counting!SumCpu(p) PROVE Balanced'
    BY <1>1, <1>8 DEF Counting!SumCpu, Counting!Half, CountTypes
<1>9. ASSUME NEW p \in Callers, Counting!Report(p) PROVE Balanced'
    BY <1>1, <1>9 DEF Counting!Report, Counting!Half, CountTypes
<1>10. ASSUME NEW p \in Callers, Counting!StoreCpu(p) PROVE Balanced'
    <2>0. /\ on[p] \in Counting!CPU /\ loaded[p] = cpus[on[p]] /\ at[p] = "store_cpu"
          /\ cpus' = [cpus EXCEPT ![on[p]] = loaded[p] + weight[p]]
          /\ at' = [at EXCEPT ![p] = "count_all"]
          /\ weight' = weight /\ numof_all_syscalls' = numof_all_syscalls
        BY <1>10 DEF Counting!StoreCpu, StoresWhatIsThere
    <2>1. /\ on[p] \in Counting!CPU /\ weight[p] \in Int /\ p \notin Counting!Half
          /\ cpus' = [cpus EXCEPT ![on[p]] = cpus[on[p]] + weight[p]]
          /\ Counting!Half' = Counting!Half \cup {p}
          /\ weight' = weight /\ numof_all_syscalls' = numof_all_syscalls
        BY <2>0 DEF Counting!Half, CountTypes
    <2>2. /\ SumOf(cpus', Counting!CPU) = SumOf(cpus, Counting!CPU) + weight[p]
          /\ SumOf(cpus, Counting!CPU) \in Int
        <3>0. cpus \in [Counting!CPU -> Int]
            BY DEF CountTypes
        <3>1. /\ \A c \in Counting!CPU : cpus[c] \in Int /\ cpus'[c] \in Int
              /\ \A c \in Counting!CPU : c # on[p] => cpus'[c] = cpus[c]
            BY <2>1, <3>0
        <3>2. SumOf(cpus, Counting!CPU \ {on[p]}) = SumOf(cpus', Counting!CPU \ {on[p]})
            <4>1. \A c \in Counting!CPU \ {on[p]} : cpus[c] \in Int /\ cpus'[c] = cpus[c]
                BY <3>1
            <4>2. IsFiniteSet(Counting!CPU \ {on[p]})
                BY <1>0, FS_Subset
            <4> QED
                BY <4>1, <4>2, SumSame
        <3>4. /\ SumOf(cpus, Counting!CPU) = cpus[on[p]] + SumOf(cpus, Counting!CPU \ {on[p]})
              /\ SumOf(cpus, Counting!CPU) \in Int
              /\ SumOf(cpus, Counting!CPU \ {on[p]}) \in Int
            BY <1>0, <2>1, <3>1, SumWithout
        <3>5. SumOf(cpus', Counting!CPU) = cpus'[on[p]] + SumOf(cpus', Counting!CPU \ {on[p]})
            <4>1. PICK g : g = cpus'
                OBVIOUS
            <4>2. on[p] \in Counting!CPU /\ \A c \in Counting!CPU : g[c] \in Int
                BY <2>1, <3>1, <4>1
            <4>3. SumOf(g, Counting!CPU) = g[on[p]] + SumOf(g, Counting!CPU \ {on[p]})
                BY <1>0, <4>2, SumWithout
            <4> QED
                BY <4>1, <4>3
        <3>3. cpus'[on[p]] = cpus[on[p]] + weight[p] /\ cpus[on[p]] \in Int
            BY <2>1, <3>0
        <3> QED
            BY <2>1, <3>2, <3>3, <3>4, <3>5
    <2>3. /\ SumOf(weight, Counting!Half \cup {p}) = weight[p] + SumOf(weight, Counting!Half)
          /\ SumOf(weight, Counting!Half) \in Int
        <3>1. IsFiniteSet(Counting!Half \cup {p})
            BY <1>0, FS_AddElement
        <3>2. \A q \in Counting!Half \cup {p} : weight[q] \in Int
            BY DEF CountTypes, Counting!Half
        <3>3. (Counting!Half \cup {p}) \ {p} = Counting!Half
            BY <2>1
        <3> QED
            BY <3>1, <3>2, <3>3, SumWithout
    <2> QED
        BY <2>1, <2>2, <2>3 DEF Balanced, CountTypes
<1>11. ASSUME NEW p \in Callers, Counting!StoreAll(p) PROVE Balanced'
    <2>1. /\ weight[p] \in Int /\ p \in Counting!Half /\ cpus' = cpus /\ weight' = weight
          /\ numof_all_syscalls' = numof_all_syscalls + weight[p]
          /\ Counting!Half' = Counting!Half \ {p}
        BY <1>11 DEF Counting!StoreAll, Counting!Half, CountTypes, StoresWhatIsThere
    <2>2. /\ SumOf(weight, Counting!Half) = weight[p] + SumOf(weight, Counting!Half \ {p})
          /\ SumOf(weight, Counting!Half \ {p}) \in Int
        <3>1. \A q \in Counting!Half : weight[q] \in Int
            BY DEF CountTypes, Counting!Half
        <3> QED
            BY <1>0, <2>1, <3>1, SumWithout
    <2> QED
        BY <2>1, <2>2 DEF Balanced, CountTypes
<1> QED
    BY <1>2, <1>3, <1>4, <1>5, <1>6, <1>7, <1>8, <1>9, <1>10, <1>11 DEF Counting!Next

\* Counters only grow, so that a query stays between what it began with and their sum.
LEMMA QueriesKept ==
    ASSUME Counted, CountTypes, StoresWhatIsThere, Balanced, QueriesAreRight,
           [Counting!Next]_(Counting!vars)
    PROVE  QueriesAreRight'
<1> USE DEF Counting!CPU, Counting!NoCPU, Counting!NoProc
<1>0. \A i \in Int : IsFiniteSet(1..i - 1) /\ IsFiniteSet(i..ncpu)
    BY CountedSums
<1>1. ASSUME UNCHANGED cpus, NEW q \in Callers, at[q] = "sum", query'[q] = query[q]
      PROVE  /\ query'[q].i \in 1..ncpu + 1
             /\ query'[q].sum <= SumOf(cpus', 1..query'[q].i - 1)
             /\ query'[q].globalBefore <= query'[q].sum + SumOf(cpus', query'[q].i..ncpu)
    BY <1>1 DEF QueriesAreRight
<1>2. CASE UNCHANGED Counting!vars
    BY <1>1, <1>2 DEF QueriesAreRight, Counting!vars
<1>3. ASSUME NEW p \in Callers,
             \/ \E c \in Counting!CPU : Counting!Dispatch(p, c)
             \/ Counting!Preempt(p)
      PROVE  QueriesAreRight'
    BY <1>1, <1>3 DEF QueriesAreRight, Counting!Dispatch, Counting!Preempt
<1>4. ASSUME NEW p \in Callers,
             \/ \E r \in Result : Counting!Syscall(p, r)
             \/ Counting!LoadCpu(p) \/ Counting!LoadAll(p) \/ Counting!StoreAll(p)
      PROVE  QueriesAreRight'
    <2>1. UNCHANGED <<cpus, query>> /\ \A q \in Callers : at'[q] = "sum" => at[q] = "sum"
        BY <1>4 DEF Counting!Syscall, Counting!LoadCpu, Counting!LoadAll, Counting!StoreAll,
                    CountTypes
    <2> QED
        BY <1>1, <2>1 DEF QueriesAreRight
<1>5. ASSUME NEW p \in Callers, Counting!StoreCpu(p) PROVE QueriesAreRight'
    <2>1. /\ query' = query /\ \A q \in Callers : at'[q] = "sum" => at[q] = "sum"
          /\ \A c \in Counting!CPU : cpus[c] \in Int /\ cpus'[c] \in Int /\ cpus[c] <= cpus'[c]
        BY <1>5 DEF Counting!StoreCpu, CountTypes, StoresWhatIsThere
    <2>2. ASSUME NEW q \in Callers, at'[q] = "sum"
          PROVE  /\ query'[q].i \in 1..ncpu + 1
                 /\ query'[q].sum <= SumOf(cpus', 1..query'[q].i - 1)
                 /\ query'[q].globalBefore <= query'[q].sum + SumOf(cpus', query'[q].i..ncpu)
        <3> DEFINE i == query[q].i
        <3>1. /\ i \in 1..ncpu + 1 /\ query[q].sum <= SumOf(cpus, 1..i - 1)
              /\ query[q].globalBefore <= query[q].sum + SumOf(cpus, i..ncpu)
              /\ query[q].sum \in Int /\ query[q].globalBefore \in Int /\ query'[q] = query[q]
            BY <2>1, <2>2 DEF QueriesAreRight, CountTypes
        <3> HIDE DEF i
        <3>2. 1..i - 1 \in SUBSET Counting!CPU /\ i..ncpu \in SUBSET Counting!CPU
            BY <3>1 DEF Counted, Counting!CPU
        <3>3. IsFiniteSet(1..i - 1) /\ IsFiniteSet(i..ncpu)
            BY <1>0, <3>1 DEF Counted
        <3>4. SumOf(cpus, 1..i - 1) <= SumOf(cpus', 1..i - 1)
            <4>1. \A c \in 1..i - 1 : cpus[c] \in Int /\ cpus'[c] \in Int /\ cpus[c] <= cpus'[c]
                BY <2>1, <3>2
            <4> QED
                BY <3>3, <4>1, SumGrows
        <3>5. SumOf(cpus, i..ncpu) <= SumOf(cpus', i..ncpu)
            <4>1. \A c \in i..ncpu : cpus[c] \in Int /\ cpus'[c] \in Int /\ cpus[c] <= cpus'[c]
                BY <2>1, <3>2
            <4> QED
                BY <3>3, <4>1, SumGrows
        <3>6. /\ SumOf(cpus, 1..i - 1) \in Int /\ SumOf(cpus', 1..i - 1) \in Int
              /\ SumOf(cpus, i..ncpu) \in Int /\ SumOf(cpus', i..ncpu) \in Int
            BY <2>1, <3>2, <3>3, SumTakes
        <3> QED
            BY <3>1, <3>4, <3>5, <3>6 DEF i
    <2> QED
        BY <2>2 DEF QueriesAreRight
<1>6. ASSUME NEW p \in Callers, Counting!CountSyscalls(p) PROVE QueriesAreRight'
    <2>1. /\ cpus' = cpus /\ query'[p] = [sum |-> 0, i |-> 1, globalBefore |-> numof_all_syscalls]
          /\ \A q \in Callers \ {p} : query'[q] = query[q] /\ at'[q] = at[q]
        BY <1>6 DEF Counting!CountSyscalls, CountTypes, Counting!None
    <2>2. SumOf(cpus, 1..0) = 0
        <3>1. 1..0 = {}
            OBVIOUS
        <3>2. SumOf(cpus, {}) = 0
            BY FS_EmptySet, SumSteps
        <3> QED
            BY <3>1, <3>2
    <2>3. numof_all_syscalls <= SumOf(cpus, 1..ncpu)
        <3>1. SumOf(weight, Counting!Half) \in Nat /\ SumOf(cpus, Counting!CPU) \in Int
            BY CountedSums
        <3> QED
            BY <3>1 DEF Balanced, CountTypes, Counting!CPU
    <2>4. /\ query'[p].i \in 1..ncpu + 1
          /\ query'[p].sum <= SumOf(cpus', 1..query'[p].i - 1)
          /\ query'[p].globalBefore <= query'[p].sum + SumOf(cpus', query'[p].i..ncpu)
        <3>1. SumOf(cpus, 1..ncpu) \in Int
            BY CountedSums DEF Counting!CPU
        <3>2. /\ query'[p].i = 1 /\ query'[p].sum = 0
              /\ query'[p].globalBefore = numof_all_syscalls
            BY <2>1
        <3>3. ncpu \in Nat
            BY DEF Counted
        <3>4. query'[p].i \in 1..ncpu + 1 /\ query'[p].i - 1 = 0
            BY <3>2, <3>3
        <3>5. SumOf(cpus', 1..query'[p].i - 1) = 0
            BY <2>1, <2>2, <3>4
        <3>6. SumOf(cpus', query'[p].i..ncpu) = SumOf(cpus, 1..ncpu)
            BY <2>1, <3>2
        <3> QED
            BY <2>3, <3>1, <3>2, <3>3, <3>4, <3>5, <3>6
    <2> QED
        BY <1>1, <2>1, <2>4 DEF QueriesAreRight
<1>7. ASSUME NEW p \in Callers, Counting!SumCpu(p) PROVE QueriesAreRight'
    <2> DEFINE i == query[p].i
    <2>1. /\ at[p] = "sum" /\ i \in 1..ncpu /\ i \in Int /\ cpus[i] \in Int
          /\ query[p].sum <= SumOf(cpus, 1..i - 1)
          /\ query[p].globalBefore <= query[p].sum + SumOf(cpus, i..ncpu)
          /\ query[p].sum \in Int /\ query[p].globalBefore \in Int
        BY <1>7 DEF Counting!SumCpu, QueriesAreRight, CountTypes, Counted, Counting!CPU
    <2>2. /\ cpus' = cpus /\ at' = at
          /\ query'[p].sum = query[p].sum + cpus[i] /\ query'[p].i = i + 1
          /\ query'[p].globalBefore = query[p].globalBefore
          /\ \A q \in Callers \ {p} : query'[q] = query[q]
        BY <1>7 DEF Counting!SumCpu, Counting!Read, CountTypes
    <2> HIDE DEF i
    <2>3. /\ IsFiniteSet(1..i) /\ IsFiniteSet(i..ncpu)
          /\ (1..i) \ {i} = 1..i - 1 /\ (i..ncpu) \ {i} = i + 1..ncpu
          /\ 1..i \in SUBSET Counting!CPU /\ i..ncpu \in SUBSET Counting!CPU
          /\ i \in 1..i /\ i \in i..ncpu
        <3>1. IsFiniteSet(1..i) /\ IsFiniteSet(i..ncpu)
            BY <2>1, FS_Interval DEF Counted
        <3>2. (1..i) \ {i} = 1..i - 1 /\ (i..ncpu) \ {i} = i + 1..ncpu
            BY <2>1 DEF Counted
        <3> QED
            BY <2>1, <3>1, <3>2 DEF Counted
    <2>4. \A c \in Counting!CPU : cpus[c] \in Int
        BY DEF CountTypes
    <2>5. /\ SumOf(cpus, 1..i) = cpus[i] + SumOf(cpus, 1..i - 1)
          /\ SumOf(cpus, 1..i - 1) \in Int
        <3>1. \A c \in 1..i : cpus[c] \in Int
            BY <2>3, <2>4
        <3> QED
            BY <2>3, <3>1, SumWithout
    <2>6. /\ SumOf(cpus, i..ncpu) = cpus[i] + SumOf(cpus, i + 1..ncpu)
          /\ SumOf(cpus, i + 1..ncpu) \in Int
        <3>1. PICK D : D = i..ncpu
            OBVIOUS
        <3>2. IsFiniteSet(D) /\ i \in D /\ D \ {i} = i + 1..ncpu /\ \A c \in D : cpus[c] \in Int
            BY <2>3, <2>4, <3>1
        <3>3. /\ SumOf(cpus, D) = cpus[i] + SumOf(cpus, D \ {i})
              /\ SumOf(cpus, D \ {i}) \in Int
            BY <3>2, SumWithout
        <3> QED
            BY <3>1, <3>2, <3>3
    <2>7. /\ query'[p].i \in 1..ncpu + 1
          /\ query'[p].sum <= SumOf(cpus', 1..query'[p].i - 1)
          /\ query'[p].globalBefore <= query'[p].sum + SumOf(cpus', query'[p].i..ncpu)
        <3>1. query'[p].i - 1 = i /\ query'[p].i \in 1..ncpu + 1
            BY <2>1, <2>2 DEF Counted
        <3> QED
            BY <2>1, <2>2, <2>5, <2>6, <3>1
    <2> QED
        BY <1>1, <2>2, <2>7 DEF QueriesAreRight
<1>8. ASSUME NEW p \in Callers, Counting!Report(p) PROVE QueriesAreRight'
    <2>1. /\ cpus' = cpus /\ at'[p] # "sum"
          /\ \A q \in Callers \ {p} : query'[q] = query[q] /\ at'[q] = at[q]
        BY <1>8 DEF Counting!Report, CountTypes
    <2> QED
        BY <1>1, <2>1 DEF QueriesAreRight
<1> QED
    BY <1>2, <1>3, <1>4, <1>5, <1>6, <1>7, <1>8 DEF Counting!Next

\* Whatever CPUs processes are moved between, the counters of the CPUs and the global one
\* differ by the calls that are half counted, and a query's sum is between the two.
THEOREM CountsAgree ==
    ASSUME Counted
    PROVE  Counting!Spec => [](Counting!TotalsAgree /\ Counting!SumIsBetween)
<1>1. Counting!Init => CountIInv
    BY CountingBegins
<1>2. CountIInv /\ [Counting!Next]_(Counting!vars) => CountIInv'
    BY CountTypesKept, StoresKept, BalanceKept, QueriesKept DEF CountIInv
<1>3. CountIInv => Counting!TotalsAgree /\ Counting!SumIsBetween
    <2> SUFFICES ASSUME CountIInv PROVE Counting!TotalsAgree /\ Counting!SumIsBetween
        OBVIOUS
    <2>1. DOMAIN cpus = Counting!CPU
        BY DEF CountIInv, CountTypes
    <2>2. Counting!CountedBy = SumOf(cpus, Counting!CPU)
        BY <2>1 DEF Counting!CountedBy, Counting!SumFunction, SumOf
    <2>3. Counting!TotalsAgree
        BY <2>2 DEF CountIInv, Balanced, Counting!TotalsAgree, SumOf
    <2>4. Counting!SumIsBetween
        <3> SUFFICES ASSUME NEW p \in Callers, at[p] = "sum", query[p].i > ncpu
                     PROVE  /\ query[p].globalBefore <= query[p].sum
                            /\ query[p].sum <= SumOf(cpus, Counting!CPU)
            BY <2>2 DEF Counting!SumIsBetween
        <3>1. /\ query[p].i \in 1..ncpu + 1 /\ query[p].sum <= SumOf(cpus, 1..query[p].i - 1)
              /\ query[p].globalBefore <= query[p].sum + SumOf(cpus, query[p].i..ncpu)
              /\ query[p].sum \in Int /\ query[p].globalBefore \in Int
            BY DEF CountIInv, QueriesAreRight, CountTypes
        <3>2. 1..query[p].i - 1 = Counting!CPU /\ query[p].i..ncpu = {}
            BY <3>1 DEF Counted, Counting!CPU
        <3>3. SumOf(cpus, {}) = 0
            BY FS_EmptySet, SumSteps
        <3>4. SumOf(cpus, query[p].i..ncpu) = 0
            BY <3>2, <3>3
        <3> QED
            BY <3>1, <3>2, <3>4
    <2> QED
        BY <2>3, <2>4
<1> QED
    BY <1>1, <1>2, <1>3, PTL DEF Counting!Spec

-----------------------------------------------------------------------------
(* The log of system calls and its queries *)

CONSTANTS NPROC, MaxLog, Number, Counters, MaxPid
VARIABLES pid, syscalls, syscall_count, nextpid, asking

Logging == INSTANCE SyscallLog WITH query <- asking

\* What the constants stand for.
Logged ==
    /\ NPROC \in Nat /\ MaxLog \in Nat /\ Counters \in Nat
    /\ Number \subseteq 0..Counters - 1

Occurs(a, num) == {k \in DOMAIN a : a[k] = num}

\* How often a number occurs is a number, not 0 if it occurs.
LEMMA OccurrencesCount ==
    ASSUME NEW S, NEW a \in Seq(S), NEW num
    PROVE  /\ IsFiniteSet(Occurs(a, num)) /\ Logging!Occurrences(a, num) \in Nat
           /\ Logging!Occurrences(a, num) = Cardinality(Occurs(a, num))
           /\ Logging!Occurrences(a, num) = 0 <=> \A k \in 1..Len(a) : a[k] # num
<1>1. IsFiniteSet(1..Len(a)) /\ DOMAIN a = 1..Len(a)
    BY FS_Interval
<1>2. Occurs(a, num) \in SUBSET (1..Len(a))
    BY <1>1 DEF Occurs
<1>3. IsFiniteSet(Occurs(a, num)) /\ Cardinality(Occurs(a, num)) \in Nat
    BY <1>1, <1>2, FS_Subset, FS_CardinalityType
<1>4. Logging!Occurrences(a, num) = Cardinality(Occurs(a, num))
    BY Zenon DEF Occurs, Logging!Occurrences, Logging!Cardinality, Cardinality
<1>5. Cardinality(Occurs(a, num)) = 0 <=> Occurs(a, num) = {}
    BY <1>3, FS_EmptySet
<1>6. Occurs(a, num) = {} <=> \A k \in 1..Len(a) : a[k] # num
    BY <1>1 DEF Occurs
<1> QED
    BY <1>3, <1>4, <1>5, <1>6

\* Another entry at the end occurs once more.
LEMMA OccurrencesAppend ==
    ASSUME NEW S, NEW a \in Seq(S), NEW x \in S, NEW num
    PROVE  Logging!Occurrences(Append(a, x), num)
             = Logging!Occurrences(a, num) + (IF x = num THEN 1 ELSE 0)
<1> DEFINE b == Append(a, x)
<1>1. b \in Seq(S) /\ Len(b) = Len(a) + 1 /\ Len(a) \in Nat
      /\ b[Len(a) + 1] = x /\ \A k \in 1..Len(a) : b[k] = a[k]
    OBVIOUS
<1> HIDE DEF b
<1>2. /\ IsFiniteSet(Occurs(a, num)) /\ Logging!Occurrences(a, num) = Cardinality(Occurs(a, num))
      /\ Logging!Occurrences(a, num) \in Nat
      /\ Logging!Occurrences(b, num) = Cardinality(Occurs(b, num))
    BY <1>1, OccurrencesCount
<1>3. Len(a) + 1 \notin Occurs(a, num)
    BY <1>1 DEF Occurs
<1>4. CASE x = num
    <2>1. Occurs(b, num) = Occurs(a, num) \cup {Len(a) + 1}
        BY <1>1, <1>4 DEF Occurs
    <2>2. Cardinality(Occurs(b, num)) = Cardinality(Occurs(a, num)) + 1
        BY <1>2, <1>3, <2>1, FS_AddElement
    <2> QED
        BY <1>2, <1>4, <2>2 DEF b
<1>5. CASE x # num
    <2>1. Occurs(b, num) = Occurs(a, num)
        BY <1>1, <1>5 DEF Occurs
    <2> QED
        BY <1>2, <1>5, <2>1 DEF b
<1> QED
    BY <1>4, <1>5

\* Two neighbours that change places leave all numbers as often as they were.
LEMMA OccurrencesSwap ==
    ASSUME NEW S, NEW a \in Seq(S), NEW j \in Nat, j + 2 <= Len(a), NEW num
    PROVE  LET b == [a EXCEPT ![j + 1] = a[j + 2], ![j + 2] = a[j + 1]] IN
           Logging!Occurrences(b, num) = Logging!Occurrences(a, num)
<1> DEFINE b == [a EXCEPT ![j + 1] = a[j + 2], ![j + 2] = a[j + 1]]
<1>1. b \in Seq(S) /\ DOMAIN b = DOMAIN a /\ j + 1 \in DOMAIN a /\ j + 2 \in DOMAIN a
    OBVIOUS
<1>2. /\ b[j + 1] = a[j + 2] /\ b[j + 2] = a[j + 1]
      /\ \A k \in DOMAIN a \ {j + 1, j + 2} : b[k] = a[k]
    OBVIOUS
<1> HIDE DEF b
<1>3. /\ IsFiniteSet(Occurs(a, num)) /\ IsFiniteSet(Occurs(b, num))
      /\ Logging!Occurrences(a, num) = Cardinality(Occurs(a, num))
      /\ Logging!Occurrences(b, num) = Cardinality(Occurs(b, num))
    BY <1>1, OccurrencesCount
<1>4. CASE a[j + 1] = a[j + 2]
    <2>1. Occurs(b, num) = Occurs(a, num)
        BY <1>1, <1>2, <1>4 DEF Occurs
    <2> QED
        BY <1>3, <2>1 DEF b
<1>5. CASE a[j + 1] # num /\ a[j + 2] # num
    <2>1. Occurs(b, num) = Occurs(a, num)
        BY <1>1, <1>2, <1>5 DEF Occurs
    <2> QED
        BY <1>3, <2>1 DEF b
<1>6. ASSUME NEW x \in {j + 1, j + 2}, NEW y \in {j + 1, j + 2}, x # y, a[x] = num, a[y] # num
      PROVE  Logging!Occurrences(b, num) = Logging!Occurrences(a, num)
    <2> DEFINE s == Occurs(a, num) \ {x}
    <2>1. x \in Occurs(a, num) /\ y \notin Occurs(a, num) /\ Occurs(b, num) = s \cup {y}
        <3>1. x \in Occurs(a, num) /\ y \notin Occurs(a, num)
            BY <1>1, <1>6 DEF Occurs
        <3>2. b[x] # num /\ b[y] = num /\ x \in DOMAIN a /\ y \in DOMAIN a
            BY <1>1, <1>2, <1>6
        <3>3. \A k \in DOMAIN a : k # x /\ k # y => b[k] = a[k]
            BY <1>2, <1>6
        <3> QED
            BY <1>1, <3>1, <3>2, <3>3 DEF Occurs
    <2>2. IsFiniteSet(s) /\ Cardinality(s) = Cardinality(Occurs(a, num)) - 1 /\ y \notin s
          /\ Cardinality(Occurs(a, num)) \in Nat
        BY <1>3, <2>1, FS_RemoveElement, FS_CardinalityType
    <2> HIDE DEF s
    <2>3. Cardinality(s \cup {y}) = Cardinality(s) + 1
        BY <2>2, FS_AddElement
    <2>4. Cardinality(Occurs(b, num)) = Cardinality(Occurs(a, num))
        BY <2>1, <2>2, <2>3
    <2> QED
        BY <1>3, <2>4
<1>7. Logging!Occurrences(b, num) = Logging!Occurrences(a, num)
    BY <1>4, <1>5, <1>6 DEF b
<1> QED
    BY <1>7 DEF b

Query == [at : {"none", "sort", "most", "copy", "pairs", "sorted", "count", "counted"},
          asked : Int, p : Logging!Slot \cup {0}, count : 0..MaxLog, copied : Seq(Number),
          i : Nat, j : Nat, counts : {<<>>} \cup [0..Counters - 1 -> Nat],
          max_freq : Int, intact : BOOLEAN]

LogTypes ==
    /\ syscalls \in [Logging!Slot -> [1..MaxLog -> Int]]
    /\ syscall_count \in [Logging!Slot -> 0..MaxLog]
    /\ \A s \in Logging!Slot : \A k \in 1..syscall_count[s] : syscalls[s][k] \in Number
    /\ asking \in [Logging!Slot -> Query]

Entry(q, log) == [k \in 1..q.count |-> log[q.p][k]]

\* Query q has found a process and read its length: no later call changes what is below.
HasLog(q, log, num) ==
    /\ q.p \in Logging!Slot /\ q.count >= 1 /\ Len(q.copied) <= q.count
    /\ \A k \in 1..q.count : log[q.p][k] \in Number
    /\ q.intact => q.count <= num[q.p]

\* The first entries, as the loop has read them.
HasRead(q, log) == q.intact => \A k \in 1..Len(q.copied) : q.copied[k] = log[q.p][k]

HasCopied(q, log) ==
    /\ Len(q.copied) = q.count
    /\ q.intact => \A x \in Number : Logging!Occurrences(q.copied, x)
                                       = Logging!Occurrences(Entry(q, log), x)

\* The bubble sort: the last i entries are the largest, in order; entry j is the largest
\* of those before it.
Bubbles(q) ==
    /\ q.i <= q.count - 1 /\ q.j <= q.count - q.i - 1
    /\ \A x, y \in 1..q.count : x < y /\ y > q.count - q.i => q.copied[x] <= q.copied[y]
    /\ \A x \in 1..q.j : q.copied[x] <= q.copied[q.j + 1]

Ascending(q) == \A x, y \in 1..q.count : x < y => q.copied[x] <= q.copied[y]

\* counts[] and max_freq are those of the entries that were read.
HasCounted(q) ==
    /\ q.counts \in [0..Counters - 1 -> Nat]
    /\ \A x \in 0..Counters - 1 : q.counts[x] = Logging!Occurrences(q.copied, x)
    /\ Len(q.copied) > 0 => \E x \in 0..Counters - 1 : q.counts[x] = q.max_freq
    /\ \A x \in 0..Counters - 1 : Len(q.copied) > 0 => q.counts[x] <= q.max_freq
    /\ Len(q.copied) = 0 => q.max_freq = -1

QueryIsRight(q, log, num) ==
    /\ q.at \in {"sort", "most"} => q.copied = <<>> /\ q.max_freq = -1
    /\ q.at \in {"sort", "copy"} => q.i = 0 /\ q.j = 0
    /\ q.at \in {"copy", "pairs", "sorted", "count", "counted"} => HasLog(q, log, num)
    /\ q.at \in {"copy", "count", "counted"} => HasRead(q, log)
    /\ q.at \in {"pairs", "sorted"} => HasCopied(q, log)
    /\ q.at = "pairs" => Bubbles(q)
    /\ q.at = "sorted" => Ascending(q)
    /\ q.at \in {"count", "counted"} => HasCounted(q)
    /\ q.at = "counted" => Len(q.copied) = q.count

LogIInv ==
    /\ LogTypes
    /\ \A s \in Logging!Slot : QueryIsRight(asking[s], syscalls, syscall_count)

\* A process that makes a call leaves the entries that any query has counted.
LEMMA RecordGrows ==
    ASSUME Logged, LogTypes, NEW s \in Logging!Slot, NEW num \in Number, Logging!Record(s, num)
    PROVE  /\ syscalls' \in [Logging!Slot -> [1..MaxLog -> Int]]
           /\ syscall_count' \in [Logging!Slot -> 0..MaxLog]
           /\ \A r \in Logging!Slot : \A k \in 1..syscall_count'[r] : syscalls'[r][k] \in Number
           /\ \A r \in Logging!Slot : syscall_count[r] <= syscall_count'[r]
           /\ \A r \in Logging!Slot : \A k \in 1..syscall_count[r] :
                syscalls'[r][k] = syscalls[r][k]
           /\ \A r \in Logging!Slot : \A k \in 1..MaxLog :
                syscalls'[r][k] = syscalls[r][k] \/ syscalls'[r][k] \in Number
<1>1. CASE UNCHANGED <<syscalls, syscall_count>>
    BY <1>1 DEF LogTypes
<1>2. CASE ~UNCHANGED <<syscalls, syscall_count>>
    <2> DEFINE k0 == syscall_count[s] + 1
    <2>1. /\ k0 \in 1..MaxLog /\ syscalls' = [syscalls EXCEPT ![s][k0] = num]
          /\ syscall_count' = [syscall_count EXCEPT ![s] = k0]
          /\ syscall_count[s] \in Nat /\ k0 = syscall_count[s] + 1
        BY <1>2 DEF Logging!Record, Logging!Place, LogTypes, Logged
    <2> HIDE DEF k0
    <2>2. /\ syscalls'[s][k0] = num /\ syscall_count'[s] = k0
          /\ \A r \in Logging!Slot : \A k \in 1..MaxLog :
               ~(r = s /\ k = k0) => syscalls'[r][k] = syscalls[r][k]
          /\ \A r \in Logging!Slot \ {s} : syscall_count'[r] = syscall_count[r]
        BY <2>1 DEF LogTypes
    <2>3. /\ syscalls' \in [Logging!Slot -> [1..MaxLog -> Int]]
          /\ syscall_count' \in [Logging!Slot -> 0..MaxLog]
        <3>1. num \in Int
            BY DEF Logged
        <3> QED
            BY <2>1, <3>1 DEF LogTypes
    <2>4. \A r \in Logging!Slot : syscall_count[r] \in 0..MaxLog
        BY DEF LogTypes
    <2> QED
        BY <2>1, <2>2, <2>3, <2>4 DEF LogTypes, Logged
<1> QED
    BY <1>1, <1>2

\* What a query may see of the logs, before and after a step: the entries it has counted
\* in the log of its process, if it keeps to that, and numbers everywhere.
Grown(q, kept, log, num, log2, num2) ==
    /\ kept \in BOOLEAN /\ (kept => q.intact)
    /\ num \in [Logging!Slot -> 0..MaxLog]
    /\ \A r \in Logging!Slot :
         /\ num2[r] \in 0..MaxLog
         /\ \A k \in 1..MaxLog : log2[r][k] = log[r][k] \/ log2[r][k] \in Number
         /\ r = q.p /\ kept => /\ num[r] <= num2[r]
                              /\ \A k \in 1..num[r] : log2[r][k] = log[r][k]

\* A query stays right when the log only grows, and when a new process takes the slot.
LEMMA QueryStays ==
    ASSUME Logged, NEW q \in Query, NEW log, NEW num, NEW log2, NEW num2,
           NEW kept, QueryIsRight(q, log, num), Grown(q, kept, log, num, log2, num2)
    PROVE  /\ [q EXCEPT !.intact = kept] \in Query
           /\ QueryIsRight([q EXCEPT !.intact = kept], log2, num2)
<1> DEFINE q2 == [q EXCEPT !.intact = kept]
<1>1. /\ q2 \in Query /\ q2.at = q.at /\ q2.p = q.p /\ q2.count = q.count /\ q2.copied = q.copied
      /\ q2.i = q.i /\ q2.j = q.j /\ q2.counts = q.counts /\ q2.max_freq = q.max_freq
      /\ q2.intact = kept
    <2> kept \in BOOLEAN
        BY DEF Grown
    <2> QED
        BY DEF Query
<1> HIDE DEF q2
<1>2. q.count \in 0..MaxLog /\ Len(q.copied) \in Nat
    BY DEF Query
<1>3. HasLog(q, log, num) => HasLog(q2, log2, num2)
    BY <1>1, <1>2 DEF HasLog, Logged, Grown
<1>4. HasLog(q, log, num) /\ kept => \A k \in 1..q.count : log2[q.p][k] = log[q.p][k]
    BY <1>2 DEF HasLog, Logged, Grown
<1>5. HasLog(q, log, num) /\ HasRead(q, log) => HasRead(q2, log2)
    BY <1>1, <1>2, <1>4 DEF HasRead, HasLog, Grown
<1>6. HasLog(q, log, num) /\ HasCopied(q, log) => HasCopied(q2, log2)
    <2>1. HasLog(q, log, num) /\ kept => Entry(q2, log2) = Entry(q, log)
        BY <1>1, <1>4 DEF Entry
    <2> QED
        BY <1>1, <2>1 DEF HasCopied, Grown
<1>7. /\ Bubbles(q) => Bubbles(q2)
      /\ Ascending(q) => Ascending(q2)
      /\ HasCounted(q) => HasCounted(q2)
    BY <1>1 DEF Bubbles, Ascending, HasCounted
<1>8. QueryIsRight(q2, log2, num2)
    BY <1>1, <1>3, <1>5, <1>6, <1>7 DEF QueryIsRight
<1> QED
    BY <1>1, <1>8 DEF q2

\* No query is about anything yet.
LEMMA NothingAsked ==
    ASSUME Logged
    PROVE  Logging!None \in Query /\ \A log, num : QueryIsRight(Logging!None, log, num)
<1>1. <<>> \in Seq(Number)
    OBVIOUS
<1>2. Logging!None \in Query
    BY <1>1 DEF Logging!None, Logging!NoSlot, Query, Logged
<1>3. Logging!None.at = "none"
    BY DEF Logging!None
<1> QED
    BY <1>2, <1>3 DEF QueryIsRight

LEMMA LogBegins == ASSUME Logged, Logging!Init PROVE LogIInv
<1>1. \A s \in Logging!Slot : asking[s] = Logging!None
    BY DEF Logging!Init
<1>2. asking \in [Logging!Slot -> Query]
    BY NothingAsked DEF Logging!Init
<1>3. /\ syscalls \in [Logging!Slot -> [1..MaxLog -> Int]]
      /\ syscall_count \in [Logging!Slot -> 0..MaxLog]
      /\ \A s \in Logging!Slot : \A k \in 1..syscall_count[s] : syscalls[s][k] \in Number
    BY DEF Logging!Init, Logged
<1> QED
    BY <1>1, <1>2, <1>3, NothingAsked DEF LogIInv, LogTypes

\* A step of one query, with the log as it is.
LEMMA OneQuery ==
    ASSUME Logged, LogIInv, NEW s \in Logging!Slot, NEW q, Logging!Continue(s, q),
           q \in Query, QueryIsRight(q, syscalls, syscall_count)
    PROVE  LogIInv'
<1>1. /\ asking' = [asking EXCEPT ![s] = q] /\ syscalls' = syscalls
      /\ syscall_count' = syscall_count
    BY DEF Logging!Continue
<1>2. asking' \in [Logging!Slot -> Query]
    BY <1>1 DEF LogIInv, LogTypes
<1>3. \A r \in Logging!Slot : asking'[r] = IF r = s THEN q ELSE asking[r]
    BY <1>1 DEF LogIInv, LogTypes
<1>4. LogTypes'
    BY <1>1, <1>2 DEF LogIInv, LogTypes, Logging!Slot
<1>5. \A r \in Logging!Slot : QueryIsRight(asking'[r], syscalls', syscall_count')
    BY <1>1, <1>3 DEF LogIInv
<1> QED
    BY <1>4, <1>5 DEF LogIInv, Logging!Slot

\* A call is recorded, and perhaps a query ends.
LEMMA CallRecorded ==
    ASSUME Logged, LogIInv, NEW s \in Logging!Slot, NEW x \in Number, Logging!Record(s, x),
           asking' = asking \/ asking' = [asking EXCEPT ![s] = Logging!None]
    PROVE  LogIInv'
<1>1. /\ syscalls' \in [Logging!Slot -> [1..MaxLog -> Int]]
      /\ syscall_count' \in [Logging!Slot -> 0..MaxLog]
      /\ \A r \in Logging!Slot : \A k \in 1..syscall_count'[r] : syscalls'[r][k] \in Number
      /\ \A r \in Logging!Slot : syscall_count[r] <= syscall_count'[r]
      /\ \A r \in Logging!Slot : \A k \in 1..syscall_count[r] : syscalls'[r][k] = syscalls[r][k]
      /\ \A r \in Logging!Slot : \A k \in 1..MaxLog :
           syscalls'[r][k] = syscalls[r][k] \/ syscalls'[r][k] \in Number
    BY RecordGrows DEF LogIInv
<1>2. asking \in [Logging!Slot -> Query] /\ syscall_count \in [Logging!Slot -> 0..MaxLog]
    BY DEF LogIInv, LogTypes
<1>3. asking' \in [Logging!Slot -> Query]
    BY <1>2, NothingAsked
<1>4. ASSUME NEW r \in Logging!Slot PROVE QueryIsRight(asking'[r], syscalls', syscall_count')
    <2>1. CASE asking'[r] = Logging!None
        BY <2>1, NothingAsked
    <2>2. CASE asking'[r] = asking[r]
        <3> DEFINE q == asking[r]
        <3>1. q \in Query /\ QueryIsRight(q, syscalls, syscall_count) /\ q.intact \in BOOLEAN
              /\ [q EXCEPT !.intact = q.intact] = q
            BY <1>2 DEF LogIInv, Query
        <3>2. \A t \in Logging!Slot : syscall_count'[t] \in 0..MaxLog
            BY <1>1
        <3> HIDE DEF q
        <3>4. Grown(q, q.intact, syscalls, syscall_count, syscalls', syscall_count')
            BY <1>1, <1>2, <3>1, <3>2 DEF Grown
        <3>3. QueryIsRight([q EXCEPT !.intact = q.intact], syscalls', syscall_count')
            BY <3>1, <3>4, QueryStays
        <3> QED
            BY <2>2, <3>1, <3>3 DEF q
    <2> QED
        BY <1>2, <2>1, <2>2
<1>5. LogTypes'
    BY <1>1, <1>3 DEF LogTypes, Logging!Slot
<1> QED
    BY <1>4, <1>5 DEF LogIInv, Logging!Slot

\* fork() empties the log of the slot it takes; queries of it know.
LEMMA ForkEmpties ==
    ASSUME Logged, LogIInv, NEW s \in Logging!Slot, NEW child \in Logging!Slot,
           Logging!Fork(s, child)
    PROVE  LogIInv'
<1>1. /\ asking \in [Logging!Slot -> Query] /\ syscall_count \in [Logging!Slot -> 0..MaxLog]
      /\ syscalls' = syscalls /\ syscalls \in [Logging!Slot -> [1..MaxLog -> Int]]
      /\ syscall_count' = [syscall_count EXCEPT ![child] = 0]
      /\ asking' = [r \in Logging!Slot |-> [asking[r] EXCEPT !.intact = @ /\ asking[r].p # child]]
      /\ \A r \in Logging!Slot : \A k \in 1..syscall_count[r] : syscalls[r][k] \in Number
    BY DEF LogIInv, LogTypes, Logging!Fork
<1>2. ASSUME NEW r \in Logging!Slot
      PROVE  asking'[r] \in Query /\ QueryIsRight(asking'[r], syscalls', syscall_count')
    <2> DEFINE q == asking[r]
               kept == q.intact /\ q.p # child
    <2>1. q \in Query /\ QueryIsRight(q, syscalls, syscall_count) /\ q.intact \in BOOLEAN
        BY <1>1 DEF LogIInv, Query
    <2>2. asking'[r] = [q EXCEPT !.intact = kept]
        BY <1>1
    <2>3. /\ kept \in BOOLEAN /\ (kept => q.intact)
          /\ \A t \in Logging!Slot : t = q.p /\ kept => syscall_count[t] <= syscall_count'[t]
          /\ \A t \in Logging!Slot : syscall_count'[t] \in 0..MaxLog
        BY <1>1, <2>1 DEF Logged
    <2> HIDE DEF kept, q
    <2>5. Grown(q, kept, syscalls, syscall_count, syscalls', syscall_count')
        <3>1. syscalls' = syscalls /\ syscall_count \in [Logging!Slot -> 0..MaxLog]
            BY <1>1
        <3>2. ASSUME NEW t \in Logging!Slot
              PROVE  /\ syscall_count'[t] \in 0..MaxLog
                     /\ \A k \in 1..MaxLog :
                          syscalls'[t][k] = syscalls[t][k] \/ syscalls'[t][k] \in Number
                     /\ t = q.p /\ kept =>
                          /\ syscall_count[t] <= syscall_count'[t]
                          /\ \A k \in 1..syscall_count[t] : syscalls'[t][k] = syscalls[t][k]
            <4>1. \A k : syscalls'[t][k] = syscalls[t][k]
                BY <3>1
            <4> QED
                BY <2>3, <4>1
        <3>3. kept \in BOOLEAN /\ (kept => q.intact)
            BY <2>3
        <3> QED
            BY <3>1, <3>2, <3>3 DEF Grown
    <2>4. /\ [q EXCEPT !.intact = kept] \in Query
          /\ QueryIsRight([q EXCEPT !.intact = kept], syscalls', syscall_count')
        BY <2>1, <2>5, QueryStays
    <2> QED
        BY <2>2, <2>4
<1>3. syscall_count' \in [Logging!Slot -> 0..MaxLog]
    BY <1>1 DEF Logged
<1>4. \A r \in Logging!Slot : \A k \in 1..syscall_count'[r] : syscalls'[r][k] \in Number
    BY <1>1
<1>5. asking' \in [Logging!Slot -> Query]
    BY <1>1, <1>2
<1>6. LogTypes'
    BY <1>1, <1>3, <1>4, <1>5 DEF LogTypes, Logging!Slot
<1> QED
    BY <1>2, <1>6 DEF LogIInv, Logging!Slot

\* The least member of a set of slots is one.
LEMMA FoundIsThere ==
    ASSUME Logged, NEW found \in SUBSET Logging!Slot, found # {}
    PROVE  Logging!Min(found) \in found
<1>1. found \in SUBSET Nat
    BY DEF Logging!Slot
<1>2. \E x \in found : \A y \in found : x <= y
    BY <1>1, LeastNumber
<1> QED
    BY <1>2 DEF Logging!Min

\* A query begins, and finds a process, a free slot or nothing.
LEMMA AskingBegins ==
    ASSUME Logged, LogIInv, NEW s \in Logging!Slot, NEW x \in 0..MaxPid,
           NEW a \in {"sort", "most"}, Logging!Ask(s, x, a)
    PROVE  LogIInv'
<1> DEFINE q == [Logging!None EXCEPT !.at = a, !.asked = x, !.p = Logging!Find(x)]
<1>1. Logging!Find(x) \in Logging!Slot \cup {0}
    <2> DEFINE found == {r \in Logging!Slot : pid[r] = x}
    <2>1. found # {} => Logging!Min(found) \in found
        BY FoundIsThere
    <2> QED
        BY <2>1 DEF Logging!Find, Logging!NoSlot
<1>2. Logging!None \in Query /\ Logging!None.copied = <<>> /\ Logging!None.max_freq = -1
      /\ Logging!None.i = 0 /\ Logging!None.j = 0
    BY NothingAsked DEF Logging!None
<1>3. q \in Query /\ q.at = a /\ q.copied = <<>> /\ q.max_freq = -1 /\ q.i = 0 /\ q.j = 0
    <2>1. PICK n0, p0 : n0 = Logging!None /\ p0 = Logging!Find(x)
        OBVIOUS
    <2>2. x \in Int /\ p0 \in Logging!Slot \cup {0} /\ n0 \in Query
        BY <1>1, <1>2, <2>1
    <2>3. [n0 EXCEPT !.at = a, !.asked = x, !.p = p0] \in Query
        BY <2>2 DEF Query
    <2>4. q = [n0 EXCEPT !.at = a, !.asked = x, !.p = p0]
        BY <2>1
    <2> QED
        BY <1>2, <2>1, <2>2, <2>3, <2>4 DEF Query
<1>4. Logging!Continue(s, q)
    BY DEF Logging!Ask, Logging!Continue
<1> HIDE DEF q
<1>5. QueryIsRight(q, syscalls, syscall_count)
    BY <1>3 DEF QueryIsRight
<1> QED
    BY <1>3, <1>4, <1>5, OneQuery

\* It reads the length.
LEMMA ReadingBegins ==
    ASSUME Logged, LogIInv, NEW s \in Logging!Slot, Logging!ReadCount(s)
    PROVE  LogIInv'
<1> DEFINE q == asking[s]
           c == syscall_count[q.p]
           zero == [x \in 0..(Counters - 1) |-> 0]
           q2 == [q EXCEPT !.at = IF @ = "sort" THEN "copy" ELSE "count", !.count = c,
                           !.counts = zero]
<1>1. /\ q \in Query /\ QueryIsRight(q, syscalls, syscall_count)
      /\ syscall_count \in [Logging!Slot -> 0..MaxLog]
      /\ \A r \in Logging!Slot : \A k \in 1..syscall_count[r] : syscalls[r][k] \in Number
    BY DEF LogIInv, LogTypes
<1>2. /\ q.at \in {"sort", "most"} /\ q.p # 0 /\ c # 0
      /\ Logging!Continue(s, q2)
    BY DEF Logging!ReadCount, Logging!At, Logging!FoundCount, Logging!NoSlot
<1>3. q.p \in Logging!Slot /\ c \in 1..MaxLog
    BY <1>1, <1>2 DEF Query, Logged
<1>4. zero \in [0..Counters - 1 -> Nat] /\ \A x \in 0..Counters - 1 : zero[x] = 0
    OBVIOUS
<1> HIDE DEF c, zero, q
<1>5. q2 \in Query
    <2>1. PICK a : a = IF q.at = "sort" THEN "copy" ELSE "count"
        OBVIOUS
    <2>2. [q EXCEPT !.at = a, !.count = c, !.counts = zero] \in Query
        <3>1. a \in {"copy", "count"} /\ c \in 0..MaxLog
            BY <1>3, <2>1
        <3> QED
            BY <1>1, <1>4, <3>1 DEF Query
    <2> QED
        BY <2>1, <2>2
<1>6. /\ q2.at = (IF q.at = "sort" THEN "copy" ELSE "count") /\ q2.count = c
      /\ q2.counts = zero /\ q2.p = q.p /\ q2.copied = <<>> /\ q2.max_freq = -1
      /\ q.at = "sort" => q2.i = 0 /\ q2.j = 0
      /\ q2.intact = q.intact
    BY <1>1, <1>2 DEF Query, QueryIsRight
<1> HIDE DEF q2
<1>7. HasLog(q2, syscalls, syscall_count)
    BY <1>1, <1>3, <1>6 DEF HasLog, c
<1>8. HasRead(q2, syscalls)
    BY <1>6 DEF HasRead
<1>9. HasCounted(q2)
    <2>1. \A x : Logging!Occurrences(<<>>, x) = 0
        <3> TAKE x
        <3>1. <<>> \in Seq(Int) /\ \A k \in 1..Len(<<>>) : <<>>[k] # x
            OBVIOUS
        <3>2. PICK a : a = <<>>
            OBVIOUS
        <3>3. Logging!Occurrences(a, x) = 0 <=> \A k \in 1..Len(a) : a[k] # x
            BY <3>1, <3>2, OccurrencesCount
        <3> QED
            BY <3>1, <3>2, <3>3
    <2> QED
        BY <1>4, <1>6, <2>1 DEF HasCounted
<1>10. QueryIsRight(q2, syscalls, syscall_count)
    BY <1>2, <1>6, <1>7, <1>8, <1>9 DEF QueryIsRight
<1> QED
    BY <1>2, <1>5, <1>10, OneQuery

\* The copy goes on.
LEMMA EntryCopied ==
    ASSUME Logged, LogIInv, NEW s \in Logging!Slot, Logging!CopyEntry(s)
    PROVE  LogIInv'
<1> DEFINE q == asking[s]
           x == syscalls[q.p][Len(q.copied) + 1]
           a == Append(q.copied, x)
           q2 == [q EXCEPT !.copied = a]
<1>1. q \in Query /\ QueryIsRight(q, syscalls, syscall_count)
    BY DEF LogIInv, LogTypes
<1>2. q.at = "copy" /\ Len(q.copied) < q.count /\ Logging!Continue(s, q2)
    BY DEF Logging!CopyEntry, Logging!At
<1> HIDE DEF q
<1>3. HasLog(q, syscalls, syscall_count) /\ HasRead(q, syscalls) /\ q.i = 0 /\ q.j = 0
    BY <1>1, <1>2 DEF QueryIsRight
<1>4. q.copied \in Seq(Number) /\ Len(q.copied) \in Nat /\ q.count \in Nat
    BY <1>1 DEF Query
<1>5. x \in Number /\ x = syscalls[q.p][Len(q.copied) + 1]
    BY <1>2, <1>3, <1>4 DEF HasLog
<1> HIDE DEF x
<1>6. /\ a \in Seq(Number) /\ Len(a) = Len(q.copied) + 1 /\ a[Len(q.copied) + 1] = x
      /\ \A k \in 1..Len(q.copied) : a[k] = q.copied[k]
    BY <1>4, <1>5
<1> HIDE DEF a
<1>7. /\ q2 \in Query /\ q2.at = "copy" /\ q2.copied = a /\ q2.p = q.p /\ q2.count = q.count
      /\ q2.i = 0 /\ q2.j = 0 /\ q2.intact = q.intact
    BY <1>1, <1>2, <1>3, <1>6 DEF Query
<1> HIDE DEF q2
<1>8. HasLog(q2, syscalls, syscall_count)
    BY <1>2, <1>3, <1>4, <1>6, <1>7 DEF HasLog
<1>9. HasRead(q2, syscalls)
    BY <1>3, <1>4, <1>5, <1>6, <1>7 DEF HasRead
<1>10. QueryIsRight(q2, syscalls, syscall_count)
    BY <1>7, <1>8, <1>9 DEF QueryIsRight
<1> QED
    BY <1>2, <1>7, <1>10, OneQuery

\* A log that has been read to the end is the copy, unless its slot has a new process.
LEMMA CopyIsLog ==
    ASSUME NEW q \in Query, NEW log, HasRead(q, log), Len(q.copied) = q.count, q.intact
    PROVE  q.copied = Entry(q, log)
BY DEF HasRead, Entry, Query

\* The sort begins.
LEMMA SortBegins ==
    ASSUME Logged, LogIInv, NEW s \in Logging!Slot, Logging!Sort(s)
    PROVE  LogIInv'
<1> DEFINE q == asking[s]
           q2 == [q EXCEPT !.at = "pairs"]
<1>1. q \in Query /\ QueryIsRight(q, syscalls, syscall_count)
    BY DEF LogIInv, LogTypes
<1>2. q.at = "copy" /\ Len(q.copied) = q.count /\ Logging!Continue(s, q2)
    BY DEF Logging!Sort, Logging!At
<1> HIDE DEF q
<1>3. HasLog(q, syscalls, syscall_count) /\ HasRead(q, syscalls) /\ q.i = 0 /\ q.j = 0
    BY <1>1, <1>2 DEF QueryIsRight
<1>4. /\ q2 \in Query /\ q2.at = "pairs" /\ q2.copied = q.copied /\ q2.p = q.p
      /\ q2.count = q.count /\ q2.i = 0 /\ q2.j = 0 /\ q2.intact = q.intact
    BY <1>1, <1>3 DEF Query
<1> HIDE DEF q2
<1>5. HasLog(q2, syscalls, syscall_count)
    BY <1>3, <1>4 DEF HasLog
<1>6. HasCopied(q2, syscalls)
    <2>1. q.intact => q.copied = Entry(q, syscalls)
        BY <1>1, <1>2, <1>3, CopyIsLog
    <2>2. Entry(q2, syscalls) = Entry(q, syscalls)
        BY <1>4 DEF Entry
    <2> QED
        BY <1>2, <1>4, <2>1, <2>2 DEF HasCopied
<1>7. Bubbles(q2)
    <2>1. q.count \in Nat /\ q.count >= 1
        BY <1>1, <1>3 DEF Query, HasLog
    <2> QED
        BY <1>4, <2>1 DEF Bubbles
<1>8. QueryIsRight(q2, syscalls, syscall_count)
    BY <1>4, <1>5, <1>6, <1>7 DEF QueryIsRight
<1> QED
    BY <1>2, <1>4, <1>8, OneQuery

\* The numbers of the log are numbers.
LEMMA NumbersAreNumbers ==
    ASSUME Logged PROVE \A y \in Number : y \in Int /\ y \in 0..Counters - 1
<1> TAKE y \in Number
<1>1. y \in 0..Counters - 1
    BY DEF Logged
<1> QED
    BY <1>1

\* What a turn of the inner loop does to the copy.
LEMMA PairSwapped ==
    ASSUME Logged, NEW a \in Seq(Number), NEW j \in Nat, j + 2 <= Len(a)
    PROVE  LET b == Logging!SwapPair(a, j) IN
           /\ b \in Seq(Number) /\ Len(b) = Len(a)
           /\ \A k \in 1..Len(a) : k # j + 1 /\ k # j + 2 => b[k] = a[k]
           /\ {b[j + 1], b[j + 2]} = {a[j + 1], a[j + 2]} /\ b[j + 1] <= b[j + 2]
           /\ \A x : Logging!Occurrences(b, x) = Logging!Occurrences(a, x)
<1> DEFINE c == [a EXCEPT ![j + 1] = a[j + 2], ![j + 2] = a[j + 1]]
<1>1. /\ c \in Seq(Number) /\ Len(c) = Len(a) /\ c[j + 1] = a[j + 2] /\ c[j + 2] = a[j + 1]
      /\ \A k \in 1..Len(a) : k # j + 1 /\ k # j + 2 => c[k] = a[k]
    OBVIOUS
<1>2. \A x : Logging!Occurrences(c, x) = Logging!Occurrences(a, x)
    BY OccurrencesSwap
<1>3. a[j + 1] \in Int /\ a[j + 2] \in Int
    <2>1. j + 1 \in 1..Len(a) /\ j + 2 \in 1..Len(a)
        OBVIOUS
    <2>2. a[j + 1] \in Number /\ a[j + 2] \in Number
        BY <2>1
    <2> QED
        BY <2>2, NumbersAreNumbers
<1>4. Logging!SwapPair(a, j) = IF a[j + 1] > a[j + 2] THEN c ELSE a
    BY DEF Logging!SwapPair
<1> HIDE DEF c
<1> QED
    BY <1>1, <1>2, <1>3, <1>4

\* A turn of the inner loop.
LEMMA PairCompared ==
    ASSUME Logged, LogIInv, NEW s \in Logging!Slot, Logging!ComparePair(s)
    PROVE  LogIInv'
<1> DEFINE q == asking[s]
           a == q.copied
           b == Logging!SwapPair(q.copied, q.j)
           q2 == [q EXCEPT !.copied = b, !.j = q.j + 1]
<1>1. q \in Query /\ QueryIsRight(q, syscalls, syscall_count)
    BY DEF LogIInv, LogTypes
<1>2. /\ q.at = "pairs" /\ q.i < q.count - 1 /\ q.j < q.count - q.i - 1
      /\ Logging!Continue(s, q2)
    BY DEF Logging!ComparePair, Logging!At, Logging!LastPair
<1> HIDE DEF q
<1>3. HasLog(q, syscalls, syscall_count) /\ HasCopied(q, syscalls) /\ Bubbles(q)
    BY <1>1, <1>2 DEF QueryIsRight
<1>4. /\ q.copied \in Seq(Number) /\ Len(q.copied) = q.count /\ q.i \in Nat /\ q.j \in Nat
      /\ q.count \in Nat
    BY <1>1, <1>3 DEF Query, HasCopied
<1>5. /\ b \in Seq(Number) /\ Len(b) = Len(a)
      /\ \A k \in 1..Len(a) : k # q.j + 1 /\ k # q.j + 2 => b[k] = a[k]
      /\ {b[q.j + 1], b[q.j + 2]} = {a[q.j + 1], a[q.j + 2]} /\ b[q.j + 1] <= b[q.j + 2]
      /\ \A x : Logging!Occurrences(b, x) = Logging!Occurrences(a, x)
    <2>1. q.j + 2 <= Len(q.copied)
        BY <1>2, <1>4
    <2> QED
        BY <1>4, <2>1, PairSwapped
<1> HIDE DEF b
<1>6. /\ q2 \in Query /\ q2.at = "pairs" /\ q2.copied = b /\ q2.p = q.p
      /\ q2.count = q.count /\ q2.i = q.i /\ q2.j = q.j + 1 /\ q2.intact = q.intact
    <2>1. PICK j2 : j2 = q.j + 1
        OBVIOUS
    <2>2. j2 \in Nat
        BY <1>4, <2>1
    <2>3. [q EXCEPT !.copied = b, !.j = j2] \in Query
        BY <1>1, <1>5, <2>2 DEF Query
    <2> QED
        BY <1>1, <1>2, <2>1, <2>3 DEF Query
<1> HIDE DEF q2
<1>7. HasLog(q2, syscalls, syscall_count)
    BY <1>3, <1>5, <1>6 DEF HasLog
<1>8. HasCopied(q2, syscalls)
    <2>1. Entry(q2, syscalls) = Entry(q, syscalls)
        BY <1>6 DEF Entry
    <2> QED
        BY <1>3, <1>5, <1>6, <2>1 DEF HasCopied
<1>9. Bubbles(q2)
    <2>1. \A k \in 1..q.count : a[k] \in Int /\ b[k] \in Int
        <3>1. \A k \in 1..q.count : a[k] \in Number /\ b[k] \in Number
            BY <1>4, <1>5
        <3> QED
            BY <3>1, NumbersAreNumbers
    <2>7. /\ q.j + 1 \in 1..q.count /\ q.j + 2 \in 1..q.count /\ q.j + 2 <= q.count - q.i
          /\ q.j + 1 # q.j + 2
        <3>1. PICK i, j, c : i = q.i /\ j = q.j /\ c = q.count
            OBVIOUS
        <3>2. i \in Nat /\ j \in Nat /\ c \in Nat /\ j < c - i - 1
            BY <1>2, <1>4, <3>1
        <3> QED
            BY <3>1, <3>2
    <2>8. \A k \in 1..q.count : k # q.j + 1 /\ k # q.j + 2 => b[k] = a[k]
        BY <1>4, <1>5
    <2>2. \A x, y \in 1..q.count : x < y /\ y > q.count - q.i => a[x] <= a[y]
        BY <1>3 DEF Bubbles
    <2>3. \A x \in 1..q.j : a[x] <= a[q.j + 1]
        BY <1>3 DEF Bubbles
    <2>4. ASSUME NEW x \in 1..q.count, NEW y \in 1..q.count, x < y, y > q.count - q.i
          PROVE  b[x] <= b[y]
        <3>4. q.j + 1 < y /\ q.j + 2 < y
            BY <1>4, <2>4, <2>7
        <3>1. b[y] = a[y] /\ q.j + 1 < y /\ q.j + 2 < y
              /\ q.j + 1 \in 1..q.count /\ q.j + 2 \in 1..q.count
            BY <2>7, <2>8, <3>4
        <3>2. a[x] <= a[y] /\ a[q.j + 1] <= a[y] /\ a[q.j + 2] <= a[y]
            BY <2>2, <2>4, <3>1
        <3>3. b[x] = a[x] \/ b[x] = a[q.j + 1] \/ b[x] = a[q.j + 2]
            BY <1>4, <1>5
        <3> QED
            BY <3>1, <3>2, <3>3
    <2>5. ASSUME NEW x \in 1..(q.j + 1)
          PROVE  b[x] <= b[q.j + 2]
        <3>1. CASE x = q.j + 1
            BY <1>5, <3>1
        <3>2. CASE x \in 1..q.j
            <4>1. b[x] = a[x] /\ a[x] <= a[q.j + 1] /\ x \in 1..q.count
                  /\ q.j + 1 \in 1..q.count /\ q.j + 2 \in 1..q.count
                <5>1. x # q.j + 1 /\ x # q.j + 2 /\ x \in 1..q.count
                    BY <1>4, <2>7, <3>2
                <5> QED
                    BY <2>3, <2>7, <2>8, <3>2, <5>1
            <4>2. a[q.j + 1] = b[q.j + 1] \/ a[q.j + 1] = b[q.j + 2]
                BY <1>5
            <4>3. a[q.j + 1] <= b[q.j + 2]
                BY <1>5, <2>1, <4>1, <4>2
            <4> QED
                BY <2>1, <4>1, <4>3
        <3> QED
            BY <1>4, <3>1, <3>2
    <2>6. q.i <= q.count - 1 /\ q.j + 1 <= q.count - q.i - 1 /\ (q.j + 1) + 1 = q.j + 2
        BY <1>2, <1>4
    <2> QED
        BY <1>6, <2>4, <2>5, <2>6 DEF Bubbles
<1>10. QueryIsRight(q2, syscalls, syscall_count)
    BY <1>6, <1>7, <1>8, <1>9 DEF QueryIsRight
<1> QED
    BY <1>2, <1>6, <1>10, OneQuery

\* A turn of the outer loop ends: one more entry is in its place.
LEMMA PassEnds ==
    ASSUME Logged, LogIInv, NEW s \in Logging!Slot, Logging!NextPass(s)
    PROVE  LogIInv'
<1> DEFINE q == asking[s]
           q2 == [q EXCEPT !.i = q.i + 1, !.j = 0]
<1>1. q \in Query /\ QueryIsRight(q, syscalls, syscall_count)
    BY DEF LogIInv, LogTypes
<1>2. /\ q.at = "pairs" /\ q.i < q.count - 1 /\ q.j >= q.count - q.i - 1
      /\ Logging!Continue(s, q2)
    BY DEF Logging!NextPass, Logging!At, Logging!LastPair
<1> HIDE DEF q
<1>3. HasLog(q, syscalls, syscall_count) /\ HasCopied(q, syscalls) /\ Bubbles(q)
    BY <1>1, <1>2 DEF QueryIsRight
<1>4. /\ q.copied \in Seq(Number) /\ Len(q.copied) = q.count /\ q.i \in Nat /\ q.j \in Nat
      /\ q.count \in Nat
    BY <1>1, <1>3 DEF Query, HasCopied
<1>5. /\ q2 \in Query /\ q2.at = "pairs" /\ q2.copied = q.copied /\ q2.p = q.p
      /\ q2.count = q.count /\ q2.i = q.i + 1 /\ q2.j = 0 /\ q2.intact = q.intact
    <2>1. PICK i2 : i2 = q.i + 1
        OBVIOUS
    <2>2. i2 \in Nat
        BY <1>4, <2>1
    <2>3. [q EXCEPT !.i = i2, !.j = 0] \in Query
        BY <1>1, <2>2 DEF Query
    <2> QED
        BY <1>1, <1>2, <2>1, <2>3 DEF Query
<1> HIDE DEF q2
<1>6. HasLog(q2, syscalls, syscall_count)
    BY <1>3, <1>5 DEF HasLog
<1>7. HasCopied(q2, syscalls)
    <2>1. Entry(q2, syscalls) = Entry(q, syscalls)
        BY <1>5 DEF Entry
    <2> QED
        BY <1>3, <1>5, <2>1 DEF HasCopied
<1>8. Bubbles(q2)
    <2>1. q.j = q.count - q.i - 1
        BY <1>2, <1>3, <1>4 DEF Bubbles
    <2>2. ASSUME NEW x \in 1..q.count, NEW y \in 1..q.count, x < y, y > q.count - (q.i + 1)
          PROVE  q.copied[x] <= q.copied[y]
        <3>1. CASE y > q.count - q.i
            BY <1>3, <2>2, <3>1 DEF Bubbles
        <3>2. CASE y = q.j + 1
            <4>1. x \in 1..q.j
                BY <1>4, <2>2, <3>2
            <4> QED
                BY <1>3, <3>2, <4>1 DEF Bubbles
        <3> QED
            BY <1>4, <2>1, <2>2, <3>1, <3>2
    <2>3. q.i + 1 <= q.count - 1 /\ 0 <= q.count - (q.i + 1) - 1
        BY <1>2, <1>4
    <2>4. \A x \in 1..0 : q.copied[x] <= q.copied[0 + 1]
        OBVIOUS
    <2> QED
        BY <1>5, <2>2, <2>3, <2>4 DEF Bubbles
<1>9. QueryIsRight(q2, syscalls, syscall_count)
    BY <1>5, <1>6, <1>7, <1>8 DEF QueryIsRight
<1> QED
    BY <1>2, <1>5, <1>9, OneQuery

\* The sort ends.
LEMMA SortEnds ==
    ASSUME Logged, LogIInv, NEW s \in Logging!Slot, Logging!Sorted(s)
    PROVE  LogIInv'
<1> DEFINE q == asking[s]
           q2 == [q EXCEPT !.at = "sorted"]
<1>1. q \in Query /\ QueryIsRight(q, syscalls, syscall_count)
    BY DEF LogIInv, LogTypes
<1>2. q.at = "pairs" /\ q.i >= q.count - 1 /\ Logging!Continue(s, q2)
    BY DEF Logging!Sorted, Logging!At
<1> HIDE DEF q
<1>3. HasLog(q, syscalls, syscall_count) /\ HasCopied(q, syscalls) /\ Bubbles(q)
    BY <1>1, <1>2 DEF QueryIsRight
<1>4. q.i \in Nat /\ q.count \in Nat
    BY <1>1 DEF Query
<1>5. /\ q2 \in Query /\ q2.at = "sorted" /\ q2.copied = q.copied /\ q2.p = q.p
      /\ q2.count = q.count /\ q2.intact = q.intact
    BY <1>1 DEF Query
<1> HIDE DEF q2
<1>6. HasLog(q2, syscalls, syscall_count)
    BY <1>3, <1>5 DEF HasLog
<1>7. HasCopied(q2, syscalls)
    <2>1. Entry(q2, syscalls) = Entry(q, syscalls)
        BY <1>5 DEF Entry
    <2> QED
        BY <1>3, <1>5, <2>1 DEF HasCopied
<1>8. Ascending(q2)
    <2>1. \A y \in 1..q.count : y > 1 => y > q.count - q.i
        BY <1>2, <1>4
    <2> QED
        BY <1>3, <1>4, <1>5, <2>1 DEF Ascending, Bubbles
<1>9. QueryIsRight(q2, syscalls, syscall_count)
    BY <1>5, <1>6, <1>7, <1>8 DEF QueryIsRight
<1> QED
    BY <1>2, <1>5, <1>9, OneQuery

\* The larger of two numbers.
LEMMA MaxOfTwo ==
    ASSUME NEW x \in Int, NEW y \in Int
    PROVE  Logging!Max({x, y}) = IF x >= y THEN x ELSE y
BY DEF Logging!Max

\* A turn of the counting loop.
LEMMA EntryCounted ==
    ASSUME Logged, LogIInv, NEW s \in Logging!Slot, Logging!CountEntry(s)
    PROVE  LogIInv'
<1> DEFINE q == asking[s]
           x == syscalls[q.p][Len(q.copied) + 1]
           a == Append(q.copied, x)
           c == [q.counts EXCEPT ![x] = @ + 1]
           m == Logging!Max({q.max_freq, c[x]})
           q2 == [q EXCEPT !.copied = a, !.counts = c, !.max_freq = m]
<1>1. q \in Query /\ QueryIsRight(q, syscalls, syscall_count)
    BY DEF LogIInv, LogTypes
<1>2. q.at = "count" /\ Len(q.copied) < q.count /\ Logging!Continue(s, q2)
    BY DEF Logging!CountEntry, Logging!At
<1> HIDE DEF q
<1>3. HasLog(q, syscalls, syscall_count) /\ HasRead(q, syscalls) /\ HasCounted(q)
    BY <1>1, <1>2 DEF QueryIsRight
<1>4. /\ q.copied \in Seq(Number) /\ Len(q.copied) \in Nat /\ q.count \in Nat
      /\ q.max_freq \in Int /\ q.counts \in [0..Counters - 1 -> Nat]
    BY <1>1, <1>3 DEF Query, HasCounted
<1>5. x \in Number /\ x = syscalls[q.p][Len(q.copied) + 1] /\ x \in 0..Counters - 1
    <2>1. x = syscalls[q.p][Len(q.copied) + 1]
        OBVIOUS
    <2> HIDE DEF x
    <2>2. Len(q.copied) + 1 \in 1..q.count
        BY <1>2, <1>4
    <2>3. x \in Number
        BY <1>3, <2>1, <2>2 DEF HasLog
    <2> QED
        BY <2>1, <2>3, NumbersAreNumbers
<1> HIDE DEF x
<1>6. /\ a \in Seq(Number) /\ Len(a) = Len(q.copied) + 1 /\ a[Len(q.copied) + 1] = x
      /\ \A k \in 1..Len(q.copied) : a[k] = q.copied[k]
    BY <1>4, <1>5
<1>7. \A y : Logging!Occurrences(a, y) = Logging!Occurrences(q.copied, y)
                                           + (IF x = y THEN 1 ELSE 0)
    BY <1>4, <1>5, OccurrencesAppend
<1> HIDE DEF a
<1>8. /\ c \in [0..Counters - 1 -> Nat] /\ c[x] = q.counts[x] + 1
      /\ \A y \in 0..Counters - 1 : y # x => c[y] = q.counts[y]
    <2>1. PICK w : w = q.counts[x] + 1
        OBVIOUS
    <2>2. q.counts[x] \in Nat
        BY <1>4, <1>5
    <2>3. w \in Nat /\ c = [q.counts EXCEPT ![x] = w]
        BY <2>1, <2>2
    <2> HIDE DEF c
    <2> QED
        BY <1>4, <1>5, <2>1, <2>3
<1> HIDE DEF c
<1>9. m = (IF q.max_freq >= c[x] THEN q.max_freq ELSE c[x]) /\ m \in Int /\ c[x] \in Int
    <2>1. c[x] \in Int
        BY <1>5, <1>8
    <2> QED
        BY <1>4, <2>1, MaxOfTwo
<1> HIDE DEF m
<1>10. /\ q2 \in Query /\ q2.at = "count" /\ q2.copied = a /\ q2.p = q.p
       /\ q2.count = q.count /\ q2.intact = q.intact /\ q2.counts = c /\ q2.max_freq = m
    BY <1>1, <1>2, <1>6, <1>8, <1>9 DEF Query
<1> HIDE DEF q2
<1>11. HasLog(q2, syscalls, syscall_count)
    BY <1>2, <1>3, <1>4, <1>6, <1>10 DEF HasLog
<1>12. HasRead(q2, syscalls)
    BY <1>3, <1>4, <1>5, <1>6, <1>10 DEF HasRead
<1>13. HasCounted(q2)
    <2>1. \A y \in 0..Counters - 1 : c[y] = Logging!Occurrences(a, y)
        <3> TAKE y \in 0..Counters - 1
        <3>1. q.counts[y] = Logging!Occurrences(q.copied, y) /\ q.counts[y] \in Nat
            BY <1>3, <1>4 DEF HasCounted
        <3>2. CASE y = x
            BY <1>7, <1>8, <3>1, <3>2
        <3>3. CASE y # x
            BY <1>7, <1>8, <3>1, <3>3
        <3> QED
            BY <3>2, <3>3
    <2>2. \A y \in 0..Counters - 1 : q.counts[y] \in Nat /\ c[y] \in Nat
        BY <1>4, <1>8
    <2>3. CASE Len(q.copied) = 0
        <3>1. \A y \in 0..Counters - 1 : q.counts[y] = 0
            <4> TAKE y \in 0..Counters - 1
            <4>1. Logging!Occurrences(q.copied, y) = 0
                BY <1>4, <2>3, OccurrencesCount
            <4> QED
                BY <1>3, <4>1 DEF HasCounted
        <3>2. q.max_freq = -1 /\ c[x] = 1
            BY <1>3, <1>5, <1>8, <2>3, <3>1 DEF HasCounted
        <3>3. m = 1 /\ \A y \in 0..Counters - 1 : c[y] <= 1
            BY <1>8, <1>9, <3>1, <3>2
        <3> QED
            <4>1. Len(a) = 1 /\ \E y \in 0..Counters - 1 : c[y] = m
                BY <1>5, <1>6, <2>3, <3>2, <3>3
            <4> QED
                BY <1>8, <1>10, <2>1, <3>3, <4>1 DEF HasCounted
    <2>4. CASE Len(q.copied) > 0
        <3>1. PICK z \in 0..Counters - 1 : q.counts[z] = q.max_freq
            BY <1>3, <2>4 DEF HasCounted
        <3>2. \A y \in 0..Counters - 1 : q.counts[y] <= q.max_freq
            BY <1>3, <2>4 DEF HasCounted
        <3>3. \A y \in 0..Counters - 1 : c[y] <= m
            <4> TAKE y \in 0..Counters - 1
            <4>1. CASE y = x
                BY <1>4, <1>9, <4>1
            <4>2. CASE y # x
                BY <1>4, <1>8, <1>9, <2>2, <3>2, <4>2
            <4> QED
                BY <4>1, <4>2
        <3>4. \E y \in 0..Counters - 1 : c[y] = m
            <4>1. CASE q.max_freq >= c[x]
                <5>1. z # x
                    BY <1>8, <2>2, <3>1, <4>1
                <5> QED
                    BY <1>8, <1>9, <3>1, <4>1, <5>1
            <4>2. CASE ~(q.max_freq >= c[x])
                BY <1>5, <1>9, <4>2
            <4> QED
                BY <4>1, <4>2
        <3> QED
            BY <1>4, <1>6, <1>8, <1>10, <2>1, <2>4, <3>3, <3>4 DEF HasCounted
    <2> QED
        BY <1>4, <2>3, <2>4
<1>14. QueryIsRight(q2, syscalls, syscall_count)
    BY <1>10, <1>11, <1>12, <1>13 DEF QueryIsRight
<1> QED
    BY <1>2, <1>10, <1>14, OneQuery

\* The counting ends.
LEMMA CountEnds ==
    ASSUME Logged, LogIInv, NEW s \in Logging!Slot, Logging!Counted(s)
    PROVE  LogIInv'
<1> DEFINE q == asking[s]
           q2 == [q EXCEPT !.at = "counted"]
<1>1. q \in Query /\ QueryIsRight(q, syscalls, syscall_count)
    BY DEF LogIInv, LogTypes
<1>2. q.at = "count" /\ Len(q.copied) = q.count /\ Logging!Continue(s, q2)
    BY DEF Logging!Counted, Logging!At
<1> HIDE DEF q
<1>3. HasLog(q, syscalls, syscall_count) /\ HasRead(q, syscalls) /\ HasCounted(q)
    BY <1>1, <1>2 DEF QueryIsRight
<1>4. /\ q2 \in Query /\ q2.at = "counted" /\ q2.copied = q.copied /\ q2.p = q.p
      /\ q2.count = q.count /\ q2.intact = q.intact /\ q2.counts = q.counts
      /\ q2.max_freq = q.max_freq
    BY <1>1 DEF Query
<1> HIDE DEF q2
<1>5. HasLog(q2, syscalls, syscall_count) /\ HasRead(q2, syscalls) /\ HasCounted(q2)
    BY <1>3, <1>4 DEF HasLog, HasRead, HasCounted
<1>6. QueryIsRight(q2, syscalls, syscall_count)
    BY <1>2, <1>4, <1>5 DEF QueryIsRight
<1> QED
    BY <1>2, <1>4, <1>6, OneQuery

\* A process may go; its log stays in the slot.
LEMMA LogOutlives ==
    ASSUME LogIInv, UNCHANGED <<syscalls, syscall_count, asking>>
    PROVE  LogIInv'
BY DEF LogIInv, LogTypes, Logging!Slot

\* Every step keeps the logs and the queries right.
LEMMA LogNext ==
    ASSUME Logged, LogIInv, [Logging!Next]_(Logging!vars)
    PROVE  LogIInv'
<1>1. CASE UNCHANGED Logging!vars
    BY <1>1, LogOutlives DEF Logging!vars
<1>2. ASSUME NEW s \in Logging!Slot, NEW x \in Number, Logging!Syscall(s, x) PROVE LogIInv'
    BY <1>2, CallRecorded DEF Logging!Syscall
<1>3. ASSUME NEW s \in Logging!Slot, NEW x \in Number,
             Logging!NothingThere(s, x) \/ Logging!Report(s, x)
      PROVE  LogIInv'
    BY <1>3, CallRecorded DEF Logging!NothingThere, Logging!Report, Logging!Return
<1>4. ASSUME NEW s \in Logging!Slot, Logging!ExitAndReap(s) PROVE LogIInv'
    BY <1>4, LogOutlives DEF Logging!ExitAndReap
<1>5. CASE Logging!Next
    BY <1>2, <1>3, <1>4, <1>5, ForkEmpties, AskingBegins, ReadingBegins, EntryCopied, SortBegins,
       PairCompared, PassEnds, SortEnds, EntryCounted, CountEnds DEF Logging!Next
<1> QED
    BY <1>1, <1>5

\* What the call compares its numbers with is the log itself.
LEMMA EntriesAreEntry ==
    ASSUME Logged, LogTypes, NEW q \in Query, HasLog(q, syscalls, syscall_count)
    PROVE  Logging!Entries(q) = Entry(q, syscalls)
<1>1. q.p \in Logging!Slot /\ q.count \in 0..MaxLog /\ syscalls[q.p] \in [1..MaxLog -> Int]
    BY DEF HasLog, LogTypes, Query
<1>2. PICK log : log = syscalls[q.p]
    OBVIOUS
<1>3. log \in Seq(Int) /\ Len(log) = MaxLog
    BY <1>1, <1>2 DEF Logged
<1>4. SubSeq(log, 1, q.count) = [k \in 1..q.count |-> log[k]]
    BY <1>1, <1>3 DEF Logged
<1> QED
    BY <1>2, <1>4 DEF Logging!Entries, Entry

\* The sorted copy is the log in order.
LEMMA SortedIsTheLog == ASSUME Logged, LogIInv PROVE Logging!SortsTheLog
<1> SUFFICES ASSUME NEW s \in Logging!Slot, asking[s].at = "sorted", asking[s].intact
             PROVE  /\ \A x, y \in DOMAIN asking[s].copied :
                         x < y => asking[s].copied[x] <= asking[s].copied[y]
                    /\ \A x \in Number : Logging!Occurrences(asking[s].copied, x)
                                           = Logging!Occurrences(Logging!Entries(asking[s]), x)
    BY DEF Logging!SortsTheLog
<1> DEFINE q == asking[s]
<1>1. /\ q \in Query /\ Ascending(q) /\ HasCopied(q, syscalls)
      /\ HasLog(q, syscalls, syscall_count)
    BY DEF LogIInv, LogTypes, QueryIsRight
<1>2. DOMAIN q.copied = 1..q.count
    BY <1>1 DEF Query, HasCopied
<1>3. Logging!Entries(q) = Entry(q, syscalls)
    BY <1>1, EntriesAreEntry DEF LogIInv
<1> HIDE DEF q
<1> QED
    BY <1>1, <1>2, <1>3 DEF q, Ascending, HasCopied

\* The numbers reported are those that occur most often.
LEMMA CountedIsTheLog == ASSUME Logged, LogIInv PROVE Logging!CountsTheLog
<1> SUFFICES ASSUME NEW s \in Logging!Slot, asking[s].at = "counted", asking[s].intact
             PROVE  LET q == asking[s] IN
                    Logging!MostInvoked(q)
                      = {y \in Number : \A k \in Number :
                           Logging!Occurrences(Logging!Entries(q), k)
                             <= Logging!Occurrences(Logging!Entries(q), y)}
    BY DEF Logging!CountsTheLog
<1> DEFINE q == asking[s]
           e == Logging!Entries(q)
<1>1. /\ q \in Query /\ HasCounted(q) /\ HasRead(q, syscalls) /\ Len(q.copied) = q.count
      /\ HasLog(q, syscalls, syscall_count) /\ q.intact
    BY DEF LogIInv, LogTypes, QueryIsRight
<1> HIDE DEF q
<1>2. e = q.copied
    BY <1>1, EntriesAreEntry, CopyIsLog DEF LogIInv
<1>3. /\ q.copied \in Seq(Number) /\ Len(q.copied) \in Nat /\ Len(q.copied) >= 1
      /\ q.counts \in [0..Counters - 1 -> Nat] /\ q.max_freq \in Int
    BY <1>1 DEF Query, HasLog, HasCounted
<1>4. /\ \A y \in 0..Counters - 1 : q.counts[y] = Logging!Occurrences(e, y)
      /\ \A y \in 0..Counters - 1 : q.counts[y] <= q.max_freq /\ q.counts[y] \in Nat
      /\ \A y \in Number : y \in 0..Counters - 1
    <2>1. \A y \in 0..Counters - 1 : q.counts[y] = Logging!Occurrences(e, y)
        BY <1>1, <1>2 DEF HasCounted
    <2>2. \A y \in 0..Counters - 1 : q.counts[y] \in Nat
        BY <1>3
    <2>3. \A y \in 0..Counters - 1 : q.counts[y] <= q.max_freq
        BY <1>1, <1>3 DEF HasCounted
    <2> QED
        BY <2>1, <2>2, <2>3, NumbersAreNumbers
<1>5. PICK z \in 0..Counters - 1 : q.counts[z] = q.max_freq
    BY <1>1, <1>3 DEF HasCounted
<1>6. q.max_freq > 0
    <2>1. q.copied[1] \in Number /\ 1 \in 1..Len(q.copied)
        BY <1>3
    <2>2. Logging!Occurrences(q.copied, q.copied[1]) # 0
        BY <1>3, <2>1, OccurrencesCount
    <2>3. q.counts[q.copied[1]] # 0
        BY <1>2, <1>4, <2>1, <2>2
    <2> QED
        BY <1>3, <1>4, <2>1, <2>3
<1>7. ASSUME NEW y \in 0..Counters - 1, q.counts[y] = q.max_freq PROVE y \in Number
    <2>1. Logging!Occurrences(q.copied, y) # 0
        BY <1>2, <1>4, <1>6, <1>7
    <2>2. PICK k \in 1..Len(q.copied) : q.copied[k] = y
        BY <1>3, <2>1, OccurrencesCount
    <2> QED
        BY <1>3, <2>2
<1> DEFINE most == {y \in Number : \A k \in Number :
                      Logging!Occurrences(e, k) <= Logging!Occurrences(e, y)}
<1>8. \A y \in Logging!MostInvoked(q) : y \in most
    <2> TAKE y \in Logging!MostInvoked(q)
    <2>1. y \in 0..Counters - 1 /\ q.counts[y] = q.max_freq
        BY <1>3 DEF Logging!MostInvoked
    <2>2. y \in Number
        BY <1>7, <2>1
    <2>3. \A k \in Number : Logging!Occurrences(e, k) <= Logging!Occurrences(e, y)
        BY <1>4, <2>1
    <2> QED
        BY <2>2, <2>3
<1>9. \A y \in most : y \in Logging!MostInvoked(q)
    <2> TAKE y \in most
    <2>1. z \in Number
        BY <1>5, <1>7
    <2>2. y \in 0..Counters - 1 /\ Logging!Occurrences(e, z) <= Logging!Occurrences(e, y)
        BY <1>4, <2>1
    <2>3. q.max_freq <= q.counts[y] /\ q.counts[y] <= q.max_freq
        BY <1>4, <1>5, <2>2
    <2>4. q.counts[y] = q.max_freq
        BY <1>3, <1>4, <2>2, <2>3
    <2> QED
        BY <1>3, <2>2, <2>4 DEF Logging!MostInvoked
<1>10. Logging!MostInvoked(q) = most
    BY <1>8, <1>9
<1> QED
    BY <1>10 DEF q

\* Whatever calls the processes make while one reads the log of another, and whoever
\* exits: sort_syscalls() and get_most_invoked_syscall() report the log as it was when they
\* read its length, unless a new process takes the slot.
THEOREM QueriesReadTheLog ==
    ASSUME Logged
    PROVE  Logging!Spec => [](Logging!SortsTheLog /\ Logging!CountsTheLog)
<1>1. Logging!Init => LogIInv
    BY LogBegins
<1>2. LogIInv /\ [Logging!Next]_(Logging!vars) => LogIInv'
    BY LogNext
<1>3. LogIInv => Logging!SortsTheLog /\ Logging!CountsTheLog
    BY SortedIsTheLog, CountedIsTheLog
<1> QED
    BY <1>1, <1>2, <1>3, PTL DEF Logging!Spec

-----------------------------------------------------------------------------
(* The blocks of files, and the bitmap *)

CONSTANTS Writers, BSIZE, NDIRECT, FSSIZE, nmeta, Programs, MAXOPBLOCKS, MaxOps, Lengths
VARIABLES image, bitmap, disk, inode, job, logged, contents, ops

Store == INSTANCE Blocks WITH Proc <- Writers, Sizes <- Lengths

\* What the constants stand for; the entries of the root do not fill its last block.
Formatted ==
    /\ BSIZE \in Nat \ {0} /\ NDIRECT \in Nat /\ FSSIZE \in Nat /\ nmeta \in 1..FSSIZE
    /\ Programs \in Seq(Seq(Nat)) /\ (Len(Programs) + 2) % BSIZE # 0
    /\ MAXOPBLOCKS \in Nat /\ MAXOPBLOCKS >= 4
    /\ Lengths \subseteq Nat

\* The position in a file where block number x begins.
Start(x) == x * BSIZE

\* Blocks follow each other.
LEMMA StartIs ==
    ASSUME Formatted, NEW x \in Nat
    PROVE  Start(x) \in Nat /\ Start(x + 1) = Start(x) + BSIZE
<1>1. BSIZE \in Nat
    BY DEF Formatted
<1> QED
    BY <1>1, SMT DEF Start

\* One is before the next.
LEMMA StartGrows ==
    ASSUME Formatted, NEW x \in Nat, NEW y \in Nat, x < y
    PROVE  Start(x) + BSIZE <= Start(y)
<1>1. BSIZE \in Nat
    BY DEF Formatted
<1>2. PICK z \in Nat : z = y - x - 1
    OBVIOUS
<1>3. Start(y) = Start(x) + BSIZE + z * BSIZE
    <2>1. y = x + z + 1
        BY <1>2
    <2> QED
        BY <1>1, <2>1, SMT DEF Start
<1>4. z * BSIZE \in Nat
    BY <1>1, SMT
<1> QED
    BY <1>3, <1>4, StartIs

\* Every position is in one block.
LEMMA StartOf ==
    ASSUME Formatted, NEW off \in Nat
    PROVE  /\ off \div BSIZE \in Nat
           /\ Start(off \div BSIZE) <= off /\ off < Start(off \div BSIZE) + BSIZE
           /\ off % BSIZE = off - Start(off \div BSIZE)
<1>1. BSIZE \in Nat \ {0}
    BY DEF Formatted
<1>2. /\ off \div BSIZE \in Int /\ off % BSIZE \in 0..(BSIZE - 1)
      /\ off = BSIZE * (off \div BSIZE) + (off % BSIZE)
    BY <1>1, SMT
<1>3. PICK q \in Int : q = off \div BSIZE
    BY <1>2
<1>4. q >= 0
    BY <1>1, <1>2, <1>3, SMT
<1>5. BSIZE * q = q * BSIZE
    BY <1>1, SMT
<1> QED
    BY <1>1, <1>2, <1>3, <1>4, <1>5 DEF Start

\* Which block a position is in, compared with another.
LEMMA StartCompared ==
    ASSUME Formatted, NEW off \in Nat, NEW x \in Nat
    PROVE  /\ Start(x) <= off <=> x <= off \div BSIZE
           /\ Start(x) <= off /\ off < Start(x) + BSIZE => off \div BSIZE = x
<1> DEFINE q == off \div BSIZE
<1>1. q \in Nat /\ Start(q) <= off /\ off < Start(q) + BSIZE
    BY StartOf
<1> HIDE DEF q
<1>2. Start(x) \in Nat /\ Start(q) \in Nat /\ BSIZE \in Nat
    BY <1>1, StartIs DEF Formatted
<1>3. x < q => Start(x) + BSIZE <= Start(q)
    BY <1>1, StartGrows
<1>4. q < x => Start(q) + BSIZE <= Start(x)
    BY <1>1, StartGrows
<1>5. q = x => Start(q) = Start(x)
    OBVIOUS
<1>6. /\ Start(x) <= off <=> x <= q
      /\ Start(x) <= off /\ off < Start(x) + BSIZE => q = x
    BY <1>1, <1>2, <1>3, <1>4, <1>5
<1> QED
    BY <1>6 DEF q

-----------------------------------------------------------------------------
(* What the invariants are about *)

\* Block numbers of files, and the block at a place of a file, unless it has been freed.
DataPlace == 0..(Store!MAXFILE - 1)
Has(i, x) == Store!Refers(i, x)

Truncating(i) == \E p \in Writers : job[p].op = "trunc" /\ job[p].i = i
Gone(i, x) == \E p \in Writers : job[p].op = "trunc" /\ job[p].i = i /\ x < job[p].k

\* The blocks in use: those before freeblock, until mkfs writes the bitmap.
Used == IF Store!Made THEN bitmap ELSE 0..(image.freeblock - 1)

DiskTypes ==
    /\ disk \in [Store!Block -> [1..BSIZE -> Nat]]
    /\ inode \in [Store!Inum -> [size : Nat, addrs : [1..(NDIRECT + 1) -> Nat]]]
    /\ contents \in [Store!Inum -> Seq(Nat)]
    /\ job \in [Writers -> [op : {"none", "wait", "write", "trunc"}, i : Store!Inum \cup {0},
                            off : Nat, n : Nat, left : Nat, k : Nat]]
    /\ logged \in [Writers -> SUBSET Nat]

\* The system's blocks are in use, and each block of a file, which is in one place.
UsedOnce ==
    /\ 0..(nmeta - 1) \subseteq Used /\ Used \subseteq Store!Block
    /\ \A i \in Store!Inum, x \in Store!Place :
         Has(i, x) # 0 => Has(i, x) \in Used /\ Has(i, x) >= nmeta
    /\ \A i \in Store!Inum, x \in Store!Place, j \in Store!Inum, y \in Store!Place :
         Has(i, x) # 0 /\ Has(i, x) = Has(j, y) => i = j /\ x = y

\* No other block is in use.
UsedAll ==
    \A b \in Used : b >= nmeta => \E i \in Store!Inum, x \in Store!Place : Has(i, x) = b

\* The data at a position of a file; there is nothing past its end.
Unit(c, k) == IF k <= Len(c) THEN c[k] ELSE 0

\* A file has the blocks that its length asks for, with its contents in them.
Filled(i) ==
    /\ \A x \in DataPlace : Has(i, x) # 0 <=> Start(x) < Len(contents[i])
    /\ \A x \in DataPlace : Has(i, x) # 0 =>
         \A u \in 1..BSIZE : disk[Has(i, x)][u] = Unit(contents[i], Start(x) + u)
    /\ Has(i, Store!MAXFILE) # 0 <=> Start(NDIRECT) < Len(contents[i])
    /\ Len(contents[i]) <= Start(Store!MAXFILE)

AllFilled == \A i \in Store!Inum : ~Truncating(i) => Filled(i)

-----------------------------------------------------------------------------
(* bmap() and a copy into the block, of writei() and of mkfs *)

\* What this does to file i, by its block number bn, when b1 and b2 are free.
Puts(i, bn, b1, b2, off, end, x) ==
    LET m == Store!Bmap(inode[i], bn, b1, b2) IN
    /\ i \in Store!Inum /\ bn \in DataPlace /\ ~Truncating(i) /\ x \in Nat
    /\ Store!Needed(inode[i], bn) > 0 => b1 \in Store!Block \ Used
    /\ Store!Needed(inode[i], bn) > 1 => b2 \in Store!Block \ Used /\ b1 # b2
    /\ disk' = [m.disk EXCEPT ![m.block] = Store!InBlock(@, bn, off, end, x)]
    /\ DOMAIN inode' = Store!Inum /\ inode'[i].addrs = m.addrs
    /\ \A j \in Store!Inum \ {i} : inode'[j] = inode[j]
    /\ Used' = Used \cup m.new
    /\ \A j \in Store!Inum : Truncating(j)' <=> Truncating(j)
    /\ \A j \in Store!Inum, y \in Store!Place : Gone(j, y)' <=> Gone(j, y)

\* What it comes to, with data block b and indirect block ind.
Stored(i, bn, b, ind, taken, off, end, x) ==
    /\ taken \subseteq Store!Block \ Used /\ Used' = Used \cup taken
    /\ \/ Has(i, bn) = 0 /\ b \in taken
       \/ Has(i, bn) = b /\ b # 0 /\ taken = {}
    /\ bn < NDIRECT => taken \subseteq {b}
    /\ bn >= NDIRECT =>
         \/ Has(i, Store!MAXFILE) = 0 /\ taken = {ind, b} /\ ind # b
         \/ Has(i, Store!MAXFILE) = ind /\ ind # 0 /\ taken \subseteq {b}
    /\ \A j \in Store!Inum, y \in Store!Place :
         Has(j, y)' = IF j = i /\ y = bn THEN b
                      ELSE IF j = i /\ y = Store!MAXFILE /\ bn >= NDIRECT THEN ind
                      ELSE Has(j, y)
    /\ \A j \in Store!Inum, y \in DataPlace :
         Has(j, y) # 0 /\ (j # i \/ y # bn) => disk'[Has(j, y)] = disk[Has(j, y)]
    /\ \A u \in 1..BSIZE :
         disk'[b][u] = IF Start(bn) + u \in (off + 1)..end THEN x
                       ELSE IF Has(i, bn) = 0 THEN 0 ELSE disk[b][u]
    /\ \A c \in Store!Block : c \notin Used /\ c \notin taken => disk'[c] = disk[c]
    /\ disk' \in [Store!Block -> [1..BSIZE -> Nat]]
    /\ inode'[i].addrs \in [1..(NDIRECT + 1) -> Nat]

\* The places of a file that is not being truncated.
LEMMA HasIs ==
    ASSUME NEW i \in Store!Inum, NEW y \in Store!Place
    PROVE  /\ Has(i, y) = IF Gone(i, y) THEN 0 ELSE Store!BlockAt(disk, inode[i], y)
           /\ Gone(i, y) => Truncating(i)
BY DEF Has, Gone, Truncating, Store!Refers, Store!NoBlock

\* The same after a step.
LEMMA HasBecomes ==
    ASSUME NEW i \in Store!Inum, NEW y \in Store!Place
    PROVE  Has(i, y)' = IF Gone(i, y)' THEN 0 ELSE Store!BlockAt(disk', inode'[i], y)
BY DEF Has, Gone, Store!Refers, Store!NoBlock, Store!BlockAt, Store!Lookup, Store!Indirect

\* A block number is a place, and so is that of the indirect block, after it.
LEMMA PlacesAre ==
    ASSUME Formatted
    PROVE  /\ Store!MAXFILE \in Nat /\ NDIRECT \in Nat /\ NDIRECT < Store!MAXFILE
           /\ Store!MAXFILE \in Store!Place /\ DataPlace \subseteq Store!Place
           /\ \A y \in Store!Place : y \in DataPlace \/ y = Store!MAXFILE
           /\ \A y \in DataPlace : y \in Nat /\ y < Store!MAXFILE /\ y # Store!MAXFILE
           /\ \A y \in DataPlace : y < NDIRECT => y + 1 \in 1..NDIRECT /\ y + 1 \in 1..(NDIRECT + 1)
           /\ \A y \in DataPlace : y >= NDIRECT => y - NDIRECT + 1 \in 1..BSIZE
           /\ NDIRECT + 1 \in 1..(NDIRECT + 1) /\ NDIRECT + 1 \notin 1..NDIRECT
BY DEF Formatted, Store!MAXFILE, Store!NINDIRECT, Store!Place, DataPlace

\* Whether bmap() needs blocks, in terms of places.
LEMMA NeededIs ==
    ASSUME Formatted, NEW i \in Store!Inum, ~Truncating(i), NEW bn \in DataPlace
    PROVE  /\ Has(i, bn) = Store!Lookup(disk, inode[i], bn)
           /\ Has(i, Store!MAXFILE) = Store!Indirect(inode[i])
           /\ bn >= NDIRECT /\ Has(i, Store!MAXFILE) = 0 => Has(i, bn) = 0
           /\ Store!Needed(inode[i], bn) =
                (IF bn >= NDIRECT /\ Has(i, Store!MAXFILE) = 0 THEN 1 ELSE 0)
                   + (IF Has(i, bn) = 0 THEN 1 ELSE 0)
<1>1. /\ Has(i, bn) = Store!BlockAt(disk, inode[i], bn)
      /\ Has(i, Store!MAXFILE) = Store!BlockAt(disk, inode[i], Store!MAXFILE)
    BY HasIs, PlacesAre
<1>2. Has(i, bn) = Store!Lookup(disk, inode[i], bn)
    BY <1>1, PlacesAre DEF Store!BlockAt
<1>3. Has(i, Store!MAXFILE) = Store!Indirect(inode[i])
    BY <1>1 DEF Store!BlockAt
<1>4. bn >= NDIRECT /\ Has(i, Store!MAXFILE) = 0 => Has(i, bn) = 0
    BY <1>2, <1>3, PlacesAre DEF Store!Lookup, Store!NoBlock
<1> QED
    BY <1>2, <1>3, <1>4 DEF Store!Needed, Store!NoBlock

\* A file's places with the indirect block of another disk and inode.
LEMMA BlockAtIs ==
    ASSUME Formatted, NEW d, NEW a, NEW y \in Store!Place
    PROVE  Store!BlockAt(d, a, y) =
             IF y = Store!MAXFILE THEN a.addrs[NDIRECT + 1]
             ELSE IF y < NDIRECT THEN a.addrs[y + 1]
             ELSE IF a.addrs[NDIRECT + 1] = 0 THEN 0
             ELSE d[a.addrs[NDIRECT + 1]][y - NDIRECT + 1]
BY DEF Store!BlockAt, Store!Lookup, Store!Indirect, Store!NoBlock

\* Every file that this leaves alone keeps its blocks, if its indirect block is kept.
LEMMA OthersKeepTheirs ==
    ASSUME Formatted, DiskTypes, NEW j \in Store!Inum, inode'[j] = inode[j],
           \A y \in Store!Place : Gone(j, y)' <=> Gone(j, y),
           Has(j, Store!MAXFILE) # 0 =>
             disk'[Has(j, Store!MAXFILE)] = disk[Has(j, Store!MAXFILE)]
    PROVE  \A y \in Store!Place : Has(j, y)' = Has(j, y)
<1> SUFFICES ASSUME NEW y \in Store!Place PROVE Has(j, y)' = Has(j, y)
    OBVIOUS
<1>1. CASE Gone(j, y)
    BY <1>1, HasIs, HasBecomes
<1>2. CASE ~Gone(j, y)
    <2>1. /\ Has(j, y) = Store!BlockAt(disk, inode[j], y)
          /\ Has(j, y)' = Store!BlockAt(disk', inode[j], y)
        BY <1>2, HasIs, HasBecomes
    <2>2. CASE y = Store!MAXFILE \/ y < NDIRECT
        BY <2>1, <2>2, BlockAtIs
    <2>3. CASE y # Store!MAXFILE /\ ~(y < NDIRECT)
        <3>1. ~Gone(j, Store!MAXFILE)
            <4>1. y < Store!MAXFILE /\ y \in Int /\ Store!MAXFILE \in Int
                BY <2>3, PlacesAre
            <4>2. ASSUME NEW p \in Writers, Store!MAXFILE < job[p].k PROVE y < job[p].k
                <5>1. job[p].k \in Int
                    BY DEF DiskTypes
                <5> QED
                    BY <4>1, <4>2, <5>1
            <4> QED
                BY <1>2, <4>2 DEF Gone
        <3>2. Has(j, Store!MAXFILE) = inode[j].addrs[NDIRECT + 1]
            BY <3>1, HasIs, PlacesAre, BlockAtIs
        <3> QED
            BY <2>1, <2>3, <3>2, BlockAtIs
    <2> QED
        BY <2>2, <2>3
<1> QED
    BY <1>1, <1>2

\* The step, told by the places it fills.
LEMMA PutsStores ==
    ASSUME Formatted, DiskTypes, UsedOnce, NEW i, NEW bn, NEW b1, NEW b2, NEW off, NEW end, NEW x,
           Puts(i, bn, b1, b2, off, end, x)
    PROVE  \E b, ind, taken :
             /\ Stored(i, bn, b, ind, taken, off, end, x) /\ b \in Nat
             /\ b = Store!Bmap(inode[i], bn, b1, b2).block
             /\ taken = Store!Bmap(inode[i], bn, b1, b2).new
             /\ bn >= NDIRECT => Store!Bmap(inode[i], bn, b1, b2).addrs[NDIRECT + 1] = ind
<1> DEFINE MF == Store!MAXFILE
           a == inode[i]
           needInd == bn >= NDIRECT /\ Has(i, MF) = 0
           needData == Has(i, bn) = 0
           ind == IF needInd THEN b1 ELSE Has(i, MF)
           b == IF ~needData THEN Has(i, bn) ELSE IF needInd THEN b2 ELSE b1
           d1 == IF needInd THEN [disk EXCEPT ![ind] = Store!Zeroes] ELSE disk
           d2 == IF needData THEN [d1 EXCEPT ![b] = Store!Zeroes] ELSE d1
           d3 == IF needData /\ bn >= NDIRECT
                 THEN [d2 EXCEPT ![ind][bn - NDIRECT + 1] = b] ELSE d2
           taken == (IF needInd THEN {ind} ELSE {}) \cup (IF needData THEN {b} ELSE {})
           m == Store!Bmap(a, bn, b1, b2)
<1>i. i \in Store!Inum /\ bn \in DataPlace /\ ~Truncating(i) /\ x \in Nat
    BY DEF Puts
<1>p. /\ MF \in Nat /\ NDIRECT \in Nat /\ NDIRECT < MF /\ MF \in Store!Place
      /\ bn \in Store!Place /\ bn \in Nat /\ bn < MF /\ bn # MF
    BY <1>i, PlacesAre
<1>n. /\ Has(i, bn) = Store!Lookup(disk, a, bn)
      /\ Has(i, MF) = Store!Indirect(a)
      /\ needInd => needData
      /\ Store!Needed(a, bn) = (IF needInd THEN 1 ELSE 0) + (IF needData THEN 1 ELSE 0)
    BY <1>i, NeededIs
<1>m. /\ m.new = taken /\ m.block = b /\ m.disk = d3
      /\ m.addrs = IF bn < NDIRECT THEN [a.addrs EXCEPT ![bn + 1] = b]
                                   ELSE [a.addrs EXCEPT ![NDIRECT + 1] = ind]
    BY <1>n, Zenon DEF Store!Bmap, Store!Balloc, Store!NoBlock
<1> HIDE DEF m
<1>1. /\ needInd => b1 \in Store!Block \ Used
      /\ needData => b \in Store!Block \ Used
      /\ needInd => b # ind
    BY <1>n DEF Puts
<1>2. /\ 0..(nmeta - 1) \subseteq Used /\ Used \subseteq Store!Block
      /\ \A j \in Store!Inum, y \in Store!Place :
           Has(j, y) # 0 => Has(j, y) \in Used /\ Has(j, y) >= nmeta
      /\ \A j \in Store!Inum, y \in Store!Place, k \in Store!Inum, z \in Store!Place :
           Has(j, y) # 0 /\ Has(j, y) = Has(k, z) => j = k /\ y = z
    BY DEF UsedOnce
<1>3. b \in Store!Block /\ (bn >= NDIRECT => ind \in Store!Block /\ ind # b)
    <2>1. ~needData => b \in Used
        BY <1>i, <1>p, <1>2
    <2>2. ASSUME bn >= NDIRECT, ~needInd PROVE ind \in Used /\ ind # b
        <3>1. ind = Has(i, MF) /\ ind # 0
            BY <2>2
        <3>2. ind \in Used
            BY <1>i, <1>p, <1>2, <3>1
        <3>3. ~needData => Has(i, bn) # Has(i, MF)
            BY <1>i, <1>p, <1>2
        <3> QED
            BY <1>1, <2>2, <3>1, <3>2, <3>3
    <2> QED
        BY <1>1, <1>2, <2>1, <2>2
<1>4. taken \subseteq Store!Block \ Used
    BY <1>1
<1>5. Store!Zeroes \in [1..BSIZE -> Nat] /\ \A u \in 1..BSIZE : Store!Zeroes[u] = 0
    BY DEF Store!Zeroes
<1>d. disk \in [Store!Block -> [1..BSIZE -> Nat]]
    BY DEF DiskTypes
<1>6. d1 \in [Store!Block -> [1..BSIZE -> Nat]] /\ d2 \in [Store!Block -> [1..BSIZE -> Nat]]
    BY <1>5, <1>d
<1>b. b \in Nat
    BY <1>3 DEF Store!Block
<1>e. /\ needInd <=> bn >= NDIRECT /\ Has(i, MF) = 0
      /\ needData <=> Has(i, bn) = 0
      /\ ~needInd => ind = Has(i, MF)
      /\ ~needData => b = Has(i, bn)
      /\ needInd => needData
    BY <1>n
<1>f. /\ d1 = IF needInd THEN [disk EXCEPT ![ind] = Store!Zeroes] ELSE disk
      /\ d2 = IF needData THEN [d1 EXCEPT ![b] = Store!Zeroes] ELSE d1
      /\ d3 = IF needData /\ bn >= NDIRECT THEN [d2 EXCEPT ![ind][bn - NDIRECT + 1] = b] ELSE d2
      /\ taken = (IF needInd THEN {ind} ELSE {}) \cup (IF needData THEN {b} ELSE {})
    OBVIOUS
<1> HIDE DEF needInd, needData, b, ind, d1, d2, d3, taken
<1>7. /\ d3 \in [Store!Block -> [1..BSIZE -> Nat]]
      /\ \A c \in Store!Block : c # b /\ (bn < NDIRECT \/ c # ind) => d3[c] = disk[c]
      /\ \A u \in 1..BSIZE : d3[b][u] = IF needData THEN 0 ELSE disk[b][u]
      /\ bn >= NDIRECT => \A u \in 1..BSIZE :
           d3[ind][u] = IF needData /\ u = bn - NDIRECT + 1 THEN b
                        ELSE IF needInd THEN 0 ELSE disk[ind][u]
    <2>0. \A c \in Store!Block : d1[c] = IF needInd /\ c = ind THEN Store!Zeroes ELSE disk[c]
        BY <1>d, <1>f
    <2>a. \A c \in Store!Block : d2[c] = IF needData /\ c = b THEN Store!Zeroes ELSE d1[c]
        BY <1>6, <1>f
    <2>1. /\ \A c \in Store!Block : c # b /\ c # ind => d2[c] = disk[c]
          /\ bn < NDIRECT => \A c \in Store!Block : c # b => d2[c] = disk[c]
          /\ d2[b] = IF needData THEN Store!Zeroes ELSE disk[b]
          /\ bn >= NDIRECT => d2[ind] = IF needInd THEN Store!Zeroes ELSE disk[ind]
        BY <1>3, <1>e, <1>p, <2>0, <2>a
    <2>2. CASE needData /\ bn >= NDIRECT
        <3>1. d3 = [d2 EXCEPT ![ind] = [d2[ind] EXCEPT ![bn - NDIRECT + 1] = b]]
            BY <1>f, <2>2
        <3>2. ind \in Store!Block /\ b # ind /\ b \in Store!Block
            BY <1>3, <2>2
        <3>3. [d2[ind] EXCEPT ![bn - NDIRECT + 1] = b] \in [1..BSIZE -> Nat]
            BY <1>6, <1>b, <3>2
        <3>4. /\ d3 \in [Store!Block -> [1..BSIZE -> Nat]]
              /\ d3[ind] = [d2[ind] EXCEPT ![bn - NDIRECT + 1] = b]
              /\ \A c \in Store!Block : c # ind => d3[c] = d2[c]
            BY <1>6, <3>1, <3>2, <3>3
        <3>5. d2[ind] \in [1..BSIZE -> Nat]
            BY <1>6, <3>2
        <3>6. \A u \in 1..BSIZE :
                d3[ind][u] = IF u = bn - NDIRECT + 1 THEN b ELSE d2[ind][u]
            <4>1. PICK f, w : f = d2[ind] /\ w = bn - NDIRECT + 1
                OBVIOUS
            <4>2. f \in [1..BSIZE -> Nat] /\ d3[ind] = [f EXCEPT ![w] = b]
                BY <3>4, <3>5, <4>1
            <4>3. \A u \in 1..BSIZE : d3[ind][u] = IF u = w THEN b ELSE f[u]
                BY <4>2
            <4> QED
                BY <4>1, <4>3
        <3>7. \A c \in Store!Block : c # b /\ c # ind => d3[c] = disk[c]
            BY <2>1, <3>4
        <3>8. d3[b] = d2[b]
            BY <3>2, <3>4
        <3>9. \A u \in 1..BSIZE : d3[b][u] = 0
            BY <1>5, <2>1, <2>2, <3>8
        <3>10. ASSUME NEW u \in 1..BSIZE
               PROVE  d3[ind][u] = IF u = bn - NDIRECT + 1 THEN b
                                   ELSE IF needInd THEN 0 ELSE disk[ind][u]
            <4>1. d2[ind][u] = IF needInd THEN 0 ELSE disk[ind][u]
                BY <1>5, <2>1, <2>2
            <4> QED
                BY <3>6, <4>1
        <3> QED
            BY <1>p, <2>2, <3>4, <3>7, <3>9, <3>10
    <2>3. CASE ~(needData /\ bn >= NDIRECT)
        <3>1. d3 = d2
            BY <1>f, <2>3
        <3>2. bn >= NDIRECT => ~needData /\ ~needInd
            BY <1>e, <2>3
        <3> QED
            BY <1>5, <1>6, <2>1, <3>1, <3>2, <1>p, <1>3
    <2> QED
        BY <2>2, <2>3
<1>8. disk' = [d3 EXCEPT ![b] = Store!InBlock(d3[b], bn, off, end, x)]
    <2>1. disk' = [m.disk EXCEPT ![m.block] = Store!InBlock(m.disk[m.block], bn, off, end, x)]
        BY DEF Puts, m
    <2> QED
        BY <1>m, <2>1
<1>9. /\ disk' \in [Store!Block -> [1..BSIZE -> Nat]]
      /\ \A c \in Store!Block : c # b => disk'[c] = d3[c]
      /\ \A u \in 1..BSIZE : disk'[b][u] = IF Start(bn) + u \in (off + 1)..end THEN x ELSE d3[b][u]
    <2> DEFINE new == Store!InBlock(d3[b], bn, off, end, x)
    <2>1. d3[b] \in [1..BSIZE -> Nat]
        BY <1>3, <1>7
    <2>2. /\ new \in [1..BSIZE -> Nat]
          /\ \A u \in 1..BSIZE : new[u] = IF Start(bn) + u \in (off + 1)..end THEN x ELSE d3[b][u]
        BY <1>i, <2>1 DEF Store!InBlock, Start
    <2> HIDE DEF new
    <2>3. disk' = [d3 EXCEPT ![b] = new]
        BY <1>8 DEF new
    <2> QED
        BY <1>3, <1>7, <2>2, <2>3
<1>10. \A c \in Store!Block : c # b /\ (bn < NDIRECT \/ c # ind) => disk'[c] = disk[c]
    BY <1>7, <1>9
<1>11. inode'[i].addrs = IF bn < NDIRECT THEN [a.addrs EXCEPT ![bn + 1] = b]
                                         ELSE [a.addrs EXCEPT ![NDIRECT + 1] = ind]
    <2>1. inode'[i].addrs = m.addrs
        BY DEF Puts, m
    <2> QED
        BY <1>m, <2>1
<1>12. a.addrs \in [1..(NDIRECT + 1) -> Nat]
    BY <1>i DEF DiskTypes
<1>13. inode'[i].addrs \in [1..(NDIRECT + 1) -> Nat]
    <2>1. bn >= NDIRECT => ind \in Nat
        BY <1>3 DEF Store!Block
    <2>2. CASE bn < NDIRECT
        BY <1>11, <1>12, <1>b, <2>2
    <2>3. CASE ~(bn < NDIRECT)
        BY <1>11, <1>12, <1>p, <2>1, <2>3
    <2> QED
        BY <2>2, <2>3
<1>14. ASSUME NEW j \in Store!Inum, NEW y \in Store!Place, Has(j, y) # 0, j # i \/ y # bn
       PROVE  /\ Has(j, y) # b
              /\ j # i \/ y # MF => bn < NDIRECT \/ Has(j, y) # ind
    <2>1. Has(j, y) \in Used
        BY <1>2, <1>14
    <2>2. needData => b \notin Used
        BY <1>4, <1>f
    <2>3. ~needData => b # Has(j, y)
        BY <1>i, <1>p, <1>2, <1>14, <1>e
    <2>4. needInd => ind \notin Used
        BY <1>4, <1>f
    <2>5. ~needInd /\ (j # i \/ y # MF) => ind # Has(j, y)
        BY <1>i, <1>p, <1>2, <1>14, <1>e
    <2> QED
        BY <2>1, <2>2, <2>3, <2>4, <2>5
<1>15. ASSUME NEW j \in Store!Inum, NEW y \in DataPlace, Has(j, y) # 0, j # i \/ y # bn
       PROVE  disk'[Has(j, y)] = disk[Has(j, y)]
    <2>1. y \in Store!Place /\ y # MF
        BY <1>15, PlacesAre
    <2>2. Has(j, y) \in Store!Block
        BY <1>2, <1>15, <2>1
    <2> QED
        BY <1>10, <1>14, <1>15, <2>1, <2>2
<1>16. ASSUME NEW j \in Store!Inum \ {i}, NEW y \in Store!Place PROVE Has(j, y)' = Has(j, y)
    <2>1. Has(j, MF) # 0 => disk'[Has(j, MF)] = disk[Has(j, MF)]
        BY <1>2, <1>10, <1>14, <1>p
    <2>2. inode'[j] = inode[j] /\ \A z \in Store!Place : Gone(j, z)' <=> Gone(j, z)
        BY DEF Puts
    <2> QED
        BY <2>1, <2>2, OthersKeepTheirs
<1>17. ASSUME NEW y \in Store!Place
       PROVE  Has(i, y)' = IF y = bn THEN b
                           ELSE IF y = MF /\ bn >= NDIRECT THEN ind ELSE Has(i, y)
    <2>1. ~Gone(i, y) /\ ~Gone(i, y)'
        BY <1>i, HasIs DEF Puts
    <2>2. /\ Has(i, y)' = Store!BlockAt(disk', inode'[i], y)
          /\ Has(i, y) = Store!BlockAt(disk, a, y)
        BY <1>i, <2>1, HasIs, HasBecomes
    <2> DEFINE A == inode'[i].addrs
    <2>3. /\ Has(i, y)' = IF y = MF THEN A[NDIRECT + 1]
                          ELSE IF y < NDIRECT THEN A[y + 1]
                          ELSE IF A[NDIRECT + 1] = 0 THEN 0
                          ELSE disk'[A[NDIRECT + 1]][y - NDIRECT + 1]
          /\ Has(i, y) = IF y = MF THEN a.addrs[NDIRECT + 1]
                         ELSE IF y < NDIRECT THEN a.addrs[y + 1]
                         ELSE IF a.addrs[NDIRECT + 1] = 0 THEN 0
                         ELSE disk[a.addrs[NDIRECT + 1]][y - NDIRECT + 1]
        BY <2>2, BlockAtIs
    <2>4. Has(i, MF) = a.addrs[NDIRECT + 1]
        BY <1>n DEF Store!Indirect
    <2>5. y \in Nat /\ (y = MF \/ y < MF)
        BY <1>p DEF Store!Place
    <2>6. CASE bn < NDIRECT
        <3>0. \A z \in 1..(NDIRECT + 1) : A[z] = IF z = bn + 1 THEN b ELSE a.addrs[z]
            <4>1. PICK w, f : w = bn + 1 /\ f = a.addrs
                OBVIOUS
            <4>2. A = [f EXCEPT ![w] = b] /\ f \in [1..(NDIRECT + 1) -> Nat]
                BY <1>11, <1>12, <2>6, <4>1
            <4>3. \A z \in 1..(NDIRECT + 1) : A[z] = IF z = w THEN b ELSE f[z]
                BY <4>2
            <4> QED
                BY <4>1, <4>3
        <3>1. A[NDIRECT + 1] = a.addrs[NDIRECT + 1]
            <4>1. NDIRECT + 1 # bn + 1 /\ NDIRECT + 1 \in 1..(NDIRECT + 1)
                BY <1>p, <2>6
            <4> QED
                BY <3>0, <4>1
        <3>2. y < NDIRECT => A[y + 1] = IF y = bn THEN b ELSE a.addrs[y + 1]
            <4>1. y < NDIRECT => y + 1 \in 1..(NDIRECT + 1)
                BY <1>p, <2>5
            <4>2. y + 1 = bn + 1 <=> y = bn
                BY <1>p, <2>5
            <4> QED
                BY <3>0, <4>1, <4>2
        <3>3. Has(i, MF) # 0 => disk'[Has(i, MF)] = disk[Has(i, MF)]
            BY <1>i, <1>p, <1>2, <1>10, <1>14, <2>6
        <3> HIDE DEF A
        <3> QED
            BY <1>p, <2>3, <2>4, <2>5, <2>6, <3>1, <3>2, <3>3
    <2>7. CASE ~(bn < NDIRECT)
        <3>0. \A z \in 1..(NDIRECT + 1) : A[z] = IF z = NDIRECT + 1 THEN ind ELSE a.addrs[z]
            <4>1. PICK w, f : w = NDIRECT + 1 /\ f = a.addrs
                OBVIOUS
            <4>2. A = [f EXCEPT ![w] = ind] /\ f \in [1..(NDIRECT + 1) -> Nat]
                BY <1>11, <1>12, <2>7, <4>1
            <4>3. \A z \in 1..(NDIRECT + 1) : A[z] = IF z = w THEN ind ELSE f[z]
                BY <4>2
            <4> QED
                BY <4>1, <4>3
        <3>1. A[NDIRECT + 1] = ind
            <4>1. NDIRECT + 1 \in 1..(NDIRECT + 1)
                BY <1>p
            <4> QED
                BY <3>0, <4>1
        <3>2. y < NDIRECT => A[y + 1] = a.addrs[y + 1]
            <4>1. y < NDIRECT => y + 1 \in 1..(NDIRECT + 1) /\ y + 1 # NDIRECT + 1
                BY <1>p, <2>5
            <4> QED
                BY <3>0, <4>1
        <3> HIDE DEF A
        <3>3. bn >= NDIRECT /\ bn \in Int
            BY <1>p, <2>7
        <3>4. ind \in Store!Block /\ ind # b /\ ind # 0
            <4>1. needInd => ind \notin Used
                BY <1>4, <1>f
            <4>2. 0 \in Used
                BY <1>2 DEF Formatted
            <4> QED
                BY <1>3, <1>e, <3>3, <4>1, <4>2
        <3>5. CASE y = MF \/ y < NDIRECT
            BY <1>p, <2>3, <2>5, <3>1, <3>2, <3>3, <3>5
        <3>6. CASE y # MF /\ ~(y < NDIRECT)
            <4>1. /\ y - NDIRECT + 1 \in 1..BSIZE
                  /\ (y - NDIRECT + 1 = bn - NDIRECT + 1) <=> (y = bn)
                BY <1>p, <2>5, <3>6 DEF Formatted, Store!MAXFILE, Store!NINDIRECT
            <4>2. Has(i, y)' = d3[ind][y - NDIRECT + 1]
                BY <1>9, <2>3, <3>1, <3>4, <3>6
            <4>3. d3[ind][y - NDIRECT + 1] =
                    IF needData /\ y = bn THEN b
                    ELSE IF needInd THEN 0 ELSE disk[ind][y - NDIRECT + 1]
                <5>1. PICK w : w = y - NDIRECT + 1
                    OBVIOUS
                <5>2. /\ w \in 1..BSIZE /\ (w = bn - NDIRECT + 1 <=> y = bn)
                      /\ d3[ind][w] = IF needData /\ w = bn - NDIRECT + 1 THEN b
                                      ELSE IF needInd THEN 0 ELSE disk[ind][w]
                    BY <1>7, <3>3, <4>1, <5>1
                <5> QED
                    BY <5>1, <5>2
            <4>4. Has(i, y) = IF Has(i, MF) = 0 THEN 0 ELSE disk[Has(i, MF)][y - NDIRECT + 1]
                BY <2>3, <2>4, <3>6
            <4> QED
                BY <1>e, <3>3, <3>6, <4>2, <4>3, <4>4
        <3> QED
            BY <3>5, <3>6
    <2> QED
        BY <2>6, <2>7
<1>18. /\ Has(i, bn) = 0 => b \in taken
       /\ Has(i, bn) # 0 => Has(i, bn) = b /\ b # 0 /\ taken = {}
    BY <1>e, <1>f
<1>19. bn < NDIRECT => taken \subseteq {b}
    BY <1>e, <1>f, <1>p
<1>20. ASSUME bn >= NDIRECT
       PROVE  \/ Has(i, MF) = 0 /\ taken = {ind, b} /\ ind # b
              \/ Has(i, MF) = ind /\ ind # 0 /\ taken \subseteq {b}
    BY <1>3, <1>20, <1>e, <1>f
<1>21. ASSUME NEW c \in Store!Block, c \notin Used, c \notin taken PROVE disk'[c] = disk[c]
    <2>1. c # b
        BY <1>i, <1>p, <1>2, <1>18, <1>21
    <2>2. bn < NDIRECT \/ c # ind
        BY <1>i, <1>p, <1>2, <1>20, <1>21
    <2> QED
        BY <1>10, <2>1, <2>2
<1>22. Stored(i, bn, b, ind, taken, off, end, x)
    <2>1. Used' = Used \cup taken
        BY <1>m DEF Puts, m
    <2>2. \A u \in 1..BSIZE :
            disk'[b][u] = IF Start(bn) + u \in (off + 1)..end THEN x
                          ELSE IF Has(i, bn) = 0 THEN 0 ELSE disk[b][u]
        BY <1>7, <1>9, <1>e
    <2>3. ASSUME NEW j \in Store!Inum, NEW y \in Store!Place
          PROVE  Has(j, y)' = IF j = i /\ y = bn THEN b
                              ELSE IF j = i /\ y = MF /\ bn >= NDIRECT THEN ind ELSE Has(j, y)
        BY <1>16, <1>17
    <2> QED
        BY <1>4, <1>9, <1>13, <1>15, <1>18, <1>19, <1>20, <1>21, <2>1, <2>2, <2>3 DEF Stored
<1>23. b \in Nat
    BY <1>3 DEF Store!Block
<1>24. bn >= NDIRECT => m.addrs[NDIRECT + 1] = ind
    <2>1. a.addrs \in [1..(NDIRECT + 1) -> Nat]
        BY <1>i DEF DiskTypes
    <2> HIDE DEF a, ind, b
    <2> QED
        BY <1>m, <1>p, <2>1, PlacesAre
<1>25. m.block = b /\ m.new = taken
    BY <1>m
<1> QED
    BY <1>22, <1>23, <1>24, <1>25 DEF m

\* Blocks stay in one place each, and no others are in use.
LEMMA OnceStored ==
    ASSUME Formatted, UsedOnce, UsedAll, NEW i \in Store!Inum, NEW bn \in DataPlace,
           NEW b, NEW ind, NEW taken, NEW off, NEW end, NEW x,
           Stored(i, bn, b, ind, taken, off, end, x)
    PROVE  UsedOnce' /\ UsedAll'
<1> DEFINE MF == Store!MAXFILE
<1>p. /\ MF \in Store!Place /\ bn \in Store!Place /\ bn # MF
    BY PlacesAre
<1>0. NDIRECT \in Int /\ bn \in Int
    BY PlacesAre
<1>1. /\ taken \subseteq Store!Block \ Used /\ Used' = Used \cup taken
      /\ \/ Has(i, bn) = 0 /\ b \in taken
         \/ Has(i, bn) = b /\ b # 0 /\ taken = {}
      /\ bn < NDIRECT => taken \subseteq {b}
      /\ bn >= NDIRECT => \/ Has(i, MF) = 0 /\ taken = {ind, b} /\ ind # b
                          \/ Has(i, MF) = ind /\ ind # 0 /\ taken \subseteq {b}
    BY DEF Stored
<1>2. \A j \in Store!Inum, y \in Store!Place :
        Has(j, y)' = IF j = i /\ y = bn THEN b
                     ELSE IF j = i /\ y = MF /\ bn >= NDIRECT THEN ind
                     ELSE Has(j, y)
    BY DEF Stored
<1>3. /\ 0..(nmeta - 1) \subseteq Used /\ Used \subseteq Store!Block
      /\ \A j \in Store!Inum, y \in Store!Place :
           Has(j, y) # 0 => Has(j, y) \in Used /\ Has(j, y) >= nmeta
      /\ \A j \in Store!Inum, y \in Store!Place, k \in Store!Inum, z \in Store!Place :
           Has(j, y) # 0 /\ Has(j, y) = Has(k, z) => j = k /\ y = z
    BY DEF UsedOnce
<1>4. \A c \in taken : c >= nmeta /\ c # 0
    <2> SUFFICES ASSUME NEW c \in taken PROVE c >= nmeta /\ c # 0
        OBVIOUS
    <2>1. c \in Store!Block /\ c \notin 0..(nmeta - 1)
        BY <1>1, <1>3
    <2> QED
        BY <2>1 DEF Store!Block, Formatted
\* Every place has what it had, or what was taken.
<1>5. ASSUME NEW j \in Store!Inum, NEW y \in Store!Place
      PROVE  \/ Has(j, y)' = Has(j, y)
             \/ /\ Has(j, y) = 0 /\ Has(j, y)' \in taken /\ j = i
                /\ \/ y = bn /\ Has(j, y)' = b
                   \/ y = MF /\ Has(j, y)' = ind /\ ind # b
    <2>1. CASE j = i /\ y = bn
        BY <1>1, <1>2, <2>1
    <2>2. CASE j = i /\ y = MF /\ bn >= NDIRECT
        BY <1>1, <1>2, <1>p, <2>2
    <2>3. CASE ~(j = i /\ y = bn) /\ ~(j = i /\ y = MF /\ bn >= NDIRECT)
        BY <1>2, <2>3
    <2> QED
        BY <2>1, <2>2, <2>3
<1>6. ASSUME NEW j \in Store!Inum, NEW y \in Store!Place, Has(j, y)' # 0
      PROVE  Has(j, y)' \in Used' /\ Has(j, y)' >= nmeta
    BY <1>1, <1>3, <1>4, <1>5, <1>6
<1>7. ASSUME NEW j \in Store!Inum, NEW y \in Store!Place,
             NEW k \in Store!Inum, NEW z \in Store!Place,
             Has(j, y)' # 0, Has(j, y)' = Has(k, z)'
      PROVE  j = k /\ y = z
    <2>1. CASE Has(j, y)' = Has(j, y) /\ Has(k, z)' = Has(k, z)
        BY <1>3, <1>7, <2>1
    <2>2. CASE Has(j, y)' = Has(j, y) /\ Has(k, z)' \in taken
        BY <1>1, <1>3, <1>7, <2>2
    <2>3. CASE Has(j, y)' \in taken /\ Has(k, z)' = Has(k, z)
        BY <1>1, <1>3, <1>7, <2>3
    <2>4. CASE Has(j, y)' # Has(j, y) /\ Has(k, z)' # Has(k, z)
        BY <1>5, <1>7, <2>4
    <2> QED
        BY <1>5, <2>1, <2>2, <2>3, <2>4
<1>8. UsedOnce'
    <2>1. Used' \subseteq Store!Block /\ 0..(nmeta - 1) \subseteq Used'
        BY <1>1, <1>3
    <2>2. UNCHANGED <<Store!Block, Store!Inum, Store!Place, nmeta>>
        BY DEF Store!Block, Store!Inum, Store!Place, Store!MAXFILE, Store!NINDIRECT
    <2> QED
        BY <1>6, <1>7, <2>1, <2>2 DEF UsedOnce
<1>9. UsedAll'
    <2> SUFFICES ASSUME NEW c \in Used', c >= nmeta
                 PROVE  \E j \in Store!Inum, y \in Store!Place : Has(j, y)' = c
        BY DEF UsedAll
    <2>1. CASE c \in taken
        <3>1. c = b \/ (bn >= NDIRECT /\ c = ind)
            BY <1>0, <1>1, <2>1
        <3> QED
            BY <1>2, <1>p, <3>1
    <2>2. CASE c \notin taken
        <3>1. PICK j \in Store!Inum, y \in Store!Place : Has(j, y) = c
            BY <1>1, <2>2 DEF UsedAll
        <3>2. c # 0
            BY DEF Formatted
        <3>3. Has(j, y)' = c
            BY <1>5, <3>1, <3>2
        <3> QED
            BY <3>3
    <2> QED
        BY <2>1, <2>2
<1> QED
    BY <1>8, <1>9

\* The larger and the smaller of two numbers.
LEMMA MaxIs ==
    ASSUME NEW k \in Nat, NEW l \in Nat
    PROVE  Store!Max({k, l}) = IF k >= l THEN k ELSE l
<1> DEFINE z == IF k >= l THEN k ELSE l
<1>1. z \in {k, l} /\ \A y \in {k, l} : z >= y
    OBVIOUS
<1>2. \A w \in {k, l} : (\A y \in {k, l} : w >= y) => w = z
    OBVIOUS
<1> HIDE DEF z
<1>3. Store!Max({k, l}) = z
    BY <1>1, <1>2 DEF Store!Max
<1> QED
    BY <1>3 DEF z

\* And the smaller.
LEMMA MinIs ==
    ASSUME NEW k \in Nat, NEW l \in Nat
    PROVE  Store!Min({k, l}) = IF k <= l THEN k ELSE l
<1> DEFINE z == IF k <= l THEN k ELSE l
<1>1. z \in {k, l} /\ \A y \in {k, l} : z <= y
    OBVIOUS
<1>2. \A w \in {k, l} : (\A y \in {k, l} : w <= y) => w = z
    OBVIOUS
<1> HIDE DEF z
<1>3. Store!Min({k, l}) = z
    BY <1>1, <1>2 DEF Store!Min
<1> QED
    BY <1>3 DEF z

\* What a file holds after a write into it, or at its end.
LEMMA InFileIs ==
    ASSUME NEW c \in Seq(Nat), NEW off \in Nat, NEW end \in Nat, off < end, off <= Len(c),
           NEW x \in Nat
    PROVE  LET d == Store!InFile(c, off, end, x) IN
           /\ d \in Seq(Nat) /\ Len(d) = IF Len(c) >= end THEN Len(c) ELSE end
           /\ \A k \in Nat \ {0} : Unit(d, k) = IF k \in (off + 1)..end THEN x ELSE Unit(c, k)
<1>1. PICK len : len = Store!Max({Len(c), end})
    OBVIOUS
<1>2. len = (IF Len(c) >= end THEN Len(c) ELSE end) /\ len \in Nat
    BY <1>1, MaxIs
<1> DEFINE d == [k \in 1..len |-> IF k \in (off + 1)..end THEN x ELSE c[k]]
<1>3. Store!InFile(c, off, end, x) = d
    BY <1>1 DEF Store!InFile
<1>4. \A k \in 1..len : d[k] = IF k \in (off + 1)..end THEN x ELSE c[k]
    OBVIOUS
<1>5. \A k \in 1..len : d[k] \in Nat
    <2> SUFFICES ASSUME NEW k \in 1..len PROVE d[k] \in Nat
        OBVIOUS
    <2>1. k \notin (off + 1)..end => k \in 1..Len(c)
        BY <1>2
    <2> QED
        BY <2>1
<1>6. d \in Seq(Nat) /\ Len(d) = len
    <2>1. d \in [1..len -> Nat]
        BY <1>5
    <2> HIDE DEF d
    <2> QED
        BY <1>2, <2>1
<1> HIDE DEF d
<1>7. ASSUME NEW k \in Nat \ {0}
      PROVE  Unit(d, k) = IF k \in (off + 1)..end THEN x ELSE Unit(c, k)
    <2>1. CASE k <= len
        <3>1. k \in 1..len
            BY <1>2, <2>1
        <3>2. Unit(d, k) = IF k \in (off + 1)..end THEN x ELSE c[k]
            BY <1>4, <1>6, <2>1, <3>1 DEF Unit
        <3>3. k \notin (off + 1)..end => k <= Len(c)
            BY <1>2, <2>1
        <3> QED
            BY <3>2, <3>3 DEF Unit
    <2>2. CASE ~(k <= len)
        <3>1. ~(k <= Len(c)) /\ k \notin (off + 1)..end
            BY <1>2, <2>2
        <3> QED
            BY <1>6, <2>2, <3>1 DEF Unit
    <2> QED
        BY <2>1, <2>2
<1> QED
    BY <1>2, <1>3, <1>6, <1>7

\* Files have what was put into them.
LEMMA FilledStored ==
    ASSUME Formatted, DiskTypes, UsedOnce, AllFilled,
           NEW i \in Store!Inum, NEW off \in Nat, NEW end \in Nat, NEW x \in Nat,
           NEW bn \in DataPlace, NEW b, NEW ind, NEW taken,
           Stored(i, bn, b, ind, taken, off, end, x), ~Truncating(i),
           Start(bn) <= off, off < end, end <= Start(bn) + BSIZE, off <= Len(contents[i]),
           contents' = [contents EXCEPT ![i] = Store!InFile(@, off, end, x)],
           \A j \in Store!Inum : Truncating(j)' <=> Truncating(j)
    PROVE  AllFilled'
<1> DEFINE MF == Store!MAXFILE
           c == contents[i]
           d == contents'[i]
<1>p. /\ MF \in Nat /\ NDIRECT \in Nat /\ NDIRECT < MF /\ MF \in Store!Place /\ BSIZE \in Nat
      /\ bn \in Store!Place /\ bn \in Nat /\ bn < MF /\ bn # MF
      /\ \A y \in DataPlace : y \in Store!Place /\ y \in Nat /\ y # MF
    BY PlacesAre DEF Formatted
<1>c. c \in Seq(Nat) /\ d = Store!InFile(c, off, end, x) /\ DOMAIN contents' = Store!Inum
    BY DEF DiskTypes
<1>d. /\ d \in Seq(Nat) /\ Len(d) = IF Len(c) >= end THEN Len(c) ELSE end
      /\ \A k \in Nat \ {0} : Unit(d, k) = IF k \in (off + 1)..end THEN x ELSE Unit(c, k)
    BY <1>c, InFileIs
<1>l. Len(c) \in Nat /\ off <= Len(c)
    BY <1>c
<1>s. /\ \A y \in DataPlace : Start(y) \in Nat
      /\ Start(bn) \in Nat /\ Start(NDIRECT) \in Nat /\ Start(MF) \in Nat
    BY <1>p, StartIs
<1>b. \A y \in DataPlace : /\ y < bn => Start(y) + BSIZE <= Start(bn)
                           /\ y > bn => Start(bn) + BSIZE <= Start(y)
    BY <1>p, StartGrows
<1>t. /\ bn < NDIRECT => Start(bn) + BSIZE <= Start(NDIRECT)
      /\ NDIRECT < bn => Start(NDIRECT) <= Start(bn)
      /\ Start(bn) + BSIZE <= Start(MF)
    <2>1. NDIRECT < bn => Start(NDIRECT) + BSIZE <= Start(bn)
        BY <1>p, StartGrows
    <2> QED
        BY <1>p, <1>s, <2>1, StartGrows
<1>f. Filled(i)
    BY DEF AllFilled
<1>0. 0 \in Used
    BY DEF UsedOnce, Formatted
<1>h. \A j \in Store!Inum, y \in Store!Place :
        Has(j, y)' = IF j = i /\ y = bn THEN b
                     ELSE IF j = i /\ y = MF /\ bn >= NDIRECT THEN ind
                     ELSE Has(j, y)
    BY DEF Stored
<1>k. \A j \in Store!Inum, y \in DataPlace :
        Has(j, y) # 0 /\ (j # i \/ y # bn) => disk'[Has(j, y)] = disk[Has(j, y)]
    BY DEF Stored
<1>u. \A u \in 1..BSIZE :
        disk'[b][u] = IF Start(bn) + u \in (off + 1)..end THEN x
                      ELSE IF Has(i, bn) = 0 THEN 0 ELSE disk[b][u]
    BY DEF Stored
<1>1. b # 0 /\ (bn >= NDIRECT => ind # 0)
    BY <1>0 DEF Stored
<1>2. Has(i, bn) # 0 => b = Has(i, bn)
    BY DEF Stored
<1> HIDE DEF c, d
<1>3. ASSUME NEW j \in Store!Inum, j # i, ~Truncating(j) PROVE Filled(j)'
    <2>1. Filled(j) /\ contents'[j] = contents[j]
        BY <1>3 DEF AllFilled, DiskTypes
    <2>2. \A y \in Store!Place : Has(j, y)' = Has(j, y)
        BY <1>3, <1>h
    <2>3. \A y \in DataPlace : Has(j, y) # 0 => disk'[Has(j, y)] = disk[Has(j, y)]
        BY <1>3, <1>k
    <2>4. UNCHANGED <<DataPlace, Store!MAXFILE>> /\ \A y : Start(y)' = Start(y)
        BY DEF DataPlace, Store!MAXFILE, Store!NINDIRECT, Start
    <2> QED
        BY <1>p, <2>1, <2>2, <2>3, <2>4 DEF Filled, Unit
<1>4. ASSUME NEW y \in DataPlace PROVE Has(i, y)' # 0 <=> Start(y) < Len(d)
    <2>1. CASE y = bn
        BY <1>1, <1>d, <1>h, <1>l, <1>p, <1>s, <2>1
    <2>2. CASE y # bn
        <3>1. Has(i, y)' = Has(i, y)
            BY <1>h, <1>p, <2>2
        <3>2. Has(i, y) # 0 <=> Start(y) < Len(c)
            BY <1>f DEF Filled, c
        <3>3. y < bn \/ y > bn
            BY <1>p, <2>2
        <3>4. Start(y) < Len(c) <=> Start(y) < Len(d)
            <4>1. /\ Start(y) \in Nat /\ Start(bn) \in Nat /\ BSIZE \in Nat
                  /\ Start(y) + BSIZE <= Start(bn) \/ Start(bn) + BSIZE <= Start(y)
                BY <1>b, <1>p, <1>s, <3>3
            <4>2. \/ Len(d) = Len(c) /\ Len(c) >= end
                  \/ Len(d) = end /\ Len(c) < end
                BY <1>d, <1>l
            <4>3. Start(bn) <= off /\ off < end /\ end <= Start(bn) + BSIZE
                OBVIOUS
            <4> QED
                BY <1>l, <4>1, <4>2, <4>3
        <3> QED
            BY <3>1, <3>2, <3>4
    <2> QED
        BY <2>1, <2>2
<1>5. ASSUME NEW y \in DataPlace, Has(i, y)' # 0, NEW u \in 1..BSIZE
      PROVE  disk'[Has(i, y)'][u] = Unit(d, Start(y) + u)
    <2>0. Start(y) + u \in Nat \ {0} /\ u \in Nat /\ u >= 1 /\ u <= BSIZE
        BY <1>s, <1>p
    <2>d. Unit(d, Start(y) + u) = IF Start(y) + u \in (off + 1)..end THEN x
                                  ELSE Unit(c, Start(y) + u)
        BY <1>d, <2>0
    <2>1. CASE y = bn
        <3>1. Has(i, y)' = b
            BY <1>h, <1>p, <2>1
        <3>2. ASSUME Has(i, bn) # 0 PROVE disk[b][u] = Unit(c, Start(bn) + u)
            BY <1>2, <1>f, <3>2 DEF Filled, c
        <3>3. ASSUME Has(i, bn) = 0 PROVE Unit(c, Start(bn) + u) = 0
            <4>1. ~(Start(bn) < Len(c))
                BY <1>f, <3>3 DEF Filled, c
            <4>2. ~(Start(bn) + u <= Len(c))
                BY <1>l, <1>s, <2>0, <4>1
            <4> QED
                BY <4>2 DEF Unit
        <3>4. disk'[b][u] = IF Start(bn) + u \in (off + 1)..end THEN x
                            ELSE IF Has(i, bn) = 0 THEN 0 ELSE disk[b][u]
            BY <1>u
        <3> QED
            BY <2>1, <2>d, <3>1, <3>2, <3>3, <3>4
    <2>2. CASE y # bn
        <3>1. Has(i, y)' = Has(i, y)
            BY <1>h, <1>p, <2>2
        <3>2. disk'[Has(i, y)] = disk[Has(i, y)]
            BY <1>5, <1>k, <2>2, <3>1
        <3>3. disk[Has(i, y)][u] = Unit(c, Start(y) + u)
            BY <1>5, <1>f, <3>1 DEF Filled, c
        <3>4. y < bn \/ y > bn
            BY <1>p, <2>2
        <3>5. Start(y) + u \notin (off + 1)..end
            <4>1. /\ Start(y) \in Nat /\ Start(bn) \in Nat /\ BSIZE \in Nat
                  /\ Start(y) + BSIZE <= Start(bn) \/ Start(bn) + BSIZE <= Start(y)
                BY <1>b, <1>p, <1>s, <3>4
            <4>2. Start(bn) <= off /\ off < end /\ end <= Start(bn) + BSIZE
                OBVIOUS
            <4> QED
                BY <2>0, <4>1, <4>2
        <3> QED
            BY <2>d, <3>1, <3>2, <3>3, <3>5
    <2> QED
        BY <2>1, <2>2
<1>6. Has(i, MF)' # 0 <=> Start(NDIRECT) < Len(d)
    <2>1. CASE bn < NDIRECT
        <3>1. Has(i, MF)' = Has(i, MF)
            BY <1>h, <1>p, <2>1
        <3>2. Has(i, MF) # 0 <=> Start(NDIRECT) < Len(c)
            BY <1>f DEF Filled, c
        <3>3. Start(NDIRECT) < Len(c) <=> Start(NDIRECT) < Len(d)
            BY <1>d, <1>l, <1>p, <1>s, <1>t, <2>1
        <3> QED
            BY <3>1, <3>2, <3>3
    <2>2. CASE ~(bn < NDIRECT)
        <3>1. Has(i, MF)' = ind /\ ind # 0
            BY <1>1, <1>h, <1>p, <2>2
        <3>2. NDIRECT < bn \/ NDIRECT = bn
            BY <1>p, <2>2
        <3>3. Start(NDIRECT) <= Start(bn)
            BY <1>s, <1>t, <3>2
        <3> QED
            BY <1>d, <1>l, <1>s, <3>1, <3>3
    <2> QED
        BY <2>1, <2>2
<1>7. Len(d) <= Start(MF)
    <2>1. Len(c) <= Start(MF)
        BY <1>f DEF Filled, c
    <2> QED
        BY <1>d, <1>l, <1>p, <1>s, <1>t, <2>1
<1>8. Filled(i)'
    <2>1. UNCHANGED <<DataPlace, Store!MAXFILE>> /\ \A y : Start(y)' = Start(y)
        BY DEF DataPlace, Store!MAXFILE, Store!NINDIRECT, Start
    <2> QED
        BY <1>4, <1>5, <1>6, <1>7, <2>1 DEF Filled, Unit, d
<1> QED
    BY <1>3, <1>8 DEF AllFilled

-----------------------------------------------------------------------------
(* The processes, and mkfs *)

ImageTypes ==
    /\ image \in [k : Nat, pos : Nat, freeblock : nmeta..FSSIZE] /\ ops \in Nat
    /\ image.k > Len(Programs) => image.pos = 0
    /\ image.k <= Len(Programs) => image.pos <= Len(Store!Source(image.k))

\* A chunk logs the blocks of MaxBlocks + 1 block numbers, those of its positions, and
\* beside them the bitmap and the indirect block.
LogFits(p) ==
    \E f \in Nat :
      /\ Start(f) <= job[p].off /\ job[p].off + job[p].n <= Start(f + Store!MaxBlocks + 1)
      /\ \A c \in logged[p] :
           \/ c = Store!Bitmap
           \/ c # 0 /\ c = Has(job[p].i, Store!MAXFILE)
           \/ c # 0 /\ \E x \in f..(f + Store!MaxBlocks) :
                         x \in DataPlace /\ c = Has(job[p].i, x)

\* Who writes a file is its only writer, and inside it; its size follows later.
WriteOK(p) ==
    /\ \A q \in Writers : job[q].op = "write" /\ job[q].i = job[p].i => q = p
    /\ job[p].off + job[p].n <= Start(Store!MAXFILE)
    /\ job[p].off <= Len(contents[job[p].i])
    /\ Len(contents[job[p].i]) = Store!NewSize(inode[job[p].i].size, job[p].off)
    /\ LogFits(p)

\* Who truncates a file has it alone; the addresses of what it has freed are 0, but in
\* the indirect block.
TruncOK(p) ==
    /\ \A q \in Writers : job[q].i = job[p].i => q = p
    /\ contents[job[p].i] = <<>>
    /\ \A x \in DataPlace : x < job[p].k /\ x < NDIRECT => inode[job[p].i].addrs[x + 1] = 0
    /\ job[p].k > Store!MAXFILE => inode[job[p].i].addrs[NDIRECT + 1] = 0
    /\ logged[p] \subseteq {Store!Bitmap}

JobOK(p) ==
    /\ job[p].op = "write" => WriteOK(p)
    /\ job[p].op = "trunc" => TruncOK(p)
    /\ job[p].op = "wait" => job[p].off <= inode[job[p].i].size
    /\ job[p].op \in {"none", "wait"} => logged[p] = {}
    /\ job[p].op = "none" <=> job[p].i = 0
    /\ job[p].op # "none" => Store!Made /\ ops > 0

JobsOK == \A p \in Writers : JobOK(p)

\* A file nobody is writing has its size.
SizesOK ==
    \A i \in Store!Inum : ~Store!Locked(i) => Len(contents[i]) = inode[i].size

\* What mkfs has copied: of its k-th file, the units before its position.
Copied(k) ==
    IF k < image.k THEN Len(Programs[k])
    ELSE IF k = image.k /\ image.pos > 0 THEN image.pos - 1 ELSE 0

ImageOK ==
    /\ ops = 0 => \A k \in DOMAIN Programs :
         /\ Len(contents[k + 1]) = Copied(k)
         /\ \A u \in 1..Copied(k) : contents[k + 1][u] = Programs[k][u]
    /\ ~Store!Made => Len(contents[Store!ROOTINO]) =
         IF image.k = 0 THEN image.pos ELSE image.k + 1 + (IF image.pos > 0 THEN 1 ELSE 0)

StoreIInv ==
    /\ DiskTypes /\ ImageTypes /\ UsedOnce /\ UsedAll /\ AllFilled
    /\ JobsOK /\ SizesOK /\ ImageOK

-----------------------------------------------------------------------------
(* Steps that leave blocks where they are *)

\* Files that keep their blocks keep them to themselves.
LEMMA OnceKept ==
    ASSUME UsedOnce, UsedAll, Used' = Used,
           \A j \in Store!Inum, y \in Store!Place : Has(j, y)' = Has(j, y)
    PROVE  UsedOnce' /\ UsedAll'
<1>1. UNCHANGED <<Store!Block, Store!Inum, Store!Place, nmeta>>
    BY DEF Store!Block, Store!Inum, Store!Place, Store!MAXFILE, Store!NINDIRECT
<1>2. UsedOnce'
    BY <1>1 DEF UsedOnce
<1>3. UsedAll'
    BY <1>1 DEF UsedAll
<1> QED
    BY <1>2, <1>3

\* And what they hold, when their data blocks are kept.
LEMMA FileKept ==
    ASSUME Formatted, NEW j \in Store!Inum, Filled(j), contents'[j] = contents[j],
           \A y \in Store!Place : Has(j, y)' = Has(j, y),
           \A y \in DataPlace : Has(j, y) # 0 => disk'[Has(j, y)] = disk[Has(j, y)]
    PROVE  Filled(j)'
<1>1. UNCHANGED <<DataPlace, Store!MAXFILE>> /\ \A y : Start(y)' = Start(y)
    BY DEF DataPlace, Store!MAXFILE, Store!NINDIRECT, Start
<1> QED
    BY <1>1, PlacesAre DEF Filled, Unit

\* Files keep their blocks when the disk and their addresses stay.
LEMMA HasKept ==
    ASSUME Formatted, NEW j \in Store!Inum, disk' = disk, inode'[j].addrs = inode[j].addrs,
           \A y \in Store!Place : Gone(j, y)' <=> Gone(j, y)
    PROVE  \A y \in Store!Place : Has(j, y)' = Has(j, y)
<1> SUFFICES ASSUME NEW y \in Store!Place PROVE Has(j, y)' = Has(j, y)
    OBVIOUS
<1>1. Store!BlockAt(disk', inode'[j], y) = Store!BlockAt(disk, inode[j], y)
    BY DEF Store!BlockAt, Store!Lookup, Store!Indirect
<1> QED
    BY <1>1, HasIs, HasBecomes

\* A process that does not truncate takes nothing away.
LEMMA GoneKept ==
    ASSUME DiskTypes, NEW p \in Writers, NEW r, job' = [job EXCEPT ![p] = r],
           job[p].op # "trunc", r.op # "trunc"
    PROVE  /\ \A j \in Store!Inum : Truncating(j)' <=> Truncating(j)
           /\ \A j \in Store!Inum, y \in Store!Place : Gone(j, y)' <=> Gone(j, y)
<1>1. job'[p] = r /\ \A q \in Writers \ {p} : job'[q] = job[q]
    BY DEF DiskTypes
<1> QED
    BY <1>1 DEF Truncating, Gone

\* The other processes, when their files are left alone.
LEMMA OtherJob ==
    ASSUME Formatted, JobsOK, NEW p \in Writers, NEW q \in Writers \ {p},
           \A r \in Writers \ {p} : job'[r] = job[r], logged'[q] = logged[q],
           job[q].op \in {"write", "trunc"} =>
             /\ contents'[job[q].i] = contents[job[q].i] /\ inode'[job[q].i] = inode[job[q].i]
             /\ \A y \in Store!Place : Has(job[q].i, y)' = Has(job[q].i, y),
           job[q].op = "wait" /\ job[q].off <= inode[job[q].i].size =>
             job[q].off <= inode'[job[q].i].size,
           job[q].op = "trunc" => job'[p].i # job[q].i,
           job[q].op = "write" /\ job'[p].op = "write" => job'[p].i # job[q].i,
           job[q].op # "none" /\ ops > 0 => Store!Made' /\ ops' > 0
    PROVE  JobOK(q)'
<1>1. JobOK(q) /\ job'[q] = job[q]
    BY DEF JobsOK
<1>2. ASSUME job[q].op = "write" PROVE WriteOK(q)'
    <2>1. WriteOK(q) /\ contents'[job[q].i] = contents[job[q].i]
          /\ inode'[job[q].i] = inode[job[q].i]
          /\ \A y \in Store!Place : Has(job[q].i, y)' = Has(job[q].i, y)
        BY <1>1, <1>2 DEF JobOK
    <2>2. UNCHANGED <<DataPlace, Store!MAXFILE, Store!MaxBlocks, Store!Bitmap>>
          /\ \A y : Start(y)' = Start(y)
        BY DEF DataPlace, Store!MAXFILE, Store!NINDIRECT, Start, Store!MaxBlocks, Store!Bitmap
    <2>3. LogFits(q)'
        <3>1. LogFits(q)
            BY <2>1 DEF WriteOK
        <3>2. Has(job[q].i, Store!MAXFILE)' = Has(job[q].i, Store!MAXFILE)
              /\ \A y \in DataPlace : Has(job[q].i, y)' = Has(job[q].i, y)
            BY <2>1, <2>2, PlacesAre
        <3> QED
            BY <1>1, <2>2, <3>1, <3>2 DEF LogFits
    <2>4. \A r \in Writers : job'[r].op = "write" /\ job'[r].i = job'[q].i => r = q
        BY <1>1, <1>2, <2>1 DEF WriteOK
    <2>5. /\ job[q].off + job[q].n <= Start(Store!MAXFILE)
          /\ job[q].off <= Len(contents[job[q].i])
          /\ Len(contents[job[q].i]) = Store!NewSize(inode[job[q].i].size, job[q].off)
        BY <2>1 DEF WriteOK
    <2> QED
        BY <1>1, <2>1, <2>2, <2>3, <2>4, <2>5 DEF WriteOK, Store!NewSize
<1>3. ASSUME job[q].op = "trunc" PROVE TruncOK(q)'
    <2>1. TruncOK(q) /\ contents'[job[q].i] = contents[job[q].i]
          /\ inode'[job[q].i] = inode[job[q].i]
        BY <1>1, <1>3 DEF JobOK
    <2>2. UNCHANGED <<DataPlace, Store!MAXFILE, Store!Bitmap>>
        BY DEF DataPlace, Store!MAXFILE, Store!NINDIRECT, Store!Bitmap
    <2>3. \A r \in Writers : job'[r].i = job'[q].i => r = q
        BY <1>1, <1>3, <2>1 DEF TruncOK
    <2> QED
        BY <1>1, <2>1, <2>2, <2>3 DEF TruncOK
<1>4. job[q].op # "none" => Store!Made' /\ ops' > 0
    BY <1>1 DEF JobOK
<1> QED
    BY <1>1, <1>2, <1>3, <1>4 DEF JobOK

-----------------------------------------------------------------------------
(* write(), step by step *)

\* What the invariant says of a process.
LEMMA JobIs ==
    ASSUME StoreIInv, NEW p \in Writers
    PROVE  /\ JobOK(p) /\ job[p].op \in {"none", "wait", "write", "trunc"}
           /\ job[p].i \in Store!Inum \cup {0} /\ (job[p].op # "none" => job[p].i \in Store!Inum)
           /\ job[p].off \in Nat /\ job[p].n \in Nat /\ job[p].left \in Nat /\ job[p].k \in Nat
           /\ logged[p] \in SUBSET Nat
<1>1. JobOK(p)
    BY DEF StoreIInv, JobsOK
<1>2. job[p] \in [op : {"none", "wait", "write", "trunc"}, i : Store!Inum \cup {0},
                  off : Nat, n : Nat, left : Nat, k : Nat]
    BY DEF StoreIInv, DiskTypes
<1>3. logged[p] \in SUBSET Nat
    BY DEF StoreIInv, DiskTypes
<1> QED
    BY <1>1, <1>2, <1>3 DEF JobOK

\* A step that moves no block and truncates nothing.
LEMMA QuietStep ==
    ASSUME Formatted, StoreIInv, NEW p \in Writers, NEW r, job' = [job EXCEPT ![p] = r],
           job[p].op # "trunc", r.op # "trunc", UNCHANGED <<image, bitmap, disk, contents>>,
           \A j \in Store!Inum : inode'[j].addrs = inode[j].addrs
    PROVE  /\ UsedOnce' /\ UsedAll' /\ AllFilled'
           /\ \A j \in Store!Inum, y \in Store!Place : Has(j, y)' = Has(j, y)
<1>1. /\ \A j \in Store!Inum : Truncating(j)' <=> Truncating(j)
      /\ \A j \in Store!Inum, y \in Store!Place : Gone(j, y)' <=> Gone(j, y)
    BY GoneKept DEF StoreIInv
<1>2. \A j \in Store!Inum, y \in Store!Place : Has(j, y)' = Has(j, y)
    BY <1>1, HasKept
<1>3. Used' = Used
    BY DEF Used, Store!Made
<1>4. UsedOnce' /\ UsedAll'
    BY <1>2, <1>3, OnceKept DEF StoreIInv
<1>5. AllFilled'
    <2>1. \A j \in Store!Inum : Filled(j) => Filled(j)'
        BY <1>2, FileKept
    <2>2. UNCHANGED Store!Inum
        BY DEF Store!Inum
    <2> QED
        BY <1>1, <2>1, <2>2 DEF AllFilled, StoreIInv
<1> QED
    BY <1>2, <1>4, <1>5

\* Types after a step of a process that leaves the disk alone.
LEMMA JobTyped ==
    ASSUME DiskTypes, UNCHANGED <<disk, contents>>, NEW p \in Writers, NEW r, NEW l \in SUBSET Nat,
           job' = [job EXCEPT ![p] = r], logged' = [logged EXCEPT ![p] = l],
           inode' \in [Store!Inum -> [size : Nat, addrs : [1..(NDIRECT + 1) -> Nat]]],
           r \in [op : {"none", "wait", "write", "trunc"}, i : Store!Inum \cup {0},
                  off : Nat, n : Nat, left : Nat, k : Nat]
    PROVE  DiskTypes' /\ job'[p] = r /\ logged'[p] = l
           /\ \A q \in Writers \ {p} : job'[q] = job[q] /\ logged'[q] = logged[q]
<1>1. UNCHANGED <<Store!Inum, Store!Block>>
    BY DEF Store!Inum, Store!Block
<1> QED
    BY <1>1 DEF DiskTypes

\* The image does not change any more.
LEMMA ImageKept ==
    ASSUME StoreIInv, UNCHANGED image, ops' \in Nat, Store!Made,
           ops' = 0 => ops = 0 /\ contents' = contents
    PROVE  ImageTypes' /\ ImageOK' /\ Store!Made'
<1>1. Store!Made'
    BY DEF Store!Made
<1>2. ImageTypes'
    BY DEF ImageTypes, StoreIInv, Store!Source
<1> QED
    BY <1>1, <1>2 DEF ImageOK, StoreIInv, Copied

\* The call of write() keeps the invariant.
LEMMA WriteKeeps ==
    ASSUME Formatted, StoreIInv, Store!Made, NEW p \in Writers, NEW i \in Store!Inum,
           NEW off \in Nat, NEW len \in Nat, Store!Write(p, i, off, len)
    PROVE  StoreIInv'
<1> DEFINE r == [Store!Idle EXCEPT !.op = "wait", !.i = i, !.off = off, !.left = len]
<1>i. DiskTypes /\ ImageTypes /\ JobsOK /\ SizesOK
    BY DEF StoreIInv
<1>1. /\ r.op = "wait" /\ r.i = i /\ r.off = off
      /\ r \in [op : {"none", "wait", "write", "trunc"}, i : Store!Inum \cup {0},
                off : Nat, n : Nat, left : Nat, k : Nat]
    BY DEF Store!Idle
<1>2. /\ job[p].op = "none" /\ off <= inode[i].size
      /\ \A q \in Writers : job[q].op = "trunc" => job[q].i # i
      /\ job' = [job EXCEPT ![p] = r] /\ ops' = ops + 1
      /\ UNCHANGED <<image, bitmap, disk, inode, logged, contents>>
    BY DEF Store!Write
<1> HIDE DEF r
<1>3. logged[p] = {} /\ logged' = [logged EXCEPT ![p] = {}] /\ ops \in Nat
    <2>1. logged[p] = {}
        BY <1>2, JobIs DEF JobOK
    <2> QED
        BY <1>2, <1>i, <2>1 DEF DiskTypes, ImageTypes
<1>4. /\ UsedOnce' /\ UsedAll' /\ AllFilled'
      /\ \A j \in Store!Inum, y \in Store!Place : Has(j, y)' = Has(j, y)
    BY <1>1, <1>2, QuietStep
<1>5. /\ DiskTypes' /\ job'[p] = r /\ logged'[p] = {}
      /\ \A q \in Writers \ {p} : job'[q] = job[q] /\ logged'[q] = logged[q]
    BY <1>1, <1>2, <1>3, <1>i, JobTyped DEF DiskTypes
<1>6. ImageTypes' /\ ImageOK' /\ Store!Made'
    BY <1>2, <1>3, ImageKept
<1>7. JobOK(p)'
    <2>1. i # 0
        BY DEF Store!Inum
    <2> QED
        BY <1>1, <1>2, <1>3, <1>5, <1>6, <2>1 DEF JobOK
<1>8. ASSUME NEW q \in Writers \ {p} PROVE JobOK(q)'
    <2>1. job[q].op # "none" => job[q].i \in Store!Inum
        BY JobIs
    <2>2. job[q].op # "none" /\ ops > 0 => Store!Made' /\ ops' > 0
        BY <1>2, <1>3, <1>6
    <2>3. \A s \in Writers \ {p} : job'[s] = job[s]
        BY <1>5
    <2>4. job[q].op = "trunc" => job'[p].i # job[q].i
        BY <1>1, <1>2, <1>5
    <2>5. job'[p].op # "write" /\ logged'[q] = logged[q] /\ inode' = inode /\ contents' = contents
        BY <1>1, <1>2, <1>5
    <2>6. job[q].op \in {"write", "trunc"} =>
            \A y \in Store!Place : Has(job[q].i, y)' = Has(job[q].i, y)
        <3>1. job'[q].i = job[q].i
            BY <1>5
        <3> QED
            BY <1>4, <2>1, <3>1
    <2> QED
        BY <1>i, <2>2, <2>3, <2>4, <2>5, <2>6, OtherJob
<1>9. SizesOK'
    <2>1. \A j \in Store!Inum : Store!Locked(j) => Store!Locked(j)'
        <3> SUFFICES ASSUME NEW j \in Store!Inum, NEW q \in Writers, job[q].i = j,
                            job[q].op \in {"write", "trunc"}
                     PROVE  Store!Locked(j)'
            BY DEF Store!Locked
        <3>1. q # p
            BY <1>2
        <3> QED
            BY <1>5, <3>1 DEF Store!Locked
    <2>2. UNCHANGED Store!Inum
        BY DEF Store!Inum
    <2> QED
        BY <1>2, <1>i, <2>1, <2>2 DEF SizesOK
<1> QED
    BY <1>4, <1>5, <1>6, <1>7, <1>8, <1>9 DEF StoreIInv, JobsOK

\* The largest chunk of filewrite() ends where a chunk of whole blocks would.
LEMMA ChunkFits ==
    ASSUME Formatted, NEW len \in Nat, NEW off \in Nat
    PROVE  /\ Store!MaxBlocks \in Nat /\ Store!MaxWrite(len) \in Nat /\ Store!MaxWrite(len) <= len
           /\ off + Store!MaxWrite(len) <= Start((off \div BSIZE) + Store!MaxBlocks + 1)
<1> DEFINE f == off \div BSIZE
           m == Store!MaxBlocks
<1>1. BSIZE \in Nat \ {0} /\ m \in Nat
    BY DEF Formatted, Store!MaxBlocks
<1>2. f \in Nat /\ Start(f) <= off /\ off < Start(f) + BSIZE
    BY StartOf
<1>3. Store!MaxWrite(len) = Store!Min({len, m * BSIZE})
    BY DEF Store!MaxWrite
<1> HIDE DEF f, m
<1>4. m * BSIZE \in Nat
    BY <1>1, SMT
<1>5. Store!Min({len, m * BSIZE}) = IF len <= m * BSIZE THEN len ELSE m * BSIZE
    BY <1>4, MinIs
<1>6. Start(f + m + 1) = Start(f) + m * BSIZE + BSIZE
    BY <1>1, <1>2, SMT DEF Start
<1>7. Start(f) \in Nat
    BY <1>2, StartIs
<1>8. /\ m \in Nat /\ Store!MaxWrite(len) \in Nat /\ Store!MaxWrite(len) <= len
      /\ off + Store!MaxWrite(len) <= Start(f + m + 1)
    BY <1>1, <1>2, <1>3, <1>4, <1>5, <1>6, <1>7
<1> QED
    BY <1>8 DEF f, m

\* begin_op(), ilock() and the checks of writei() keep the invariant.
LEMMA ChunkKeeps ==
    ASSUME Formatted, StoreIInv, Store!Made, NEW p \in Writers, Store!NextChunk(p)
    PROVE  StoreIInv'
<1> DEFINE i == job[p].i
           off == job[p].off
           len == Store!MaxWrite(job[p].left)
           w == [job[p] EXCEPT !.op = "write", !.n = len, !.left = @ - len]
           stops == off > inode[i].size \/ off + len > Store!MAXFILE * BSIZE
           r == IF stops THEN Store!Idle ELSE w
<1>i. DiskTypes /\ ImageTypes /\ JobsOK /\ SizesOK
    BY DEF StoreIInv
<1>1. /\ job[p].op = "wait" /\ ~Store!Locked(i)
      /\ job' = [job EXCEPT ![p] = r]
      /\ UNCHANGED <<image, bitmap, disk, inode, logged, contents, ops>>
    BY DEF Store!NextChunk
<1>2. /\ i \in Store!Inum /\ off \in Nat /\ job[p].left \in Nat /\ job[p].k \in Nat
      /\ logged[p] = {} /\ ops > 0 /\ off <= inode[i].size
    BY <1>1, JobIs DEF JobOK
<1>3. /\ len \in Nat /\ len <= job[p].left /\ Store!MaxBlocks \in Nat
      /\ off + len <= Start((off \div BSIZE) + Store!MaxBlocks + 1)
    BY <1>2, ChunkFits
<1>4. /\ w.op = "write" /\ w.i = i /\ w.off = off /\ w.n = len
      /\ w \in [op : {"none", "wait", "write", "trunc"}, i : Store!Inum \cup {0},
                off : Nat, n : Nat, left : Nat, k : Nat]
    <2>1. job[p] \in [op : {"none", "wait", "write", "trunc"}, i : Store!Inum \cup {0},
                off : Nat, n : Nat, left : Nat, k : Nat]
        BY <1>i DEF DiskTypes
    <2>2. PICK u : u = job[p].left - len
        OBVIOUS
    <2>3. u \in Nat
        BY <1>2, <1>3, <2>2
    <2>4. w = [job[p] EXCEPT !.op = "write", !.n = len, !.left = u]
        BY <2>2
    <2> HIDE DEF len, w
    <2> QED
        BY <1>2, <1>3, <2>1, <2>3, <2>4
<1>5. /\ Store!Idle.op = "none" /\ Store!Idle.i = 0
      /\ Store!Idle \in [op : {"none", "wait", "write", "trunc"}, i : Store!Inum \cup {0},
                         off : Nat, n : Nat, left : Nat, k : Nat]
    BY DEF Store!Idle, Store!NoInode
<1>6. /\ r \in [op : {"none", "wait", "write", "trunc"}, i : Store!Inum \cup {0},
                off : Nat, n : Nat, left : Nat, k : Nat]
      /\ r.op # "trunc" /\ r.op \in {"none", "write"}
      /\ r.op = "none" => r.i = 0
      /\ r.op = "write" => r.i = i /\ r.off = off /\ r.n = len
                           /\ off + len <= Start(Store!MAXFILE)
    <2>1. ~stops => off + len <= Start(Store!MAXFILE)
        <3>1. Start(Store!MAXFILE) \in Nat
            BY PlacesAre, StartIs
        <3> QED
            BY <1>2, <1>3, <3>1 DEF Start
    <2> HIDE DEF w, stops, len
    <2> QED
        BY <1>4, <1>5, <2>1
<1> HIDE DEF r, w, stops
<1>7. logged' = [logged EXCEPT ![p] = {}] /\ ops' = ops /\ ops \in Nat
    BY <1>1, <1>2, <1>i DEF DiskTypes, ImageTypes
<1>8. /\ UsedOnce' /\ UsedAll' /\ AllFilled'
      /\ \A j \in Store!Inum, y \in Store!Place : Has(j, y)' = Has(j, y)
    BY <1>1, <1>6, QuietStep
<1>9. /\ DiskTypes' /\ job'[p] = r /\ logged'[p] = {}
      /\ \A q \in Writers \ {p} : job'[q] = job[q] /\ logged'[q] = logged[q]
    BY <1>1, <1>6, <1>7, <1>i, JobTyped DEF DiskTypes
<1>10. ImageTypes' /\ ImageOK' /\ Store!Made'
    BY <1>1, <1>7, ImageKept
<1>11. \A q \in Writers : job[q].i = i => job[q].op \notin {"write", "trunc"}
    BY <1>1 DEF Store!Locked
<1>12. JobOK(p)'
    <2>1. i # 0
        BY <1>2 DEF Store!Inum
    <2>2. ASSUME r.op = "write" PROVE WriteOK(p)'
        <3>1. \A q \in Writers : job'[q].op = "write" /\ job'[q].i = i => q = p
            BY <1>9, <1>11
        <3>2. inode'[i].size = inode[i].size /\ inode[i].size \in Nat
              /\ Len(contents'[i]) = inode[i].size
            BY <1>1, <1>2, <1>i DEF SizesOK, DiskTypes
        <3>3. LogFits(p)'
            <4>1. off \div BSIZE \in Nat /\ Start(off \div BSIZE) <= off
                BY <1>2, StartOf
            <4>2. job'[p].off = off /\ job'[p].n = len
                BY <1>6, <1>9, <2>2
            <4>3. PICK f : f = off \div BSIZE
                OBVIOUS
            <4> HIDE DEF off, len
            <4>4. \E g \in Nat : /\ Start(g) <= job'[p].off
                                 /\ job'[p].off + job'[p].n <= Start(g + Store!MaxBlocks + 1)
                BY <4>1, <1>3, <4>2, <4>3
            <4> QED
                BY <1>9, <4>4 DEF LogFits, Start, Store!MaxBlocks
        <3>4. job'[p].i = i /\ job'[p].off = off /\ job'[p].n = len
            BY <1>6, <1>9, <2>2
        <3>5. off + len <= Start(Store!MAXFILE) /\ UNCHANGED Start(Store!MAXFILE)
            BY <1>6, <2>2 DEF Start, Store!MAXFILE, Store!NINDIRECT
        <3> HIDE DEF i, off, len
        <3>6. off <= Len(contents'[i]) /\ Len(contents'[i]) = Store!NewSize(inode'[i].size, off)
            BY <1>2, <3>2 DEF Store!NewSize
        <3> QED
            BY <3>1, <3>3, <3>4, <3>5, <3>6 DEF WriteOK, Store!NewSize
    <2> HIDE DEF i, off, len
    <2> QED
        BY <1>2, <1>6, <1>7, <1>9, <1>10, <2>1, <2>2 DEF JobOK
<1>13. ASSUME NEW q \in Writers \ {p} PROVE JobOK(q)'
    <2>1. job[q].op # "none" => job[q].i \in Store!Inum
        BY JobIs
    <2>2. job[q].op # "none" /\ ops > 0 => Store!Made' /\ ops' > 0
        BY <1>7, <1>10
    <2>3. \A s \in Writers \ {p} : job'[s] = job[s]
        BY <1>9
    <2>4. 0 \notin Store!Inum
        BY DEF Store!Inum
    <2>5. /\ job[q].op = "trunc" => job'[p].i # job[q].i
          /\ job[q].op = "write" /\ job'[p].op = "write" => job'[p].i # job[q].i
        BY <1>6, <1>9, <1>11, <2>1, <2>4
    <2>6. logged'[q] = logged[q] /\ inode' = inode /\ contents' = contents
        BY <1>1, <1>9
    <2>7. job[q].op \in {"write", "trunc"} =>
            \A y \in Store!Place : Has(job[q].i, y)' = Has(job[q].i, y)
        <3>1. job'[q].i = job[q].i
            BY <1>9
        <3> QED
            BY <1>8, <2>1, <3>1
    <2> QED
        BY <1>i, <2>2, <2>3, <2>5, <2>6, <2>7, OtherJob
<1>14. SizesOK'
    <2>1. \A j \in Store!Inum : Store!Locked(j) => Store!Locked(j)'
        <3> SUFFICES ASSUME NEW j \in Store!Inum, NEW q \in Writers, job[q].i = j,
                            job[q].op \in {"write", "trunc"}
                     PROVE  Store!Locked(j)'
            BY DEF Store!Locked
        <3>1. q # p
            BY <1>1
        <3> QED
            BY <1>9, <3>1 DEF Store!Locked
    <2>2. UNCHANGED Store!Inum
        BY DEF Store!Inum
    <2> QED
        BY <1>1, <1>i, <2>1, <2>2 DEF SizesOK
<1> QED
    BY <1>8, <1>9, <1>10, <1>12, <1>13, <1>14 DEF StoreIInv, JobsOK

\* The end of writei() keeps it: the size follows.
LEMMA DoneKeeps ==
    ASSUME Formatted, StoreIInv, Store!Made, NEW p \in Writers, Store!ChunkDone(p)
    PROVE  StoreIInv'
<1> DEFINE i == job[p].i
           off == job[p].off
           w == [job[p] EXCEPT !.op = "wait"]
           r == IF job[p].left = 0 THEN Store!Idle ELSE w
           size == Store!NewSize(inode[i].size, off)
<1>i. DiskTypes /\ ImageTypes /\ JobsOK /\ SizesOK
    BY DEF StoreIInv
<1>1. /\ job[p].op = "write" /\ job' = [job EXCEPT ![p] = r]
      /\ inode' = [inode EXCEPT ![i].size = size] /\ logged' = [logged EXCEPT ![p] = {}]
      /\ UNCHANGED <<image, bitmap, disk, contents, ops>>
    BY DEF Store!ChunkDone
<1>2. i \in Store!Inum /\ off \in Nat /\ ops > 0 /\ WriteOK(p)
    BY <1>1, JobIs DEF JobOK
<1>3. /\ w.op = "wait" /\ w.i = i /\ w.off = off
      /\ w \in [op : {"none", "wait", "write", "trunc"}, i : Store!Inum \cup {0},
                off : Nat, n : Nat, left : Nat, k : Nat]
    <2>1. job[p] \in [op : {"none", "wait", "write", "trunc"}, i : Store!Inum \cup {0},
                off : Nat, n : Nat, left : Nat, k : Nat]
        BY <1>i DEF DiskTypes
    <2> QED
        BY <2>1
<1>4. /\ Store!Idle.op = "none" /\ Store!Idle.i = 0
      /\ Store!Idle \in [op : {"none", "wait", "write", "trunc"}, i : Store!Inum \cup {0},
                         off : Nat, n : Nat, left : Nat, k : Nat]
    BY DEF Store!Idle, Store!NoInode
<1>5. /\ r \in [op : {"none", "wait", "write", "trunc"}, i : Store!Inum \cup {0},
                off : Nat, n : Nat, left : Nat, k : Nat]
      /\ r.op \in {"none", "wait"} /\ (r.op = "none" => r.i = 0)
      /\ r.op = "wait" => r.i = i /\ r.off = off
    <2> HIDE DEF w
    <2> QED
        BY <1>3, <1>4
<1> HIDE DEF r, w
<1>6. /\ inode[i].size \in Nat /\ size \in Nat /\ size >= off /\ size >= inode[i].size
      /\ Len(contents[i]) = size
    BY <1>2, <1>i DEF DiskTypes, Store!NewSize, WriteOK
<1>7. /\ inode' \in [Store!Inum -> [size : Nat, addrs : [1..(NDIRECT + 1) -> Nat]]]
      /\ inode'[i].size = size
      /\ \A j \in Store!Inum : inode'[j].addrs = inode[j].addrs
      /\ \A j \in Store!Inum \ {i} : inode'[j] = inode[j]
    <2> HIDE DEF size, i
    <2> QED
        BY <1>1, <1>2, <1>6, <1>i DEF DiskTypes
<1>8. /\ UsedOnce' /\ UsedAll' /\ AllFilled'
      /\ \A j \in Store!Inum, y \in Store!Place : Has(j, y)' = Has(j, y)
    BY <1>1, <1>5, <1>7, QuietStep
<1>9. /\ DiskTypes' /\ job'[p] = r /\ logged'[p] = {}
      /\ \A q \in Writers \ {p} : job'[q] = job[q] /\ logged'[q] = logged[q]
    <2>1. /\ UNCHANGED <<disk, contents>> /\ job' = [job EXCEPT ![p] = r]
          /\ logged' = [logged EXCEPT ![p] = {}] /\ {} \in SUBSET Nat
        BY <1>1
    <2>2. inode' \in [Store!Inum -> [size : Nat, addrs : [1..(NDIRECT + 1) -> Nat]]]
        BY <1>7
    <2> HIDE DEF i, off, size
    <2> QED
        BY <1>5, <1>i, <2>1, <2>2, JobTyped
<1>10. ImageTypes' /\ ImageOK' /\ Store!Made'
    BY <1>1, <1>2, <1>i, ImageKept DEF ImageTypes
<1>11. \A q \in Writers \ {p} : job[q].op \in {"write", "trunc"} => job[q].i # i
    <2> SUFFICES ASSUME NEW q \in Writers \ {p}, job[q].op \in {"write", "trunc"}
                 PROVE  job[q].i # i
        OBVIOUS
    <2>1. CASE job[q].op = "write"
        BY <1>2, <2>1 DEF WriteOK
    <2>2. CASE job[q].op = "trunc"
        <3>1. TruncOK(q)
            BY <2>2, JobIs DEF JobOK
        <3> QED
            BY <3>1 DEF TruncOK
    <2> QED
        BY <2>1, <2>2
<1>12. JobOK(p)'
    <2>1. i # 0
        BY <1>2 DEF Store!Inum
    <2> HIDE DEF i, off, size
    <2> QED
        BY <1>1, <1>2, <1>5, <1>6, <1>7, <1>9, <1>10, <2>1 DEF JobOK
<1>13. ASSUME NEW q \in Writers \ {p} PROVE JobOK(q)'
    <2>1. job[q].op # "none" => job[q].i \in Store!Inum
        BY JobIs
    <2>2. job[q].op # "none" /\ ops > 0 => Store!Made' /\ ops' > 0
        BY <1>1, <1>10
    <2>3. \A s \in Writers \ {p} : job'[s] = job[s]
        BY <1>9
    <2>4. /\ job[q].op = "trunc" => job'[p].i # job[q].i
          /\ job[q].op = "write" /\ job'[p].op = "write" => job'[p].i # job[q].i
        <3>1. 0 \notin Store!Inum
            BY DEF Store!Inum
        <3> QED
            BY <1>5, <1>9, <1>11, <2>1, <3>1
    <2>5. logged'[q] = logged[q] /\ contents' = contents
        BY <1>1, <1>9
    <2>6. job[q].op \in {"write", "trunc"} =>
            /\ inode'[job[q].i] = inode[job[q].i]
            /\ \A y \in Store!Place : Has(job[q].i, y)' = Has(job[q].i, y)
        <3>1. job'[q].i = job[q].i
            BY <1>9
        <3> QED
            BY <1>7, <1>8, <1>11, <2>1, <3>1
    <2>7. job[q].op = "wait" /\ job[q].off <= inode[job[q].i].size =>
             job[q].off <= inode'[job[q].i].size
        <3>1. job[q].off \in Nat
            BY JobIs
        <3>2. CASE job[q].i = i
            <4> HIDE DEF size, i
            <4> QED
                BY <1>6, <1>7, <3>1, <3>2
        <3>3. CASE job[q].i # i
            BY <1>7, <2>1, <3>3
        <3> QED
            BY <3>2, <3>3
    <2> QED
        BY <1>i, <2>2, <2>3, <2>4, <2>5, <2>6, <2>7, OtherJob
<1>14. SizesOK'
    <2>1. \A j \in Store!Inum \ {i} : Store!Locked(j) => Store!Locked(j)'
        <3> SUFFICES ASSUME NEW j \in Store!Inum \ {i}, NEW q \in Writers, job[q].i = j,
                            job[q].op \in {"write", "trunc"}
                     PROVE  Store!Locked(j)'
            BY DEF Store!Locked
        <3>1. q # p
            OBVIOUS
        <3> QED
            BY <1>9, <3>1 DEF Store!Locked
    <2>2. UNCHANGED Store!Inum
        BY DEF Store!Inum
    <2> HIDE DEF size, i
    <2> QED
        BY <1>1, <1>6, <1>7, <1>i, <2>1, <2>2 DEF SizesOK
<1> QED
    BY <1>8, <1>9, <1>10, <1>12, <1>13, <1>14 DEF StoreIInv, JobsOK

\* Taking the last reference to a file: it has nothing any more.
LEMMA TruncateKeeps ==
    ASSUME Formatted, StoreIInv, Store!Made, NEW p \in Writers, NEW i \in Store!Inum,
           Store!Truncate(p, i)
    PROVE  StoreIInv'
<1> DEFINE r == [Store!Idle EXCEPT !.op = "trunc", !.i = i]
<1>i. DiskTypes /\ ImageTypes /\ JobsOK /\ SizesOK /\ UsedOnce /\ UsedAll /\ AllFilled
    BY DEF StoreIInv
<1>1. /\ job[p].op = "none" /\ (\A q \in Writers : job[q].i # i)
      /\ job' = [job EXCEPT ![p] = r] /\ contents' = [contents EXCEPT ![i] = <<>>]
      /\ ops' = ops + 1 /\ UNCHANGED <<image, bitmap, disk, inode, logged>>
    BY DEF Store!Truncate
<1>2. /\ r.op = "trunc" /\ r.i = i /\ r.k = 0
      /\ r \in [op : {"none", "wait", "write", "trunc"}, i : Store!Inum \cup {0},
                off : Nat, n : Nat, left : Nat, k : Nat]
    BY DEF Store!Idle
<1> HIDE DEF r
<1>3. /\ job'[p] = r /\ (\A q \in Writers \ {p} : job'[q] = job[q]) /\ ops' \in Nat /\ ops' > 0
      /\ contents'[i] = <<>> /\ \A j \in Store!Inum \ {i} : contents'[j] = contents[j]
    BY <1>1, <1>i DEF DiskTypes, ImageTypes
<1>4. /\ \A j \in Store!Inum : Truncating(j)' <=> Truncating(j) \/ j = i
      /\ \A j \in Store!Inum, y \in Store!Place : Gone(j, y)' <=> Gone(j, y)
    <2>1. \A y \in Store!Place : ~(y < 0)
        BY PlacesAre DEF Store!Place
    <2> QED
        BY <1>1, <1>2, <1>3, <2>1 DEF Truncating, Gone
<1>5. \A j \in Store!Inum, y \in Store!Place : Has(j, y)' = Has(j, y)
    BY <1>1, <1>4, HasKept
<1>6. UsedOnce' /\ UsedAll'
    <2>1. Used' = Used
        BY <1>1 DEF Used, Store!Made
    <2> QED
        BY <1>5, <1>i, <2>1, OnceKept
<1>7. AllFilled'
    <2>1. \A j \in Store!Inum \ {i} : Filled(j) => Filled(j)'
        BY <1>1, <1>3, <1>5, FileKept
    <2>2. UNCHANGED Store!Inum
        BY DEF Store!Inum
    <2> QED
        BY <1>4, <1>i, <2>1, <2>2 DEF AllFilled
<1>8. DiskTypes'
    <2>1. UNCHANGED <<Store!Inum, Store!Block>>
        BY DEF Store!Inum, Store!Block
    <2> QED
        BY <1>1, <1>2, <1>i, <2>1 DEF DiskTypes
<1>9. ImageTypes' /\ ImageOK' /\ Store!Made'
    BY <1>1, <1>3, ImageKept
<1>10. JobOK(p)'
    <2>1. i # 0
        BY DEF Store!Inum
    <2>2. logged'[p] = {}
        BY <1>1, JobIs DEF JobOK
    <2>3. TruncOK(p)'
        <3>1. \A q \in Writers : job'[q].i = job'[p].i => q = p
            BY <1>1, <1>2, <1>3
        <3>2. \A x \in DataPlace' : ~(x < 0)
            BY DEF DataPlace
        <3>3. ~(0 > Store!MAXFILE')
            BY PlacesAre DEF Store!MAXFILE, Store!NINDIRECT
        <3> QED
            BY <1>2, <1>3, <2>2, <3>1, <3>2, <3>3 DEF TruncOK
    <2> QED
        BY <1>2, <1>3, <1>9, <2>1, <2>3 DEF JobOK
<1>11. ASSUME NEW q \in Writers \ {p} PROVE JobOK(q)'
    <2>1. job[q].op # "none" => job[q].i \in Store!Inum \ {i}
        BY <1>1, JobIs
    <2>2. job[q].op # "none" /\ ops > 0 => Store!Made' /\ ops' > 0
        BY <1>3, <1>9
    <2>3. \A s \in Writers \ {p} : job'[s] = job[s]
        BY <1>3
    <2>4. job'[p].op # "write" /\ job'[p].i # job[q].i
        BY <1>1, <1>2, <1>3
    <2>5. logged'[q] = logged[q] /\ inode' = inode
        BY <1>1
    <2>6. job[q].op \in {"write", "trunc"} =>
            /\ contents'[job[q].i] = contents[job[q].i]
            /\ \A y \in Store!Place : Has(job[q].i, y)' = Has(job[q].i, y)
        <3>1. job'[q].i = job[q].i
            BY <1>3
        <3> QED
            BY <1>3, <1>5, <2>1, <3>1
    <2> QED
        BY <1>i, <2>2, <2>3, <2>4, <2>5, <2>6, OtherJob
<1>12. SizesOK'
    <2>1. \A j \in Store!Inum : Store!Locked(j) \/ j = i => Store!Locked(j)'
        BY <1>1, <1>2, <1>3 DEF Store!Locked
    <2>2. UNCHANGED Store!Inum
        BY DEF Store!Inum
    <2> QED
        BY <1>1, <1>3, <1>i, <2>1, <2>2 DEF SizesOK
<1> QED
    BY <1>6, <1>7, <1>8, <1>9, <1>10, <1>11, <1>12 DEF StoreIInv, JobsOK

\* A block that is free, when there is one.
LEMMA FreeIs ==
    ASSUME Formatted, NEW used, ~(Store!Block \subseteq used)
    PROVE  Store!FreeBlock(used) \in Store!Block \ used
<1> DEFINE N == Store!Block \ used
<1>1. N \in SUBSET Nat /\ N # {}
    BY DEF Formatted, Store!Block
<1> HIDE DEF N
<1>2. \E x \in N : \A y \in N : x <= y
    BY <1>1, LeastNumber
<1>3. Store!Min(N) \in N
    BY <1>2 DEF Store!Min
<1> QED
    BY <1>3 DEF N, Store!FreeBlock

\* Two blocks of bmap(), that are free.
LEMMA TwoFree ==
    ASSUME Formatted, StoreIInv, NEW i \in Store!Inum, ~Truncating(i), NEW bn \in DataPlace,
           ~Store!OutOfBlocks(Store!Needed(inode[i], bn)), NEW first, NEW second,
           first = Store!FreeBlock(bitmap), second = Store!FreeBlock(bitmap \cup {first})
    PROVE  /\ Store!Needed(inode[i], bn) > 0 => first \in Store!Block \ bitmap
           /\ Store!Needed(inode[i], bn) > 1 => second \in Store!Block \ bitmap /\ first # second
<1>1. /\ Store!Needed(inode[i], bn) > 0 => ~(Store!Block \subseteq bitmap)
      /\ Store!Needed(inode[i], bn) > 1 => ~(Store!Block \subseteq bitmap \cup {first})
    BY DEF Store!OutOfBlocks
<1>2. ~(Store!Block \subseteq bitmap) => first \in Store!Block \ bitmap
    BY FreeIs
<1>3. ~(Store!Block \subseteq bitmap \cup {first}) => second \in Store!Block \ (bitmap \cup {first})
    BY FreeIs
<1> QED
    BY <1>1, <1>2, <1>3

\* Nothing but panicked may change.
LEMMA StoreStutters ==
    ASSUME StoreIInv, UNCHANGED <<image, bitmap, disk, inode, job, logged, contents, ops>>
    PROVE  StoreIInv'
<1>1. /\ UNCHANGED <<Store!Inum, Store!Block, Store!Place, Store!MAXFILE, DataPlace, Store!Bitmap>>
      /\ UNCHANGED <<Store!MaxBlocks, Store!Made, Used>>
    BY DEF Store!Inum, Store!Block, Store!Place, Store!MAXFILE, Store!NINDIRECT, DataPlace,
           Store!Bitmap, Store!MaxBlocks, Store!Made, Used
<1>2. \A y : Start(y)' = Start(y)
    BY DEF Start
<1>3. /\ \A i, x : Has(i, x)' = Has(i, x)
      /\ \A i : Truncating(i)' = Truncating(i)
    BY DEF Has, Truncating, Store!Refers, Store!BlockAt, Store!Lookup, Store!Indirect,
           Store!NoBlock, Store!MAXFILE, Store!NINDIRECT
<1>4. DiskTypes' /\ ImageTypes'
    BY <1>1 DEF StoreIInv, DiskTypes, ImageTypes, Store!Source, Store!ROOTINO
<1>5. UsedOnce' /\ UsedAll'
    <2>1. Used' = Used
        BY <1>1
    <2> QED
        BY <1>3, <2>1, OnceKept DEF StoreIInv
<1>6. AllFilled'
    <2>1. ASSUME NEW i, Filled(i) PROVE Filled(i)'
        BY <1>1, <1>2, <1>3, <2>1 DEF Filled, Unit
    <2> QED
        BY <1>1, <1>3, <2>1 DEF AllFilled, StoreIInv
<1>7. ASSUME NEW p \in Writers PROVE JobOK(p)'
    <2>1. JobOK(p)
        BY DEF StoreIInv, JobsOK
    <2>2. LogFits(p) => LogFits(p)'
        BY <1>1, <1>2, <1>3 DEF LogFits
    <2>3. WriteOK(p) => WriteOK(p)'
        BY <1>1, <1>2, <2>2 DEF WriteOK, Store!NewSize
    <2>4. TruncOK(p) => TruncOK(p)'
        BY <1>1 DEF TruncOK
    <2> QED
        BY <1>1, <2>1, <2>3, <2>4 DEF JobOK
<1>8. SizesOK'
    BY <1>1 DEF SizesOK, StoreIInv, Store!Locked
<1>9. ImageOK'
    BY <1>1 DEF ImageOK, StoreIInv, Copied, Store!ROOTINO
<1> QED
    BY <1>4, <1>5, <1>6, <1>7, <1>8, <1>9 DEF StoreIInv, JobsOK

\* One turn of the loop of writei() keeps the invariant.
LEMMA BlockKeeps ==
    ASSUME Formatted, StoreIInv, Store!Made, NEW p \in Writers, Store!WriteBlock(p)
    PROVE  StoreIInv'
<1>d. SUFFICES ASSUME NEW i, i = job[p].i, NEW off, off = job[p].off,
                     NEW bn, bn = off \div BSIZE,
                     NEW end, end = Store!Min({off + job[p].n, (bn + 1) * BSIZE}),
                     NEW first, first = Store!FreeBlock(bitmap),
                     NEW second, second = Store!FreeBlock(bitmap \cup {first}),
                     NEW m, m = Store!Bmap(inode[i], bn, first, second),
                     NEW x, x = Store!Mark(i), NEW need, need = Store!Needed(inode[i], bn),
                     NEW l, l = logged[p] \cup {m.block} \cup
                      (IF m.new = {} THEN {}
                       ELSE {Store!Bitmap} \cup
                              IF bn < NDIRECT THEN {} ELSE {m.addrs[NDIRECT + 1]})
              PROVE  StoreIInv'
    OBVIOUS
<1> DEFINE MF == Store!MAXFILE
           r == [job[p] EXCEPT !.off = end, !.n = @ - (end - off)]
           out == Store!OutOfBlocks(need)
<1>i. DiskTypes /\ ImageTypes /\ JobsOK /\ SizesOK /\ UsedOnce /\ UsedAll /\ AllFilled
    BY DEF StoreIInv
<1>1. /\ job[p].op = "write" /\ job[p].n > 0 /\ UNCHANGED <<image, ops>>
      /\ \/ UNCHANGED <<bitmap, disk, inode, job, logged, contents>>
         \/ /\ ~out /\ bitmap' = bitmap \cup m.new
            /\ disk' = [m.disk EXCEPT ![m.block] = Store!InBlock(@, bn, off, end, x)]
            /\ inode' = [inode EXCEPT ![i].addrs = m.addrs]
            /\ job' = [job EXCEPT ![p].off = end, ![p].n = @ - (end - off)]
            /\ logged' = [logged EXCEPT ![p] = l]
            /\ contents' = [contents EXCEPT ![i] = Store!InFile(@, off, end, x)]
    BY <1>d, Zenon DEF Store!WriteBlock
<1>2. CASE UNCHANGED <<bitmap, disk, inode, job, logged, contents>>
    BY <1>1, <1>2, StoreStutters
<1> SUFFICES ASSUME ~UNCHANGED <<bitmap, disk, inode, job, logged, contents>>
             PROVE  StoreIInv'
    BY <1>2
<1>3. /\ ~out /\ bitmap' = bitmap \cup m.new
      /\ disk' = [m.disk EXCEPT ![m.block] = Store!InBlock(@, bn, off, end, x)]
      /\ inode' = [inode EXCEPT ![i].addrs = m.addrs]
      /\ job' = [job EXCEPT ![p].off = end, ![p].n = @ - (end - off)]
      /\ logged' = [logged EXCEPT ![p] = l]
      /\ contents' = [contents EXCEPT ![i] = Store!InFile(@, off, end, x)]
    BY <1>1
<1>4. /\ i \in Store!Inum /\ off \in Nat /\ job[p].n \in Nat \ {0} /\ ops > 0 /\ WriteOK(p)
      /\ logged[p] \in SUBSET Nat /\ x \in Nat /\ ops \in Nat
    <2>1. i \in Store!Inum /\ off \in Nat /\ ops > 0 /\ WriteOK(p) /\ logged[p] \in SUBSET Nat
        BY <1>1, <1>d, JobIs DEF JobOK
    <2>2. x \in Nat
        BY <1>d, <2>1 DEF Store!Mark, Store!Inum
    <2>3. job[p].n \in Nat /\ ops \in Nat
        BY <1>i, JobIs DEF ImageTypes
    <2> QED
        BY <1>1, <2>1, <2>2, <2>3
<1>5. /\ bn \in Nat /\ Start(bn) <= off /\ off < Start(bn) + BSIZE /\ Start(bn) \in Nat
      /\ (bn + 1) * BSIZE = Start(bn) + BSIZE /\ BSIZE \in Nat
    <2>1. bn \in Nat /\ Start(bn) <= off /\ off < Start(bn) + BSIZE
        BY <1>4, <1>d, StartOf
    <2>2. Start(bn) \in Nat /\ Start(bn + 1) = Start(bn) + BSIZE
        BY <2>1, StartIs
    <2> QED
        BY <2>1, <2>2 DEF Start, Formatted
<1>6. /\ end \in Nat /\ off < end /\ end <= Start(bn) + BSIZE /\ end <= off + job[p].n
      /\ end = off + job[p].n \/ end = Start(bn) + BSIZE
    <2>1. PICK k : k = off + job[p].n
        OBVIOUS
    <2>2. PICK z : z = Start(bn) + BSIZE
        OBVIOUS
    <2>3. k \in Nat /\ z \in Nat
        BY <1>4, <1>5, <2>1, <2>2
    <2>4. end = Store!Min({k, z})
        BY <1>5, <1>d, <2>1, <2>2
    <2>5. end = IF k <= z THEN k ELSE z
        BY <2>3, <2>4, MinIs
    <2> QED
        BY <1>4, <1>5, <2>1, <2>2, <2>3, <2>5
<1>7. /\ off + job[p].n <= Start(MF) /\ off <= Len(contents[i])
      /\ Len(contents[i]) = Store!NewSize(inode[i].size, off) /\ LogFits(p)
      /\ \A q \in Writers : job[q].op = "write" /\ job[q].i = i => q = p
    BY <1>4, <1>d DEF WriteOK
<1>8. bn \in DataPlace
    <2>1. MF \in Nat /\ Start(MF) \in Nat
        BY PlacesAre, StartIs
    <2>2. ~(Start(MF) <= off)
        <3> HIDE DEF MF
        <3> QED
            BY <1>4, <1>7, <2>1
    <2>3. ~(MF <= bn)
        BY <1>4, <1>d, <2>1, <2>2, StartCompared
    <2> HIDE DEF MF
    <2> QED
        BY <1>5, <2>1, <2>3 DEF DataPlace, MF
<1>9. \A q \in Writers \ {p} : job[q].op \in {"write", "trunc"} => job[q].i # i
    <2> SUFFICES ASSUME NEW q \in Writers \ {p}, job[q].op \in {"write", "trunc"}
                 PROVE  job[q].i # i
        OBVIOUS
    <2>1. CASE job[q].op = "write"
        BY <1>7, <2>1
    <2>2. CASE job[q].op = "trunc"
        <3>1. TruncOK(q)
            BY <2>2, JobIs DEF JobOK
        <3> QED
            BY <1>d, <3>1 DEF TruncOK
    <2> QED
        BY <2>1, <2>2
<1>10. ~Truncating(i)
    BY <1>1, <1>9, <1>d DEF Truncating
<1>11. /\ job' = [job EXCEPT ![p] = r] /\ r.op = "write" /\ r.i = i /\ r.off = end
       /\ r.n \in Nat /\ end + r.n = off + job[p].n
       /\ r \in [op : {"none", "wait", "write", "trunc"}, i : Store!Inum \cup {0},
                 off : Nat, n : Nat, left : Nat, k : Nat]
    <2>1. job[p] \in [op : {"none", "wait", "write", "trunc"}, i : Store!Inum \cup {0},
                off : Nat, n : Nat, left : Nat, k : Nat]
        BY <1>i DEF DiskTypes
    <2>2. PICK rest : rest = job[p].n - (end - off)
        OBVIOUS
    <2>3. rest \in Nat /\ end + rest = off + job[p].n
        BY <1>4, <1>6, <2>2
    <2>4. r = [job[p] EXCEPT !.off = end, !.n = rest]
        BY <2>2
    <2>5. job' = [job EXCEPT ![p] = r]
        BY <1>3, <1>i DEF DiskTypes
    <2> HIDE DEF r
    <2> QED
        BY <1>1, <1>6, <1>d, <2>1, <2>3, <2>4, <2>5
<1> HIDE DEF r
<1>12. /\ job'[p] = r /\ \A q \in Writers \ {p} : job'[q] = job[q]
    BY <1>11, <1>i DEF DiskTypes
<1>13. /\ \A j \in Store!Inum : Truncating(j)' <=> Truncating(j)
       /\ \A j \in Store!Inum, y \in Store!Place : Gone(j, y)' <=> Gone(j, y)
    BY <1>1, <1>11, <1>i, GoneKept
<1>14. Store!Made' /\ Used = bitmap /\ Used' = bitmap'
    BY <1>1 DEF Store!Made, Used
<1>15. /\ DOMAIN inode' = Store!Inum /\ inode'[i].addrs = m.addrs /\ inode'[i].size = inode[i].size
       /\ \A j \in Store!Inum \ {i} : inode'[j] = inode[j]
    BY <1>3, <1>4, <1>i DEF DiskTypes
<1>16. Puts(i, bn, first, second, off, end, x)
    <2>1. /\ Store!Needed(inode[i], bn) > 0 => first \in Store!Block \ bitmap
          /\ Store!Needed(inode[i], bn) > 1 => second \in Store!Block \ bitmap /\ first # second
        BY <1>3, <1>4, <1>8, <1>10, <1>d, TwoFree
    <2>2. Used' = Used \cup m.new
        BY <1>3, <1>14
    <2> QED
        BY <1>3, <1>4, <1>8, <1>10, <1>13, <1>14, <1>15, <1>d, <2>1, <2>2 DEF Puts
<1>17. PICK b, ind, taken :
         /\ Stored(i, bn, b, ind, taken, off, end, x) /\ b \in Nat /\ b = m.block /\ taken = m.new
         /\ bn >= NDIRECT => m.addrs[NDIRECT + 1] = ind
    <2>1. Puts(i, bn, first, second, off, end, x)
        BY <1>16
    <2>2. m = Store!Bmap(inode[i], bn, first, second)
        BY <1>d
    <2>3. DiskTypes /\ UsedOnce
        BY <1>i
    <2>4. \E b, ind, taken :
             /\ Stored(i, bn, b, ind, taken, off, end, x) /\ b \in Nat
             /\ b = Store!Bmap(inode[i], bn, first, second).block
             /\ taken = Store!Bmap(inode[i], bn, first, second).new
             /\ bn >= NDIRECT => Store!Bmap(inode[i], bn, first, second).addrs[NDIRECT + 1] = ind
        BY <2>1, <2>3, PutsStores
    <2> QED
        BY <2>2, <2>4
<1>18. /\ Stored(i, bn, b, ind, taken, off, end, x)
       /\ m.block \in Nat /\ m.addrs[NDIRECT + 1] \in Nat
       /\ bn >= NDIRECT => m.addrs[NDIRECT + 1] = ind
    <2>1. inode'[i].addrs \in [1..(NDIRECT + 1) -> Nat]
        BY <1>17 DEF Stored
    <2> QED
        BY <1>15, <1>17, <2>1, PlacesAre
<1>19. UsedOnce' /\ UsedAll'
    BY <1>4, <1>8, <1>18, <1>i, OnceStored
<1>20. AllFilled'
    BY <1>3, <1>4, <1>5, <1>6, <1>7, <1>8, <1>10, <1>13, <1>18, <1>i, FilledStored
<1>21. /\ contents'[i] \in Seq(Nat) /\ contents' \in [Store!Inum -> Seq(Nat)]
       /\ Len(contents'[i]) = IF Len(contents[i]) >= end THEN Len(contents[i]) ELSE end
       /\ \A j \in Store!Inum \ {i} : contents'[j] = contents[j]
    <2>1. contents[i] \in Seq(Nat) /\ contents \in [Store!Inum -> Seq(Nat)]
        BY <1>4, <1>i DEF DiskTypes
    <2>2. PICK d : d = Store!InFile(contents[i], off, end, x)
        OBVIOUS
    <2>3. d \in Seq(Nat) /\ Len(d) = IF Len(contents[i]) >= end THEN Len(contents[i]) ELSE end
        <3>1. PICK c : c = contents[i]
            OBVIOUS
        <3>2. /\ c \in Seq(Nat) /\ off <= Len(c) /\ off \in Nat /\ end \in Nat /\ off < end
              /\ x \in Nat /\ d = Store!InFile(c, off, end, x)
            BY <1>4, <1>6, <1>7, <2>1, <2>2, <3>1
        <3>3. d \in Seq(Nat) /\ Len(d) = IF Len(c) >= end THEN Len(c) ELSE end
            BY <3>2, InFileIs
        <3> QED
            BY <3>1, <3>3
    <2>4. contents' = [contents EXCEPT ![i] = d]
        BY <1>3, <2>2
    <2> QED
        BY <1>4, <2>1, <2>3, <2>4
<1>22. l \in SUBSET Nat /\ logged'[p] = l /\ \A q \in Writers \ {p} : logged'[q] = logged[q]
    <2>1. Store!Bitmap \in Nat
        BY DEF Store!Bitmap, Formatted
    <2>2. l \in SUBSET Nat
        <3>1. l = logged[p] \cup {m.block} \cup
                (IF m.new = {} THEN {}
                 ELSE {Store!Bitmap} \cup IF bn < NDIRECT THEN {} ELSE {m.addrs[NDIRECT + 1]})
            BY <1>d
        <3> QED
            BY <1>4, <1>18, <2>1, <3>1
    <2> QED
        BY <1>3, <1>i, <2>2 DEF DiskTypes
<1>23. DiskTypes'
    <2>1. UNCHANGED <<Store!Inum, Store!Block>>
        BY DEF Store!Inum, Store!Block
    <2>2. disk' \in [Store!Block -> [1..BSIZE -> Nat]] /\ m.addrs \in [1..(NDIRECT + 1) -> Nat]
        BY <1>15, <1>18 DEF Stored
    <2>3. inode' \in [Store!Inum -> [size : Nat, addrs : [1..(NDIRECT + 1) -> Nat]]]
        <3>1. inode \in [Store!Inum -> [size : Nat, addrs : [1..(NDIRECT + 1) -> Nat]]]
            BY <1>i DEF DiskTypes
        <3>2. PICK a : a = [inode[i] EXCEPT !.addrs = m.addrs]
            OBVIOUS
        <3>3. a \in [size : Nat, addrs : [1..(NDIRECT + 1) -> Nat]]
            BY <1>4, <2>2, <3>1, <3>2
        <3>4. inode' = [inode EXCEPT ![i] = a]
            BY <1>3, <3>2
        <3> QED
            BY <1>4, <3>1, <3>3, <3>4
    <2>4. logged' \in [Writers -> SUBSET Nat]
        BY <1>3, <1>i, <1>22 DEF DiskTypes
    <2>5. job' \in [Writers -> [op : {"none", "wait", "write", "trunc"}, i : Store!Inum \cup {0},
                                off : Nat, n : Nat, left : Nat, k : Nat]]
        BY <1>11, <1>i DEF DiskTypes
    <2> QED
        BY <1>21, <2>1, <2>2, <2>3, <2>4, <2>5 DEF DiskTypes
<1>24. ImageTypes' /\ ImageOK' /\ Store!Made'
    BY <1>1, <1>4, ImageKept
<1>25. /\ m.block # 0 /\ m.block = Has(i, bn)'
       /\ bn >= NDIRECT => m.addrs[NDIRECT + 1] # 0 /\ m.addrs[NDIRECT + 1] = Has(i, MF)'
       /\ \A y \in Store!Place : Has(i, y) # 0 => Has(i, y)' = Has(i, y)
       /\ \A j \in Store!Inum \ {i}, y \in Store!Place : Has(j, y)' = Has(j, y)
    <2>1. 0 \in Used
        BY <1>i DEF UsedOnce, Formatted
    <2>2. bn \in Store!Place /\ MF \in Store!Place /\ bn # MF
        BY <1>8, PlacesAre
    <2>3. /\ taken \subseteq Store!Block \ Used
          /\ \/ Has(i, bn) = 0 /\ b \in taken
             \/ Has(i, bn) = b /\ b # 0 /\ taken = {}
          /\ bn >= NDIRECT =>
               \/ Has(i, MF) = 0 /\ taken = {ind, b} /\ ind # b
               \/ Has(i, MF) = ind /\ ind # 0 /\ taken \subseteq {b}
          /\ \A j \in Store!Inum, y \in Store!Place :
               Has(j, y)' = IF j = i /\ y = bn THEN b
                            ELSE IF j = i /\ y = MF /\ bn >= NDIRECT THEN ind ELSE Has(j, y)
        BY <1>18 DEF Stored
    <2> HIDE DEF MF
    <2>4. b # 0 /\ (bn >= NDIRECT => ind # 0)
        BY <2>1, <2>3
    <2>5. b = Has(i, bn)' /\ (bn >= NDIRECT => ind = Has(i, MF)')
        BY <1>4, <2>2, <2>3
    <2>6. \A y \in Store!Place : Has(i, y) # 0 => Has(i, y)' = Has(i, y)
        BY <1>4, <2>2, <2>3
    <2>7. \A j \in Store!Inum \ {i}, y \in Store!Place : Has(j, y)' = Has(j, y)
        BY <2>3
    <2> QED
        BY <1>17, <1>18, <2>4, <2>5, <2>6, <2>7
<1>26. LogFits(p)'
    <2>1. PICK f \in Nat :
            /\ Start(f) <= off /\ off + job[p].n <= Start(f + Store!MaxBlocks + 1)
            /\ \A c \in logged[p] :
                 \/ c = Store!Bitmap
                 \/ c # 0 /\ c = Has(i, MF)
                 \/ c # 0 /\ \E y \in f..(f + Store!MaxBlocks) : y \in DataPlace /\ c = Has(i, y)
        BY <1>7, <1>d DEF LogFits
    <2>2. Store!MaxBlocks \in Nat /\ (f + Store!MaxBlocks + 1) \in Nat
        BY DEF Formatted, Store!MaxBlocks
    <2>3. bn \in f..(f + Store!MaxBlocks)
        <3>1. Start(f + Store!MaxBlocks + 1) \in Nat
            BY <2>2, StartIs
        <3>2. ~(Start(f + Store!MaxBlocks + 1) <= off)
            BY <1>4, <2>1, <3>1
        <3>3. f <= bn /\ ~(f + Store!MaxBlocks + 1 <= bn)
            BY <1>4, <1>d, <2>1, <2>2, <3>2, StartCompared
        <3> QED
            BY <1>5, <2>2, <3>3
    <2>4. ASSUME NEW c \in l
          PROVE  \/ c = Store!Bitmap
                 \/ c # 0 /\ c = Has(i, MF)'
                 \/ c # 0 /\ \E y \in f..(f + Store!MaxBlocks) : y \in DataPlace /\ c = Has(i, y)'
        <3>1. CASE c \in logged[p]
            <4>1. MF \in Store!Place /\ DataPlace \subseteq Store!Place
                BY PlacesAre
            <4> HIDE DEF MF
            <4> QED
                BY <1>25, <2>1, <3>1, <4>1
        <3>2. CASE c \notin logged[p]
            <4>1. \/ c = m.block \/ c = Store!Bitmap
                  \/ bn >= NDIRECT /\ c = m.addrs[NDIRECT + 1]
                <5>1. bn \in Int /\ NDIRECT \in Int
                    BY <1>5 DEF Formatted
                <5>2. l = logged[p] \cup {m.block} \cup
                            (IF m.new = {} THEN {}
                             ELSE {Store!Bitmap} \cup
                                    IF bn < NDIRECT THEN {} ELSE {m.addrs[NDIRECT + 1]})
                    BY <1>d
                <5> QED
                    BY <3>2, <5>1, <5>2
            <4> HIDE DEF MF
            <4> QED
                BY <1>8, <1>25, <2>3, <4>1
        <3> QED
            BY <3>1, <3>2
    <2>5. /\ Start(f)' = Start(f)
          /\ UNCHANGED <<DataPlace, Store!MaxBlocks, Store!MAXFILE, Store!Bitmap>>
          /\ Start(f + Store!MaxBlocks + 1)' = Start(f + Store!MaxBlocks + 1)
        BY DEF Start, Store!MaxBlocks, DataPlace, Store!MAXFILE, Store!NINDIRECT, Store!Bitmap
    <2>6. job'[p].i = i /\ job'[p].off = end /\ job'[p].n = r.n /\ logged'[p] = l
        BY <1>11, <1>12, <1>22
    <2>7. Start(f) <= end /\ end + r.n <= Start(f + Store!MaxBlocks + 1)
        <3>1. Start(f) \in Nat
            BY StartIs
        <3> QED
            BY <1>4, <1>6, <1>11, <2>1, <3>1
    <2>8. \A c \in l : \/ c = Store!Bitmap
                       \/ c # 0 /\ c = Has(i, MF)'
                       \/ c # 0 /\ \E y \in f..(f + Store!MaxBlocks) :
                                     y \in DataPlace /\ c = Has(i, y)'
        BY <2>4
    <2> QED
        BY <2>5, <2>6, <2>7, <2>8 DEF LogFits
<1>27. WriteOK(p)'
    <2>1. /\ job'[p].i = i /\ job'[p].off = end /\ job'[p].n = r.n
        BY <1>11, <1>12
    <2>2. \A q \in Writers : job'[q].op = "write" /\ job'[q].i = i => q = p
        BY <1>7, <1>12
    <2>3. end + r.n <= Start(MF) /\ UNCHANGED Start(MF)
        BY <1>7, <1>11 DEF Start, Store!MAXFILE, Store!NINDIRECT
    <2>4. /\ end <= Len(contents'[i])
          /\ Len(contents'[i]) = Store!NewSize(inode'[i].size, end)
        <3>1. inode[i].size \in Nat /\ Len(contents[i]) \in Nat
            BY <1>4, <1>i DEF DiskTypes
        <3> QED
            BY <1>4, <1>6, <1>7, <1>15, <1>21, <3>1 DEF Store!NewSize
    <2> QED
        BY <1>26, <2>1, <2>2, <2>3, <2>4 DEF WriteOK, Store!NewSize
<1>28. JobOK(p)'
    <2>1. i # 0
        BY <1>4 DEF Store!Inum
    <2> QED
        BY <1>1, <1>4, <1>11, <1>12, <1>24, <1>27, <2>1 DEF JobOK
<1>29. ASSUME NEW q \in Writers \ {p} PROVE JobOK(q)'
    <2>1. job[q].op # "none" => job[q].i \in Store!Inum
        BY JobIs
    <2>2. job[q].op # "none" /\ ops > 0 => Store!Made' /\ ops' > 0
        BY <1>1, <1>24
    <2>3. /\ \A s \in Writers \ {p} : job'[s] = job[s]
          /\ logged'[q] = logged[q]
        BY <1>12, <1>22
    <2>4. job[q].op \in {"write", "trunc"} => job'[p].i # job[q].i
        BY <1>9, <1>11, <1>12
    <2>5. job[q].op \in {"write", "trunc"} =>
            /\ contents'[job[q].i] = contents[job[q].i] /\ inode'[job[q].i] = inode[job[q].i]
            /\ \A y \in Store!Place : Has(job[q].i, y)' = Has(job[q].i, y)
        <3>1. job'[q].i = job[q].i
            BY <1>12
        <3> QED
            BY <1>9, <1>15, <1>21, <1>25, <2>1, <3>1
    <2>6. job[q].op = "wait" /\ job[q].off <= inode[job[q].i].size =>
             job[q].off <= inode'[job[q].i].size
        <3>1. job[q].op = "wait" => inode'[job[q].i].size = inode[job[q].i].size
            BY <1>15, <2>1
        <3> QED
            BY <3>1
    <2> QED
        BY <1>i, <2>2, <2>3, <2>4, <2>5, <2>6, OtherJob
<1>30. SizesOK'
    <2>1. \A j \in Store!Inum : Store!Locked(j) => Store!Locked(j)'
        BY <1>1, <1>11, <1>12 DEF Store!Locked
    <2>2. Store!Locked(i)
        BY <1>1, <1>d DEF Store!Locked
    <2>3. UNCHANGED Store!Inum
        BY DEF Store!Inum
    <2> QED
        BY <1>15, <1>21, <1>i, <2>1, <2>2, <2>3 DEF SizesOK
<1> QED
    BY <1>19, <1>20, <1>23, <1>24, <1>28, <1>29, <1>30 DEF StoreIInv, JobsOK

-----------------------------------------------------------------------------
(* itrunc(), step by step *)

\* What the invariant says of a process in itrunc(): only it has the file, and what it
\* has freed is gone.
LEMMA TruncIs ==
    ASSUME Formatted, StoreIInv, NEW p \in Writers, job[p].op = "trunc", NEW i, i = job[p].i
    PROVE  /\ i \in Store!Inum /\ TruncOK(p) /\ ops > 0 /\ job[p].k \in Nat
           /\ \A q \in Writers \ {p} : job[q].i # i
           /\ \A y : Gone(i, y) <=> y < job[p].k
           /\ \A y \in Store!Place : y \in Nat
<1>1. i \in Store!Inum /\ TruncOK(p) /\ ops > 0 /\ job[p].k \in Nat
    BY JobIs DEF JobOK
<1>2. \A q \in Writers \ {p} : job[q].i # i
    BY <1>1 DEF TruncOK
<1>3. \A y : Gone(i, y) <=> y < job[p].k
    BY <1>2 DEF Gone
<1>4. \A y \in Store!Place : y \in Nat
    BY PlacesAre DEF Store!Place
<1> QED
    BY <1>1, <1>2, <1>3, <1>4

\* The other processes while one truncates file i.
LEMMA OthersTruncating ==
    ASSUME Formatted, StoreIInv, NEW p \in Writers, job[p].op = "trunc", NEW i, i = job[p].i,
           \A q \in Writers \ {p} : job'[q] = job[q] /\ logged'[q] = logged[q],
           job'[p].i \in {i, 0}, job'[p].op # "write", UNCHANGED <<contents, ops>>, Store!Made',
           \A j \in Store!Inum \ {i} : inode'[j] = inode[j],
           \A j \in Store!Inum \ {i}, y \in Store!Place : Has(j, y)' = Has(j, y),
           NEW q \in Writers \ {p}
    PROVE  JobOK(q)'
<1>1. job[q].op # "none" => job[q].i \in Store!Inum \ {i}
    BY TruncIs, JobIs
<1>2. \A s \in Writers \ {p} : job'[s] = job[s]
    OBVIOUS
<1>3. job[q].op # "none" => job'[p].i # job[q].i
    BY <1>1 DEF Store!Inum
<1>4. job[q].op \in {"write", "trunc"} =>
        /\ inode'[job[q].i] = inode[job[q].i]
        /\ \A y \in Store!Place : Has(job[q].i, y)' = Has(job[q].i, y)
    <2>1. job'[q].i = job[q].i
        BY <1>2
    <2> QED
        BY <1>1, <2>1
<1>5. job[q].op = "wait" => inode'[job[q].i] = inode[job[q].i]
    BY <1>1
<1>6. JobsOK
    BY DEF StoreIInv
<1> QED
    BY <1>2, <1>3, <1>4, <1>5, <1>6, OtherJob

\* bfree() of a block keeps the invariant.
LEMMA BfreeKeeps ==
    ASSUME Formatted, StoreIInv, Store!Made, NEW p \in Writers, NEW x \in Store!Place,
           Store!Bfree(p, x)
    PROVE  StoreIInv'
<1>d. SUFFICES ASSUME NEW i, i = job[p].i, NEW b, b = Store!BlockAt(disk, inode[i], x),
                      NEW r, r = [job[p] EXCEPT !.k = x + 1]
               PROVE  StoreIInv'
    OBVIOUS
<1> DEFINE MF == Store!MAXFILE
<1>i. DiskTypes /\ ImageTypes /\ JobsOK /\ SizesOK /\ UsedOnce /\ UsedAll /\ AllFilled
    BY DEF StoreIInv
<1>1. /\ job[p].op = "trunc" /\ job[p].k <= x /\ b # 0
      /\ \A y \in (job[p].k)..(x - 1) : Store!BlockAt(disk, inode[i], y) = 0
      /\ bitmap' = bitmap \ {b}
      /\ inode' = IF x < NDIRECT THEN [inode EXCEPT ![i].addrs[x + 1] = 0]
                  ELSE IF x = MF THEN [inode EXCEPT ![i].addrs[NDIRECT + 1] = 0]
                  ELSE inode
      /\ job' = [job EXCEPT ![p].k = x + 1]
      /\ logged' = [logged EXCEPT ![p] = @ \cup {Store!Bitmap}]
      /\ UNCHANGED <<image, disk, contents, ops>>
    BY <1>d, Zenon DEF Store!Bfree, Store!NoneFrom, Store!NoBlock, Store!Freed
<1>2. /\ i \in Store!Inum /\ TruncOK(p) /\ ops > 0 /\ job[p].k \in Nat
      /\ \A q \in Writers \ {p} : job[q].i # i
      /\ \A y : Gone(i, y) <=> y < job[p].k
      /\ \A y \in Store!Place : y \in Nat
    BY <1>1, <1>d, TruncIs
<1>3. /\ job' = [job EXCEPT ![p] = r] /\ r.op = "trunc" /\ r.i = i /\ r.k = x + 1
      /\ r \in [op : {"none", "wait", "write", "trunc"}, i : Store!Inum \cup {0},
                off : Nat, n : Nat, left : Nat, k : Nat]
    <2>1. job[p] \in [op : {"none", "wait", "write", "trunc"}, i : Store!Inum \cup {0},
                off : Nat, n : Nat, left : Nat, k : Nat]
        BY <1>i DEF DiskTypes
    <2>2. x + 1 \in Nat
        BY <1>2
    <2>3. job' = [job EXCEPT ![p] = r]
        BY <1>1, <1>d, <1>i DEF DiskTypes
    <2>4. PICK w : w = x + 1
        OBVIOUS
    <2>5. r = [job[p] EXCEPT !.k = w]
        BY <1>d, <2>4
    <2> QED
        BY <1>1, <1>d, <2>1, <2>2, <2>3, <2>4, <2>5
<1>4. /\ job'[p] = r /\ \A q \in Writers \ {p} : job'[q] = job[q]
      /\ logged'[p] = logged[p] \cup {Store!Bitmap}
      /\ \A q \in Writers \ {p} : logged'[q] = logged[q]
    BY <1>1, <1>3, <1>i DEF DiskTypes
<1>5. /\ \A j \in Store!Inum : Truncating(j)' <=> Truncating(j)
      /\ \A j \in Store!Inum \ {i}, y \in Store!Place : Gone(j, y)' <=> Gone(j, y)
      /\ \A y \in Store!Place : Gone(i, y)' <=> y < x + 1
    <2>1. \A q \in Writers : job'[q].op = job[q].op /\ job'[q].i = job[q].i
        BY <1>1, <1>3, <1>4, <1>d
    <2>2. \A j : Truncating(j)' <=> Truncating(j)
        BY <2>1 DEF Truncating
    <2>3. \A j \in Store!Inum \ {i} : \A y : Gone(j, y)' <=> Gone(j, y)
        BY <1>3, <1>4, <1>d, <2>1 DEF Gone
    <2>4. \A y \in Store!Place : Gone(i, y)' <=> y < x + 1
        BY <1>2, <1>3, <1>4, <2>1 DEF Gone
    <2> QED
        BY <2>2, <2>3, <2>4
<1>6. /\ inode' \in [Store!Inum -> [size : Nat, addrs : [1..(NDIRECT + 1) -> Nat]]]
      /\ inode'[i].size = inode[i].size
      /\ \A j \in Store!Inum \ {i} : inode'[j] = inode[j]
      /\ \A w \in 1..(NDIRECT + 1) :
           inode'[i].addrs[w] =
             IF (x < NDIRECT /\ w = x + 1) \/ (x = MF /\ w = NDIRECT + 1) THEN 0
             ELSE inode[i].addrs[w]
    <2> HIDE DEF MF
    <2>1. inode \in [Store!Inum -> [size : Nat, addrs : [1..(NDIRECT + 1) -> Nat]]]
        BY <1>i DEF DiskTypes
    <2>2. MF \in Nat /\ NDIRECT \in Nat /\ NDIRECT < MF
        BY PlacesAre DEF MF
    <2>3. CASE x < NDIRECT
        <3>1. PICK w : w = x + 1
            OBVIOUS
        <3>2. inode' = [inode EXCEPT ![i].addrs[w] = 0]
            BY <1>1, <2>3, <3>1
        <3>3. w \in 1..(NDIRECT + 1)
            BY <1>2, <2>2, <2>3, <3>1
        <3>4. \A v \in 1..(NDIRECT + 1) :
                inode'[i].addrs[v] = IF v = w THEN 0 ELSE inode[i].addrs[v]
            BY <1>2, <2>1, <3>2, <3>3
        <3>5. /\ inode' \in [Store!Inum -> [size : Nat, addrs : [1..(NDIRECT + 1) -> Nat]]]
              /\ inode'[i].size = inode[i].size
              /\ \A j \in Store!Inum \ {i} : inode'[j] = inode[j]
            BY <1>2, <2>1, <3>2, <3>3
        <3>6. \A v : ((x < NDIRECT /\ v = x + 1) \/ (x = MF /\ v = NDIRECT + 1)) <=> v = w
            <4>1. x \in Nat /\ x # MF
                BY <1>2, <2>2, <2>3
            <4> QED
                BY <2>3, <3>1, <4>1
        <3> QED
            BY <3>4, <3>5, <3>6
    <2>4. CASE ~(x < NDIRECT) /\ x = MF
        <3>1. PICK w : w = NDIRECT + 1
            OBVIOUS
        <3>2. inode' = [inode EXCEPT ![i].addrs[w] = 0]
            BY <1>1, <2>4, <3>1
        <3>3. w \in 1..(NDIRECT + 1)
            BY <2>2, <3>1
        <3>4. \A v \in 1..(NDIRECT + 1) :
                inode'[i].addrs[v] = IF v = w THEN 0 ELSE inode[i].addrs[v]
            BY <1>2, <2>1, <3>2, <3>3
        <3>5. /\ inode' \in [Store!Inum -> [size : Nat, addrs : [1..(NDIRECT + 1) -> Nat]]]
              /\ inode'[i].size = inode[i].size
              /\ \A j \in Store!Inum \ {i} : inode'[j] = inode[j]
            BY <1>2, <2>1, <3>2, <3>3
        <3> QED
            BY <2>4, <3>1, <3>4, <3>5
    <2>5. CASE ~(x < NDIRECT) /\ x # MF
        BY <1>1, <2>1, <2>5
    <2> QED
        BY <2>3, <2>4, <2>5
<1>7. /\ Has(i, x) = b
      /\ \A y \in Store!Place : y < x => Has(i, y) = 0
      /\ \A y \in Store!Place : ~(y < job[p].k) => Has(i, y) = Store!BlockAt(disk, inode[i], y)
    <2>1. \A y \in Store!Place : Has(i, y) =
             IF y < job[p].k THEN 0 ELSE Store!BlockAt(disk, inode[i], y)
        BY <1>2, HasIs
    <2>2. \A y \in Store!Place : y < x => Has(i, y) = 0
        <3> SUFFICES ASSUME NEW y \in Store!Place, y < x, ~(y < job[p].k) PROVE Has(i, y) = 0
            BY <2>1
        <3>1. y \in (job[p].k)..(x - 1)
            BY <1>2
        <3> QED
            BY <1>1, <2>1, <3>1
    <2>3. ~(x < job[p].k)
        BY <1>1, <1>2
    <2> QED
        BY <1>d, <2>1, <2>2, <2>3
<1>8. ASSUME NEW y \in Store!Place PROVE Has(i, y)' = IF y <= x THEN 0 ELSE Has(i, y)
    <2>1. Has(i, y)' = IF Gone(i, y)' THEN 0 ELSE Store!BlockAt(disk', inode'[i], y)
        BY <1>2, HasBecomes
    <2>2. CASE y <= x
        <3>1. Gone(i, y)'
            BY <1>2, <1>5, <2>2
        <3> QED
            BY <2>1, <2>2, <3>1
    <2>3. CASE ~(y <= x)
        <3>1. ~Gone(i, y)' /\ ~(y < job[p].k) /\ y > x
            BY <1>1, <1>2, <1>5, <2>3
        <3>2. Store!BlockAt(disk', inode'[i], y) = Store!BlockAt(disk, inode[i], y)
            <4>1. y <= MF /\ MF \in Nat /\ NDIRECT \in Nat /\ NDIRECT < MF /\ x # MF
                <5>1. y \in 0..MF /\ MF \in Nat /\ NDIRECT \in Nat /\ NDIRECT < MF
                    BY PlacesAre DEF Store!Place
                <5> HIDE DEF MF
                <5> QED
                    BY <1>2, <3>1, <5>1
            <4>2. inode'[i].addrs[NDIRECT + 1] = inode[i].addrs[NDIRECT + 1]
                <5>1. NDIRECT + 1 \in 1..(NDIRECT + 1) /\ ~(x < NDIRECT /\ NDIRECT + 1 = x + 1)
                    BY <1>2, <4>1
                <5> HIDE DEF MF
                <5> QED
                    BY <1>6, <4>1, <5>1
            <4>3. y < NDIRECT => inode'[i].addrs[y + 1] = inode[i].addrs[y + 1]
                <5>1. y < NDIRECT => y + 1 \in 1..(NDIRECT + 1) /\ y + 1 # x + 1
                    BY <1>2, <3>1, <4>1
                <5> HIDE DEF MF
                <5> QED
                    BY <1>6, <4>1, <5>1
            <4>4. disk' = disk
                BY <1>1
            <4> QED
                BY <4>2, <4>3, <4>4, BlockAtIs
        <3> QED
            BY <1>7, <2>1, <2>3, <3>1, <3>2
    <2> QED
        BY <2>2, <2>3
<1>9. \A y \in Store!Place : Has(i, y)' = IF y = x THEN 0 ELSE Has(i, y)
    <2> SUFFICES ASSUME NEW y \in Store!Place PROVE Has(i, y)' = IF y = x THEN 0 ELSE Has(i, y)
        OBVIOUS
    <2>1. y < x \/ y = x \/ ~(y <= x)
        BY <1>2
    <2>2. y < x => y <= x /\ y # x
        BY <1>2
    <2>3. y = x => y <= x
        BY <1>2
    <2> QED
        BY <1>7, <1>8, <2>1, <2>2, <2>3
<1>10. \A j \in Store!Inum \ {i}, y \in Store!Place : Has(j, y)' = Has(j, y)
    BY <1>1, <1>5, <1>6, HasKept
<1>11. Store!Made' /\ Used = bitmap /\ Used' = Used \ {b}
    BY <1>1 DEF Store!Made, Used
<1>12. UNCHANGED <<Store!Block, Store!Inum, Store!Place>>
    BY DEF Store!Block, Store!Inum, Store!Place, Store!MAXFILE, Store!NINDIRECT
<1>13. UsedOnce' /\ UsedAll'
    <2>1. /\ 0..(nmeta - 1) \subseteq Used /\ Used \subseteq Store!Block
          /\ \A j \in Store!Inum, y \in Store!Place :
               Has(j, y) # 0 => Has(j, y) \in Used /\ Has(j, y) >= nmeta
          /\ \A j \in Store!Inum, y \in Store!Place, k \in Store!Inum, z \in Store!Place :
               Has(j, y) # 0 /\ Has(j, y) = Has(k, z) => j = k /\ y = z
        BY <1>i DEF UsedOnce
    <2>2. b \notin 0..(nmeta - 1)
        <3>1. b >= nmeta /\ b \in Store!Block
            BY <1>1, <1>2, <1>7, <2>1
        <3> QED
            BY <3>1 DEF Formatted, Store!Block
    <2>3. ASSUME NEW j \in Store!Inum, NEW y \in Store!Place
          PROVE  Has(j, y)' = IF Has(j, y) = b THEN 0 ELSE Has(j, y)
        <3>1. Has(j, y) = b <=> j = i /\ y = x
            BY <1>1, <1>2, <1>7, <2>1
        <3> QED
            BY <1>9, <1>10, <3>1
    <2>4. \A c \in Used' : c >= nmeta => \E j \in Store!Inum, y \in Store!Place : Has(j, y)' = c
        <3> SUFFICES ASSUME NEW c \in Used, c # b, c >= nmeta
                     PROVE  \E j \in Store!Inum, y \in Store!Place : Has(j, y)' = c
            BY <1>11
        <3>1. PICK j \in Store!Inum, y \in Store!Place : Has(j, y) = c
            BY <1>i DEF UsedAll
        <3> QED
            BY <2>3, <3>1
    <2>5. /\ 0..(nmeta - 1) \subseteq Used' /\ Used' \subseteq Store!Block
        BY <1>11, <2>1, <2>2
    <2>6. \A j \in Store!Inum, y \in Store!Place :
               Has(j, y)' # 0 => Has(j, y)' \in Used' /\ Has(j, y)' >= nmeta
        BY <1>11, <2>1, <2>3
    <2>7. ASSUME NEW j \in Store!Inum, NEW y \in Store!Place,
                 NEW k \in Store!Inum, NEW z \in Store!Place,
                 Has(j, y)' # 0, Has(j, y)' = Has(k, z)'
          PROVE  j = k /\ y = z
        <3>1. Has(j, y) # 0 /\ Has(j, y) = Has(k, z)
            BY <2>3, <2>7
        <3> QED
            BY <2>1, <3>1
    <2>8. UsedOnce'
        BY <1>12, <2>5, <2>6, <2>7 DEF UsedOnce
    <2>9. UsedAll'
        BY <1>12, <2>4 DEF UsedAll
    <2> QED
        BY <2>8, <2>9
<1>14. AllFilled'
    <2>1. Truncating(i)
        BY <1>1, <1>d DEF Truncating
    <2>2. \A j \in Store!Inum \ {i} : Filled(j) => Filled(j)'
        BY <1>1, <1>10, FileKept
    <2> QED
        BY <1>2, <1>5, <1>12, <1>i, <2>1, <2>2 DEF AllFilled
<1>15. DiskTypes'
    <2>1. Store!Bitmap \in Nat
        BY DEF Store!Bitmap, Formatted
    <2>2. job' \in [Writers -> [op : {"none", "wait", "write", "trunc"}, i : Store!Inum \cup {0},
                                off : Nat, n : Nat, left : Nat, k : Nat]]
        BY <1>3, <1>i DEF DiskTypes
    <2>3. logged' \in [Writers -> SUBSET Nat]
        BY <1>1, <1>i, <2>1 DEF DiskTypes
    <2> QED
        BY <1>1, <1>6, <1>12, <1>i, <2>2, <2>3 DEF DiskTypes
<1>16. ImageTypes' /\ ImageOK' /\ Store!Made'
    BY <1>1, <1>2, <1>i, ImageKept DEF ImageTypes
<1>17. JobOK(p)'
    <2>1. TruncOK(p)'
        <3>1. /\ contents[i] = <<>> /\ logged[p] \subseteq {Store!Bitmap}
              /\ \A y \in DataPlace : y < job[p].k /\ y < NDIRECT => inode[i].addrs[y + 1] = 0
              /\ job[p].k > MF => inode[i].addrs[NDIRECT + 1] = 0
            BY <1>2, <1>d DEF TruncOK
        <3>2. ASSUME NEW y \in DataPlace, y < x + 1, y < NDIRECT PROVE inode'[i].addrs[y + 1] = 0
            <4>1. y \in Store!Place /\ y \in Nat /\ y + 1 \in 1..(NDIRECT + 1) /\ NDIRECT \in Nat
                BY <3>2, PlacesAre
            <4>2. CASE y = x
                <5>1. PICK w : w = x + 1
                    OBVIOUS
                <5>2. inode'[i].addrs[w] = 0
                    <6>1. w \in 1..(NDIRECT + 1) /\ x < NDIRECT
                        BY <3>2, <4>1, <4>2, <5>1
                    <6> QED
                        BY <1>6, <5>1, <6>1
                <5> QED
                    BY <4>2, <5>1, <5>2
            <4>3. CASE y # x
                <5>1. y < x
                    BY <1>2, <3>2, <4>1, <4>3
                <5>2. inode[i].addrs[y + 1] = 0
                    <6>1. CASE y < job[p].k
                        BY <3>1, <3>2, <6>1
                    <6>2. CASE ~(y < job[p].k)
                        <7>1. Store!BlockAt(disk, inode[i], y) = 0
                            BY <1>7, <4>1, <5>1, <6>2
                        <7>2. y # MF
                            BY PlacesAre
                        <7> QED
                            BY <3>2, <4>1, <7>1, <7>2, BlockAtIs
                    <6> QED
                        BY <6>1, <6>2
                <5>3. PICK w : w = y + 1
                    OBVIOUS
                <5>4. w \in 1..(NDIRECT + 1) /\ inode[i].addrs[w] = 0
                    BY <4>1, <5>2, <5>3
                <5>5. inode'[i].addrs[w] = 0
                    BY <1>6, <5>4
                <5> QED
                    BY <5>3, <5>5
            <4> QED
                BY <4>2, <4>3
        <3>3. ASSUME x + 1 > MF PROVE inode'[i].addrs[NDIRECT + 1] = 0
            <4>1. x \in 0..MF /\ MF \in Nat /\ NDIRECT + 1 \in 1..(NDIRECT + 1)
                BY PlacesAre DEF Store!Place
            <4>2. x = MF
                <5> HIDE DEF MF
                <5> QED
                    BY <3>3, <4>1
            <4> QED
                BY <1>6, <4>1, <4>2
        <3>4. \A q \in Writers : job'[q].i = i => q = p
            BY <1>2, <1>4
        <3>5. UNCHANGED <<DataPlace, Store!MAXFILE, Store!Bitmap>>
            BY DEF DataPlace, Store!MAXFILE, Store!NINDIRECT, Store!Bitmap
        <3>6. /\ job'[p].i = i /\ job'[p].k = x + 1 /\ contents'[i] = <<>>
              /\ logged'[p] \subseteq {Store!Bitmap}
            BY <1>1, <1>3, <1>4, <3>1
        <3>7. \A y \in DataPlace : y < x + 1 /\ y < NDIRECT => inode'[i].addrs[y + 1] = 0
            BY <3>2
        <3> QED
            BY <3>3, <3>4, <3>5, <3>6, <3>7 DEF TruncOK
    <2>2. i # 0
        BY <1>2 DEF Store!Inum
    <2> QED
        BY <1>1, <1>2, <1>3, <1>4, <1>16, <2>1, <2>2 DEF JobOK
<1>18. ASSUME NEW q \in Writers \ {p} PROVE JobOK(q)'
    <2>1. \A s \in Writers \ {p} : job'[s] = job[s] /\ logged'[s] = logged[s]
        BY <1>4
    <2>2. job'[p].i \in {i, 0} /\ job'[p].op # "write"
        BY <1>3, <1>4
    <2>3. \A j \in Store!Inum \ {i} : inode'[j] = inode[j]
        BY <1>6
    <2> QED
        <3>1. job[p].op = "trunc" /\ i = job[p].i /\ UNCHANGED <<contents, ops>> /\ Store!Made'
            BY <1>1, <1>16, <1>d
        <3> QED
            BY <1>10, <2>1, <2>2, <2>3, <3>1, OthersTruncating
<1>19. SizesOK'
    <2>1. \A j \in Store!Inum : Store!Locked(j) => Store!Locked(j)'
        <3>1. \A q \in Writers : job'[q].op = job[q].op /\ job'[q].i = job[q].i
            BY <1>1, <1>3, <1>4, <1>d
        <3> QED
            BY <3>1 DEF Store!Locked
    <2>2. \A j \in Store!Inum : inode'[j].size = inode[j].size
        BY <1>6
    <2> QED
        BY <1>1, <1>12, <1>i, <2>1, <2>2 DEF SizesOK
<1> QED
    BY <1>13, <1>14, <1>15, <1>16, <1>17, <1>18, <1>19 DEF StoreIInv, JobsOK

\* The end of itrunc() keeps it: the file has no block, nor a size.
LEMMA TruncatedKeeps ==
    ASSUME Formatted, StoreIInv, Store!Made, NEW p \in Writers, Store!Truncated(p)
    PROVE  StoreIInv'
<1>d. SUFFICES ASSUME NEW i, i = job[p].i
               PROVE  StoreIInv'
    OBVIOUS
<1> DEFINE MF == Store!MAXFILE
<1>i. DiskTypes /\ ImageTypes /\ JobsOK /\ SizesOK /\ UsedOnce /\ UsedAll /\ AllFilled
    BY DEF StoreIInv
<1>1. /\ job[p].op = "trunc"
      /\ \A y \in (job[p].k)..MF : Store!BlockAt(disk, inode[i], y) = 0
      /\ inode' = [inode EXCEPT ![i].size = 0]
      /\ job' = [job EXCEPT ![p] = Store!Idle] /\ logged' = [logged EXCEPT ![p] = {}]
      /\ UNCHANGED <<image, bitmap, disk, contents, ops>>
    BY <1>d, Zenon DEF Store!Truncated, Store!NoneFrom, Store!NoBlock
<1>2. /\ i \in Store!Inum /\ TruncOK(p) /\ ops > 0 /\ job[p].k \in Nat
      /\ \A q \in Writers \ {p} : job[q].i # i
      /\ \A y : Gone(i, y) <=> y < job[p].k
      /\ \A y \in Store!Place : y \in Nat
    BY <1>1, <1>d, TruncIs
<1>3. /\ Store!Idle.op = "none" /\ Store!Idle.i = 0
      /\ Store!Idle \in [op : {"none", "wait", "write", "trunc"}, i : Store!Inum \cup {0},
                         off : Nat, n : Nat, left : Nat, k : Nat]
    BY DEF Store!Idle, Store!NoInode
<1>4. /\ inode' \in [Store!Inum -> [size : Nat, addrs : [1..(NDIRECT + 1) -> Nat]]]
      /\ inode'[i].size = 0 /\ inode'[i].addrs = inode[i].addrs
      /\ \A j \in Store!Inum \ {i} : inode'[j] = inode[j]
    BY <1>1, <1>2, <1>i DEF DiskTypes
<1>5. /\ DiskTypes' /\ job'[p] = Store!Idle /\ logged'[p] = {}
      /\ \A q \in Writers \ {p} : job'[q] = job[q] /\ logged'[q] = logged[q]
    <2>1. /\ UNCHANGED <<disk, contents>> /\ job' = [job EXCEPT ![p] = Store!Idle]
          /\ logged' = [logged EXCEPT ![p] = {}] /\ {} \in SUBSET Nat
        BY <1>1
    <2> QED
        BY <1>3, <1>4, <1>i, <2>1, JobTyped
<1>6. /\ ~Truncating(i)' /\ \A y : ~Gone(i, y)'
      /\ \A j \in Store!Inum \ {i} : Truncating(j)' <=> Truncating(j)
      /\ \A j \in Store!Inum \ {i}, y \in Store!Place : Gone(j, y)' <=> Gone(j, y)
    BY <1>2, <1>3, <1>5, <1>d DEF Truncating, Gone
<1>7. inode[i].addrs[NDIRECT + 1] = 0
    <2>1. MF \in Nat /\ MF \in Store!Place
        BY PlacesAre
    <2>2. CASE job[p].k > MF
        BY <1>2, <1>d, <2>2 DEF TruncOK
    <2>3. CASE ~(job[p].k > MF)
        <3>1. MF \in (job[p].k)..MF
            <4> HIDE DEF MF
            <4> QED
                BY <1>2, <2>1, <2>3
        <3>2. Store!BlockAt(disk, inode[i], MF) = 0
            BY <1>1, <3>1
        <3> QED
            BY <2>1, <3>2, BlockAtIs
    <2> QED
        BY <2>2, <2>3
<1>8. \A y \in Store!Place : Store!BlockAt(disk, inode[i], y) = 0
    <2> SUFFICES ASSUME NEW y \in Store!Place, y < NDIRECT
                 PROVE  Store!BlockAt(disk, inode[i], y) = 0
        BY <1>7, BlockAtIs
    <2>1. /\ y \in DataPlace /\ y \in Nat /\ y # MF /\ NDIRECT \in Nat /\ NDIRECT < MF /\ MF \in Nat
          /\ y \in DataPlace \/ y = MF
        BY <1>2, PlacesAre
    <2>2. CASE y < job[p].k
        <3>1. inode[i].addrs[y + 1] = 0
            BY <1>2, <1>d, <2>1, <2>2 DEF TruncOK
        <3> QED
            BY <2>1, <3>1, BlockAtIs
    <2>3. CASE ~(y < job[p].k)
        <3>1. y \in (job[p].k)..MF
            <4> HIDE DEF MF
            <4> QED
                BY <1>2, <2>1, <2>3
        <3> QED
            BY <1>1, <3>1
    <2> QED
        BY <2>2, <2>3
<1>9. \A y \in Store!Place : Has(i, y)' = 0 /\ Has(i, y) = 0
    <2> SUFFICES ASSUME NEW y \in Store!Place PROVE Has(i, y)' = 0 /\ Has(i, y) = 0
        OBVIOUS
    <2>1. Has(i, y)' = Store!BlockAt(disk', inode'[i], y)
        BY <1>2, <1>6, HasBecomes
    <2>2. Store!BlockAt(disk', inode'[i], y) = Store!BlockAt(disk, inode[i], y)
        BY <1>1, <1>4, BlockAtIs
    <2> QED
        BY <1>2, <1>8, <2>1, <2>2, HasIs
<1>10. \A j \in Store!Inum \ {i}, y \in Store!Place : Has(j, y)' = Has(j, y)
    BY <1>1, <1>4, <1>6, HasKept
<1>11. UsedOnce' /\ UsedAll'
    <2>1. Used' = Used
        BY <1>1 DEF Used, Store!Made
    <2>2. \A j \in Store!Inum, y \in Store!Place : Has(j, y)' = Has(j, y)
        BY <1>9, <1>10
    <2> QED
        BY <1>i, <2>1, <2>2, OnceKept
<1>12. /\ UNCHANGED <<Store!Inum, Store!Place, DataPlace, Store!MAXFILE>>
       /\ \A y : Start(y)' = Start(y)
    BY DEF Store!Inum, Store!Place, DataPlace, Store!MAXFILE, Store!NINDIRECT, Start
<1>13. contents'[i] = <<>> /\ Len(contents'[i]) = 0
    BY <1>1, <1>2, <1>d DEF TruncOK
<1>14. AllFilled'
    <2>1. Filled(i)'
        <3>1. \A y \in DataPlace : y \in Store!Place /\ Start(y) \in Nat
            BY PlacesAre, StartIs
        <3>2. Start(NDIRECT) \in Nat /\ Start(MF) \in Nat /\ MF \in Store!Place
            BY PlacesAre, StartIs
        <3>3. \A y \in Store!Place : Has(i, y)' = 0
            BY <1>9
        <3>4. \A y \in DataPlace : ~(Has(i, y)' # 0) /\ ~(Start(y) < 0)
            BY <3>1, <3>3
        <3>5. ~(Has(i, MF)' # 0) /\ ~(Start(NDIRECT) < 0) /\ 0 <= Start(MF)
            BY <3>2, <3>3
        <3> QED
            BY <1>12, <1>13, <3>4, <3>5 DEF Filled
    <2>2. \A j \in Store!Inum \ {i} : Filled(j) => Filled(j)'
        BY <1>1, <1>10, FileKept
    <2> QED
        BY <1>2, <1>6, <1>12, <1>i, <2>1, <2>2 DEF AllFilled
<1>15. ImageTypes' /\ ImageOK' /\ Store!Made'
    BY <1>1, <1>2, <1>i, ImageKept DEF ImageTypes
<1>16. JobOK(p)'
    BY <1>3, <1>5 DEF JobOK
<1>17. ASSUME NEW q \in Writers \ {p} PROVE JobOK(q)'
    <2>1. job'[p].i \in {i, 0} /\ job'[p].op # "write"
        BY <1>3, <1>5
    <2>2. \A j \in Store!Inum \ {i} : inode'[j] = inode[j]
        BY <1>4
    <2>3. \A s \in Writers \ {p} : job'[s] = job[s] /\ logged'[s] = logged[s]
        BY <1>5
    <2> QED
        BY <1>1, <1>10, <1>15, <1>d, <2>1, <2>2, <2>3, OthersTruncating
<1>18. SizesOK'
    <2>1. \A j \in Store!Inum \ {i} : Store!Locked(j) => Store!Locked(j)'
        <3>1. \A q \in Writers, j \in Store!Inum \ {i} : job[q].i = j => q # p
            BY <1>d
        <3> QED
            BY <1>5, <3>1 DEF Store!Locked
    <2> QED
        BY <1>1, <1>4, <1>12, <1>13, <1>i, <2>1 DEF SizesOK
<1> QED
    BY <1>5, <1>11, <1>14, <1>15, <1>16, <1>17, <1>18 DEF StoreIInv, JobsOK

-----------------------------------------------------------------------------
(* mkfs, step by step *)

\* What there is of each file that mkfs reads.
LEMMA SourceIs ==
    ASSUME Formatted
    PROVE  /\ Len(Programs) \in Nat /\ DOMAIN Programs = 1..Len(Programs)
           /\ Store!Inum = 1..(Len(Programs) + 1)
           /\ Store!ROOTINO = 1 /\ Store!ROOTINO \in Store!Inum
           /\ Store!Source(0) = <<1>> /\ Store!Source(0) \in Seq(Nat) /\ Len(Store!Source(0)) = 1
           /\ \A k \in DOMAIN Programs : k \in Nat /\ k # 0 /\ Store!Source(k) = Programs[k]
           /\ \A k \in 0..Len(Programs) : /\ Store!Source(k) \in Seq(Nat)
                                          /\ Len(Store!Source(k)) \in Nat
<1>1. /\ Len(Programs) \in Nat /\ DOMAIN Programs = 1..Len(Programs)
      /\ \A k \in 1..Len(Programs) : Programs[k] \in Seq(Nat)
    BY DEF Formatted
<1>2. /\ Store!Source(0) = <<1>> /\ Store!Source(0) \in Seq(Nat) /\ Len(Store!Source(0)) = 1
    BY DEF Store!Source, Store!ROOTINO
<1>3. \A k \in DOMAIN Programs : k \in Nat /\ k # 0 /\ Store!Source(k) = Programs[k]
    BY <1>1 DEF Store!Source
<1>4. \A k \in 0..Len(Programs) : Store!Source(k) \in Seq(Nat)
    <2> SUFFICES ASSUME NEW k \in 0..Len(Programs), k # 0 PROVE Store!Source(k) \in Seq(Nat)
        BY <1>2
    <2>1. k \in 1..Len(Programs)
        BY <1>1
    <2> QED
        BY <1>1, <1>3, <2>1
<1>5. \A k \in 0..Len(Programs) : Len(Store!Source(k)) \in Nat
    BY <1>4
<1>6. Store!Inum = 1..(Len(Programs) + 1) /\ Store!ROOTINO = 1 /\ Store!ROOTINO \in Store!Inum
    BY <1>1 DEF Store!Inum, Store!ROOTINO
<1> QED
    BY <1>1, <1>2, <1>3, <1>4, <1>5, <1>6

\* No process does anything before the image is made, and sizes are exact.
LEMMA NoneYet ==
    ASSUME Formatted, StoreIInv, ~Store!Made
    PROVE  /\ \A p \in Writers : job[p].op = "none" /\ job[p].i = 0 /\ logged[p] = {}
           /\ \A i : ~Truncating(i)
           /\ \A i, x : ~Gone(i, x)
           /\ \A i \in Store!Inum : inode[i].size = Len(contents[i])
<1>1. \A p \in Writers : job[p].op = "none"
    BY JobIs DEF JobOK
<1>2. \A p \in Writers : job[p].i = 0 /\ logged[p] = {}
    BY <1>1, JobIs DEF JobOK
<1>3. (\A i : ~Truncating(i)) /\ \A i, x : ~Gone(i, x)
    BY <1>1 DEF Truncating, Gone
<1>4. \A i \in Store!Inum : ~Store!Locked(i)
    BY <1>1 DEF Store!Locked
<1> QED
    BY <1>1, <1>2, <1>3, <1>4 DEF StoreIInv, SizesOK

\* Nor while it is being made.
LEMMA NoneStill ==
    ASSUME Formatted, StoreIInv, ~Store!Made, UNCHANGED <<job, logged>>
    PROVE  /\ JobsOK'
           /\ \A i : ~Truncating(i)'
           /\ \A i, x : ~Gone(i, x)'
           /\ \A i : ~Store!Locked(i)'
<1>1. \A p \in Writers : job'[p].op = "none" /\ job'[p].i = 0 /\ logged'[p] = {}
    BY NoneYet
<1>2. JobsOK'
    BY <1>1 DEF JobsOK, JobOK
<1> QED
    BY <1>1, <1>2 DEF Truncating, Gone, Store!Locked


\* iappend() of a unit keeps the invariant.
LEMMA IappendKeeps ==
    ASSUME Formatted, StoreIInv, Store!Iappend
    PROVE  StoreIInv'
<1>d. SUFFICES ASSUME NEW i, i = IF image.pos = 0 THEN Store!ROOTINO ELSE image.k + 1,
                      NEW x, x = IF image.pos = 0 THEN image.k + 1
                                 ELSE Store!Source(image.k)[image.pos],
                      NEW off, off = inode[i].size, NEW bn, bn = off \div BSIZE,
                      NEW free1, free1 = image.freeblock, NEW next1, next1 = free1 + 1,
                      NEW need, need = Store!Needed(inode[i], bn),
                      NEW m, m = Store!Bmap(inode[i], bn, free1, next1),
                      NEW ends, ends = (image.pos = Len(Store!Source(image.k)))
               PROVE  StoreIInv'
    OBVIOUS
<1>i. DiskTypes /\ ImageTypes /\ JobsOK /\ SizesOK /\ UsedOnce /\ UsedAll /\ AllFilled /\ ImageOK
    BY DEF StoreIInv
<1>a. /\ image.k <= Len(Programs) /\ UNCHANGED <<bitmap, job, logged, ops>>
      /\ \/ UNCHANGED <<image, disk, inode, contents>>
         \/ /\ ~(bn >= Store!MAXFILE \/ free1 + need > FSSIZE)
            /\ image' = [k |-> IF ends THEN image.k + 1 ELSE image.k,
                         pos |-> IF ends THEN 0 ELSE image.pos + 1, freeblock |-> free1 + need]
            /\ disk' = [m.disk EXCEPT ![m.block] = Store!InBlock(@, bn, off, off + 1, x)]
            /\ inode' = [inode EXCEPT ![i] = [size |-> off + 1, addrs |-> m.addrs]]
            /\ contents' = [contents EXCEPT ![i] = Store!InFile(@, off, off + 1, x)]
    BY <1>d, Zenon DEF Store!Iappend
<1>b. CASE UNCHANGED <<image, disk, inode, contents>>
    BY <1>a, <1>b, StoreStutters
<1>c. SUFFICES ASSUME ~UNCHANGED <<image, disk, inode, contents>>
               PROVE  StoreIInv'
    BY <1>b
<1>e. /\ ~(bn >= Store!MAXFILE \/ free1 + need > FSSIZE)
      /\ image' = [k |-> IF ends THEN image.k + 1 ELSE image.k,
                   pos |-> IF ends THEN 0 ELSE image.pos + 1, freeblock |-> free1 + need]
      /\ disk' = [m.disk EXCEPT ![m.block] = Store!InBlock(@, bn, off, off + 1, x)]
      /\ inode' = [inode EXCEPT ![i] = [size |-> off + 1, addrs |-> m.addrs]]
      /\ contents' = [contents EXCEPT ![i] = Store!InFile(@, off, off + 1, x)]
    BY <1>a, <1>c
<1>1. /\ image.k \in Nat /\ image.pos \in Nat /\ free1 \in nmeta..FSSIZE /\ free1 \in Nat
      /\ image.pos <= Len(Store!Source(image.k)) /\ image.k \in 0..Len(Programs)
      /\ nmeta \in Nat /\ FSSIZE \in Nat
    <2>1. image.k \in Nat /\ image.k <= Len(Programs) /\ image.k \in 0..Len(Programs)
        BY <1>a, <1>i, SourceIs DEF ImageTypes
    <2>2. /\ image.pos \in Nat /\ free1 \in nmeta..FSSIZE /\ nmeta \in Nat /\ FSSIZE \in Nat
          /\ image.pos <= Len(Store!Source(image.k))
        BY <1>d, <1>i, <2>1 DEF ImageTypes, Formatted
    <2> QED
        BY <2>1, <2>2
<1>2. ~Store!Made /\ ~Store!Made'
    <2>1. image'.k \in {image.k, image.k + 1}
        BY <1>e
    <2> QED
        BY <1>1, <2>1, SourceIs DEF Store!Made
<1>3. i \in Store!Inum
    <2>1. CASE image.pos = 0
        <3>1. i = Store!ROOTINO
            BY <1>d, <2>1
        <3> QED
            BY <3>1, SourceIs
    <2>2. CASE image.pos # 0
        <3>1. PICK k : k = image.k
            OBVIOUS
        <3>2. i = k + 1 /\ k \in 0..Len(Programs)
            BY <1>1, <1>d, <2>2, <3>1
        <3>3. Store!Inum = 1..(Len(Programs) + 1) /\ Len(Programs) \in Nat
            BY SourceIs
        <3> QED
            BY <3>2, <3>3
    <2> QED
        BY <2>1, <2>2
<1>4. x \in Nat
    <2>1. CASE image.pos = 0
        BY <1>1, <1>d, <2>1
    <2>2. CASE image.pos # 0
        <3>1. Store!Source(image.k) \in Seq(Nat)
            BY <1>1, SourceIs
        <3>2. image.pos \in 1..Len(Store!Source(image.k))
            BY <1>1, <2>2, <3>1
        <3> QED
            BY <1>d, <2>2, <3>1, <3>2
    <2> QED
        BY <2>1, <2>2
<1>5. /\ \A j : ~Truncating(j) /\ ~Truncating(j)'
      /\ \A j, y : ~Gone(j, y) /\ ~Gone(j, y)'
      /\ off = Len(contents[i])
    BY <1>2, <1>3, <1>a, <1>d, NoneYet, NoneStill
<1>6. off \in Nat
    BY <1>3, <1>d, <1>i DEF DiskTypes
<1>7. /\ bn \in Nat /\ Start(bn) <= off /\ off < Start(bn) + BSIZE
      /\ Start(bn) \in Nat /\ BSIZE \in Nat
    BY <1>6, <1>d, StartOf, StartIs DEF Formatted
<1>8. bn \in DataPlace
    <2>1. Store!MAXFILE \in Nat
        BY PlacesAre
    <2> QED
        BY <1>7, <1>e, <2>1 DEF DataPlace
<1>f. next1 = free1 + 1
    BY <1>d
<1>9. /\ need \in {0, 1, 2} /\ (need = 0 => m.new = {}) /\ (need = 1 => m.new = {free1})
      /\ need = 2 => m.new = {free1, next1}
    <2>a. PICK a : a = inode[i]
        OBVIOUS
    <2> DEFINE needInd == bn >= NDIRECT /\ Has(i, Store!MAXFILE) = 0
               needData == Has(i, bn) = 0
               new == m.new
    <2>b. need = Store!Needed(a, bn) /\ m = Store!Bmap(a, bn, free1, next1) /\ ~Truncating(i)
        BY <1>5, <1>d, <2>a
    <2>1. /\ Has(i, bn) = Store!Lookup(disk, a, bn)
          /\ Has(i, Store!MAXFILE) = Store!Indirect(a)
          /\ needInd => needData
          /\ need = (IF needInd THEN 1 ELSE 0) + (IF needData THEN 1 ELSE 0)
        BY <1>3, <1>8, <2>a, <2>b, NeededIs
    <2>2. new = (IF needInd THEN {IF needInd THEN free1 ELSE Store!Indirect(a)} ELSE {})
                 \cup (IF needData THEN {IF ~needData THEN Store!Lookup(disk, a, bn)
                                         ELSE IF needInd THEN next1 ELSE free1} ELSE {})
        BY <2>1, <2>b, Zenon DEF Store!Bmap, Store!NoBlock
    <2> HIDE DEF new
    <2>3. /\ need \in {0, 1, 2} /\ (need = 0 => new = {}) /\ (need = 1 => new = {free1})
          /\ need = 2 => new = {free1, next1}
        <3>1. CASE needInd
            BY <2>1, <2>2, <3>1
        <3>2. CASE ~needInd /\ needData
            BY <2>1, <2>2, <3>2
        <3>3. CASE ~needInd /\ ~needData
            BY <2>1, <2>2, <3>3
        <3> QED
            BY <3>1, <3>2, <3>3
    <2> QED
        BY <2>3 DEF new
<1>10. Used = 0..(free1 - 1) /\ Used' = 0..(free1 + need - 1)
    <2>1. image.freeblock = free1 /\ image'.freeblock = free1 + need
        BY <1>d, <1>e
    <2>2. PICK top : top = image'.freeblock
        OBVIOUS
    <2>3. Used = 0..(image.freeblock - 1) /\ Used' = 0..(top - 1)
        BY <1>2, <2>2 DEF Used
    <2>4. top = free1 + need /\ free1 \in Int /\ need \in Int
        BY <1>1, <1>9, <2>1, <2>2
    <2> QED
        BY <2>1, <2>3, <2>4
<1>11. Used' = Used \cup m.new
    <2>1. CASE need = 0
        BY <1>1, <1>9, <1>10, <2>1
    <2>2. CASE need = 1
        BY <1>1, <1>9, <1>10, <2>2
    <2>3. CASE need = 2
        BY <1>1, <1>9, <1>10, <1>f, <2>3
    <2> QED
        BY <1>9, <2>1, <2>2, <2>3
<1>12. /\ need > 0 => free1 \in Store!Block \ Used
       /\ need > 1 => next1 \in Store!Block \ Used /\ free1 # next1
    BY <1>1, <1>9, <1>10, <1>e, <1>f DEF Store!Block
<1>13. /\ DOMAIN inode' = Store!Inum /\ inode'[i].addrs = m.addrs
       /\ \A j \in Store!Inum \ {i} : inode'[j] = inode[j]
    BY <1>3, <1>e, <1>i DEF DiskTypes
<1>14. Puts(i, bn, free1, next1, off, off + 1, x)
    <2>1. /\ need = Store!Needed(inode[i], bn) /\ m = Store!Bmap(inode[i], bn, free1, next1)
          /\ disk' = [m.disk EXCEPT ![m.block] = Store!InBlock(@, bn, off, off + 1, x)]
        BY <1>d, <1>e
    <2>2. /\ \A j \in Store!Inum : Truncating(j)' <=> Truncating(j)
          /\ \A j \in Store!Inum, y \in Store!Place : Gone(j, y)' <=> Gone(j, y)
          /\ ~Truncating(i)
        BY <1>5
    <2> QED
        BY <1>3, <1>4, <1>8, <1>11, <1>12, <1>13, <2>1, <2>2 DEF Puts
<1>15. PICK b, ind, taken : Stored(i, bn, b, ind, taken, off, off + 1, x)
    BY <1>14, <1>i, PutsStores
<1>16. UsedOnce' /\ UsedAll'
    BY <1>3, <1>8, <1>15, <1>i, OnceStored
<1>17. off + 1 \in Nat /\ off < off + 1 /\ off + 1 <= Start(bn) + BSIZE /\ off <= Len(contents[i])
    BY <1>5, <1>6, <1>7
<1>18. AllFilled'
    <2>1. \A j \in Store!Inum : Truncating(j)' <=> Truncating(j)
        BY <1>5
    <2>2. contents' = [contents EXCEPT ![i] = Store!InFile(@, off, off + 1, x)]
        BY <1>e
    <2> QED
        BY <1>3, <1>4, <1>5, <1>6, <1>7, <1>8, <1>15, <1>17, <1>i, <2>1, <2>2, FilledStored
<1>19. /\ contents' \in [Store!Inum -> Seq(Nat)] /\ Len(contents'[i]) = off + 1
       /\ \A k \in Nat \ {0} :
            Unit(contents'[i], k) = IF k = off + 1 THEN x ELSE Unit(contents[i], k)
       /\ \A j \in Store!Inum \ {i} : contents'[j] = contents[j]
    <2>1. contents[i] \in Seq(Nat) /\ contents \in [Store!Inum -> Seq(Nat)]
        BY <1>3, <1>i DEF DiskTypes
    <2>2. PICK e : e = off + 1
        OBVIOUS
    <2>3. PICK d : d = Store!InFile(contents[i], off, e, x)
        OBVIOUS
    <2>4. /\ d \in Seq(Nat) /\ Len(d) = IF Len(contents[i]) >= e THEN Len(contents[i]) ELSE e
          /\ \A k \in Nat \ {0} :
               Unit(d, k) = IF k \in (off + 1)..e THEN x ELSE Unit(contents[i], k)
        BY <1>4, <1>6, <1>17, <2>1, <2>2, <2>3, InFileIs
    <2>5. contents' = [contents EXCEPT ![i] = d]
        BY <1>e, <2>2, <2>3
    <2>6. contents' \in [Store!Inum -> Seq(Nat)] /\ contents'[i] = d
          /\ \A j \in Store!Inum \ {i} : contents'[j] = contents[j]
        BY <1>3, <2>1, <2>4, <2>5
    <2>7. Len(d) = e
        BY <1>5, <1>6, <2>2, <2>4
    <2>8. \A k \in Nat : k \in (off + 1)..e <=> k = e
        BY <1>6, <2>2
    <2> QED
        BY <2>2, <2>4, <2>6, <2>7, <2>8
<1>20. DiskTypes'
    <2>1. /\ disk' \in [Store!Block -> [1..BSIZE -> Nat]]
          /\ inode'[i].addrs \in [1..(NDIRECT + 1) -> Nat]
        BY <1>15 DEF Stored
    <2>2. inode' \in [Store!Inum -> [size : Nat, addrs : [1..(NDIRECT + 1) -> Nat]]]
        <3>1. m.addrs \in [1..(NDIRECT + 1) -> Nat]
            BY <1>13, <2>1
        <3>2. PICK e : e = off + 1
            OBVIOUS
        <3>3. inode' = [inode EXCEPT ![i] = [size |-> e, addrs |-> m.addrs]] /\ e \in Nat
            BY <1>e, <1>17, <3>2
        <3> QED
            BY <1>3, <1>i, <3>1, <3>3 DEF DiskTypes
    <2>3. UNCHANGED <<Store!Inum, Store!Block>>
        BY DEF Store!Inum, Store!Block
    <2> QED
        BY <1>a, <1>19, <1>i, <2>1, <2>2, <2>3 DEF DiskTypes
<1>21. /\ image'.k = (IF ends THEN image.k + 1 ELSE image.k)
       /\ image'.pos = (IF ends THEN 0 ELSE image.pos + 1)
       /\ image'.freeblock = free1 + need
       /\ ends <=> image.pos = Len(Store!Source(image.k))
       /\ image' \in [k : Nat, pos : Nat, freeblock : nmeta..FSSIZE]
    <2>1. /\ image'.k = (IF ends THEN image.k + 1 ELSE image.k)
          /\ image'.pos = (IF ends THEN 0 ELSE image.pos + 1)
          /\ image'.freeblock = free1 + need
        BY <1>e
    <2>2. ends <=> image.pos = Len(Store!Source(image.k))
        BY <1>d
    <2>3. free1 + need \in nmeta..FSSIZE
        BY <1>1, <1>9, <1>e
    <2>4. PICK a, c, e : /\ a = (IF ends THEN image.k + 1 ELSE image.k)
                         /\ c = (IF ends THEN 0 ELSE image.pos + 1) /\ e = free1 + need
        OBVIOUS
    <2>5. a \in Nat /\ c \in Nat /\ e \in nmeta..FSSIZE
        BY <1>1, <2>3, <2>4
    <2>6. image' = [k |-> a, pos |-> c, freeblock |-> e]
        BY <1>e, <2>4
    <2>7. image' \in [k : Nat, pos : Nat, freeblock : nmeta..FSSIZE]
        BY <2>5, <2>6
    <2> QED
        BY <2>1, <2>2, <2>7
<1>22. ImageTypes'
    <2>1. Len(Store!Source(image.k)) \in Nat
        BY <1>1, SourceIs
    <2>2. CASE ends
        <3>1. image'.pos = 0 /\ image'.k \in Nat
            BY <1>21, <2>2
        <3>2. image'.k <= Len(Programs) => 0 <= Len(Store!Source(image'.k))
            <4>1. image'.k <= Len(Programs) => image'.k \in 0..Len(Programs)
                BY <3>1, SourceIs
            <4> QED
                BY <4>1, SourceIs
        <3>3. (Store!Source(image.k))' = Store!Source(image'.k)
            BY DEF Store!Source, Store!ROOTINO
        <3> QED
            BY <1>a, <1>21, <1>i, <3>1, <3>2, <3>3 DEF ImageTypes
    <2>3. CASE ~ends
        <3>1. image'.k = image.k /\ image'.pos <= Len(Store!Source(image.k))
            BY <1>1, <1>21, <2>1, <2>3
        <3>2. (Store!Source(image.k))' = Store!Source(image.k)
            BY <3>1 DEF Store!Source, Store!ROOTINO
        <3>3. ~(image'.k > Len(Programs))
            BY <1>1, <3>1, SourceIs
        <3> QED
            BY <1>a, <1>21, <1>i, <3>1, <3>2, <3>3 DEF ImageTypes
    <2> QED
        BY <2>2, <2>3
<1>23. JobsOK' /\ \A j : ~Store!Locked(j)'
    BY <1>2, <1>a, NoneStill
<1>24. SizesOK'
    <2>1. \A j \in Store!Inum : inode[j].size = Len(contents[j])
        BY <1>2, NoneYet
    <2>2. inode'[i].size = off + 1 /\ \A j \in Store!Inum \ {i} : inode'[j] = inode[j]
        BY <1>3, <1>e, <1>13, <1>i DEF DiskTypes
    <2>3. UNCHANGED Store!Inum
        BY DEF Store!Inum
    <2> QED
        BY <1>19, <2>1, <2>2, <2>3 DEF SizesOK
<1>25. /\ image.pos = 0 => i = 1
       /\ image.pos # 0 => i = image.k + 1 /\ x = Store!Source(image.k)[image.pos]
    BY <1>d, SourceIs
<1>26. Len(contents'[1]) = IF image'.k = 0 THEN image'.pos
                           ELSE image'.k + 1 + (IF image'.pos > 0 THEN 1 ELSE 0)
    <2>1. Len(contents[1]) = IF image.k = 0 THEN image.pos
                             ELSE image.k + 1 + (IF image.pos > 0 THEN 1 ELSE 0)
        BY <1>2, <1>i DEF ImageOK, Store!ROOTINO
    <2>2. Len(Store!Source(image.k)) \in Nat /\ (image.k = 0 => Len(Store!Source(image.k)) = 1)
        BY <1>1, SourceIs
    <2>3. Len(contents'[1]) = IF i = 1 THEN Len(contents[1]) + 1 ELSE Len(contents[1])
        <3>1. 1 \in Store!Inum
            BY SourceIs
        <3> QED
            BY <1>5, <1>19, <3>1
    <2>4. CASE image.k = 0
        <3>1. i = 1
            BY <1>25, <2>4
        <3>2. Len(contents[1]) = image.pos /\ Len(contents'[1]) = image.pos + 1
            BY <2>1, <2>3, <2>4, <3>1
        <3>3. CASE ends
            <4>1. image.pos = 1 /\ image'.k = 1 /\ image'.pos = 0
                <5>1. image.pos = 1
                    BY <1>21, <2>2, <2>4, <3>3
                <5>2. image'.k = image.k + 1 /\ image'.pos = 0
                    BY <1>21, <3>3
                <5> QED
                    BY <2>4, <5>1, <5>2
            <4> QED
                BY <3>2, <4>1
        <3>4. CASE ~ends
            <4>1. image'.k = 0 /\ image'.pos = image.pos + 1
                BY <1>21, <2>4, <3>4
            <4> QED
                BY <3>2, <4>1
        <3> QED
            BY <3>3, <3>4
    <2>5. CASE image.k # 0 /\ image.pos = 0
        <3>1. i = 1 /\ Len(contents[1]) = image.k + 1
            BY <1>1, <1>25, <2>1, <2>5
        <3>2. ends => image'.k = image.k + 1 /\ image'.pos = 0
            BY <1>21
        <3>3. ~ends => image'.k = image.k /\ image'.pos = 1
            BY <1>21, <2>5
        <3> QED
            BY <1>1, <2>3, <2>5, <3>1, <3>2, <3>3
    <2>6. CASE image.k # 0 /\ image.pos # 0
        <3>1. i # 1 /\ Len(contents[1]) = image.k + 2
            BY <1>1, <1>25, <2>1, <2>6
        <3>2. ends => image'.k = image.k + 1 /\ image'.pos = 0
            BY <1>21
        <3>3. ~ends => image'.k = image.k /\ image'.pos > 0
            BY <1>1, <1>21, <2>6
        <3> QED
            BY <1>1, <2>3, <2>6, <3>1, <3>2, <3>3
    <2> QED
        BY <2>4, <2>5, <2>6
<1>27. ASSUME ops = 0, NEW k \in DOMAIN Programs
       PROVE  /\ Len(contents'[k + 1]) = Copied(k)'
              /\ \A u \in 1..Copied(k)' : contents'[k + 1][u] = Programs[k][u]
    <2>1. /\ Len(contents[k + 1]) = Copied(k)
          /\ \A u \in 1..Copied(k) : contents[k + 1][u] = Programs[k][u]
        BY <1>27, <1>i DEF ImageOK
    <2>2. /\ k \in Nat /\ k # 0 /\ k + 1 \in Store!Inum /\ Store!Source(k) = Programs[k]
          /\ Len(Programs[k]) \in Nat /\ k + 1 # 1
        <3>1. k \in 1..Len(Programs) /\ Len(Programs) \in Nat /\ k \in 0..Len(Programs)
            BY <1>27, SourceIs
        <3>2. Store!Source(k) = Programs[k] /\ Len(Store!Source(k)) \in Nat
            BY <3>1, SourceIs
        <3> QED
            BY <3>1, <3>2, SourceIs
    <2>3. Copied(k)' = IF k < image'.k THEN Len(Programs[k])
                       ELSE IF k = image'.k /\ image'.pos > 0 THEN image'.pos - 1 ELSE 0
        BY DEF Copied
    <2>4. Copied(k) = IF k < image.k THEN Len(Programs[k])
                      ELSE IF k = image.k /\ image.pos > 0 THEN image.pos - 1 ELSE 0
        BY DEF Copied
    <2>5. CASE i # k + 1
        <3>1. contents'[k + 1] = contents[k + 1]
            BY <1>19, <2>2, <2>5
        <3>2. ~(k = image.k /\ image.pos # 0)
            BY <1>25, <2>5
        <3>3. Copied(k)' = Copied(k)
            <4>1. CASE k = image.k
                BY <1>1, <1>21, <2>2, <2>3, <2>4, <3>2, <4>1
            <4>2. CASE k # image.k
                <5>1. ends => image'.k = image.k + 1 /\ image'.pos = 0
                    BY <1>21
                <5>2. ~ends => image'.k = image.k
                    BY <1>21
                <5>3. CASE k < image.k
                    <6>1. k < image'.k
                        BY <1>1, <2>2, <5>1, <5>2, <5>3
                    <6> QED
                        BY <2>3, <2>4, <5>3, <6>1
                <5>4. CASE ~(k < image.k)
                    <6>1. ~(k < image'.k) /\ (k = image'.k => ~(image'.pos > 0))
                        BY <1>1, <2>2, <4>2, <5>1, <5>2, <5>4
                    <6> QED
                        BY <2>3, <2>4, <4>2, <5>4, <6>1
                <5> QED
                    BY <5>3, <5>4
            <4> QED
                BY <4>1, <4>2
        <3> QED
            BY <2>1, <3>1, <3>3
    <2>6. CASE i = k + 1
        <3>1. image.pos # 0 /\ image.k = k /\ x = Programs[k][image.pos]
            <4>1. image.pos # 0
                BY <1>25, <2>2, <2>6
            <4>2. image.k = k
                BY <1>1, <1>25, <2>2, <2>6, <4>1
            <4> QED
                BY <1>25, <2>2, <4>1, <4>2
        <3>2. Copied(k) = image.pos - 1 /\ Copied(k)' = image.pos /\ off = image.pos - 1
            <4>1. Copied(k) = image.pos - 1
                BY <1>1, <2>2, <2>4, <3>1
            <4>2. off = Copied(k)
                BY <1>5, <2>1, <2>6
            <4>3. Copied(k)' = image.pos
                <5>1. CASE ends
                    <6>1. image.pos = Len(Programs[k])
                        BY <1>d, <2>2, <3>1, <5>1
                    <6>2. image'.k = k + 1 /\ k < image'.k
                        BY <1>21, <2>2, <3>1, <5>1
                    <6> QED
                        BY <2>3, <6>1, <6>2
                <5>2. CASE ~ends
                    <6>1. image'.k = k /\ image'.pos = image.pos + 1 /\ image'.pos > 0
                        BY <1>1, <1>21, <3>1, <5>2
                    <6> QED
                        BY <1>1, <2>2, <2>3, <6>1
                <5> QED
                    BY <5>1, <5>2
            <4> QED
                BY <4>1, <4>2, <4>3
        <3>3. Len(contents'[k + 1]) = Copied(k)'
            BY <1>1, <1>19, <2>6, <3>2
        <3>4. ASSUME NEW u \in 1..image.pos PROVE contents'[k + 1][u] = Programs[k][u]
            <4>1. Unit(contents'[i], u) = IF u = off + 1 THEN x ELSE Unit(contents[i], u)
                BY <1>1, <1>19
            <4>2. Unit(contents'[i], u) = contents'[i][u]
                BY <1>1, <1>19, <3>2 DEF Unit
            <4>3. CASE u = off + 1
                <5>1. u = image.pos
                    BY <1>1, <3>2, <4>3
                <5> QED
                    BY <2>6, <3>1, <4>1, <4>2, <4>3, <5>1
            <4>4. CASE u # off + 1
                <5>1. u \in 1..Copied(k) /\ u <= off
                    BY <1>1, <3>2, <4>4
                <5>2. Unit(contents[i], u) = contents[i][u]
                    BY <1>5, <5>1 DEF Unit
                <5> QED
                    BY <2>1, <2>6, <4>1, <4>2, <4>4, <5>1, <5>2
            <4> QED
                BY <4>3, <4>4
        <3> QED
            BY <3>2, <3>3, <3>4
    <2> QED
        BY <2>5, <2>6
<1>28. ImageOK'
    <2>1. \A k \in DOMAIN Programs : ops = 0 =>
             /\ Len(contents'[k + 1]) = Copied(k)'
             /\ \A u \in 1..Copied(k)' : contents'[k + 1][u] = Programs[k][u]
        BY <1>27
    <2>2. ops' = ops
        BY <1>a
    <2> QED
        BY <1>26, <2>1, <2>2 DEF ImageOK, Store!ROOTINO
<1> QED
    BY <1>16, <1>18, <1>20, <1>22, <1>23, <1>24, <1>28 DEF StoreIInv

\* Rounding up the size of the root keeps the invariant: its blocks hold as much.
LEMMA FinishKeeps ==
    ASSUME Formatted, StoreIInv, Store!FinishImage
    PROVE  StoreIInv'
<1>d. SUFFICES ASSUME NEW old, old = contents[1],
                      NEW q, q = Len(old) \div BSIZE,
                      NEW size, size = Store!RootSize(inode[1].size)
               PROVE  StoreIInv'
    OBVIOUS
<1> DEFINE MF == Store!MAXFILE
<1>i. DiskTypes /\ ImageTypes /\ JobsOK /\ SizesOK /\ UsedOnce /\ UsedAll /\ AllFilled /\ ImageOK
    BY DEF StoreIInv
<1>1. /\ image.k = Len(Programs) + 1 /\ image' = [image EXCEPT !.k = @ + 1]
      /\ inode' = [inode EXCEPT ![1].size = size] /\ bitmap' = 0..(image.freeblock - 1)
      /\ contents' = [contents EXCEPT ![1] = [k \in 1..size |-> IF k <= Len(@) THEN @[k] ELSE 0]]
      /\ UNCHANGED <<disk, job, logged, ops>>
    BY <1>d, Zenon DEF Store!FinishImage, Store!ROOTINO
<1>2. /\ Len(Programs) \in Nat /\ 1 \in Store!Inum /\ image.pos = 0 /\ old \in Seq(Nat)
      /\ Len(old) \in Nat
    <2>1. Len(Programs) \in Nat /\ 1 \in Store!Inum
        BY SourceIs
    <2>2. old \in Seq(Nat)
        BY <1>d, <1>i, <2>1 DEF DiskTypes
    <2> QED
        BY <1>1, <1>i, <2>1, <2>2 DEF ImageTypes
<1>3. /\ image'.k = Len(Programs) + 2 /\ image'.pos = 0 /\ image'.freeblock = image.freeblock
      /\ image' \in [k : Nat, pos : Nat, freeblock : nmeta..FSSIZE]
    <2>1. image \in [k : Nat, pos : Nat, freeblock : nmeta..FSSIZE]
        BY <1>i DEF ImageTypes
    <2>2. PICK w : w = image.k + 1
        OBVIOUS
    <2>3. image' = [image EXCEPT !.k = w] /\ w \in Nat /\ w = Len(Programs) + 2
        BY <1>1, <1>2, <2>1, <2>2
    <2> QED
        BY <1>2, <2>1, <2>3
<1>4. ~Store!Made /\ Store!Made'
    BY <1>1, <1>2, <1>3 DEF Store!Made
<1>5. /\ \A p \in Writers : job[p].op = "none" /\ job[p].i = 0 /\ logged[p] = {}
      /\ \A j : ~Truncating(j) /\ ~Truncating(j)' /\ ~Store!Locked(j)'
      /\ \A j, y : ~Gone(j, y) /\ ~Gone(j, y)'
      /\ \A j \in Store!Inum : inode[j].size = Len(contents[j])
      /\ JobsOK'
    BY <1>1, <1>4, NoneYet, NoneStill
<1>6. Len(old) = Len(Programs) + 2 /\ Len(old) % BSIZE # 0 /\ inode[1].size = Len(old)
    <2>1. Len(old) = Len(Programs) + 2
        BY <1>1, <1>2, <1>4, <1>d, <1>i DEF ImageOK, Store!ROOTINO
    <2> QED
        BY <1>2, <1>5, <1>d, <2>1 DEF Formatted
<1>7. /\ q \in Nat /\ Start(q) \in Nat /\ Start(q) < Len(old) /\ Len(old) < Start(q) + BSIZE
      /\ Start(q + 1) = Start(q) + BSIZE /\ BSIZE \in Nat
    <2>1. /\ q \in Nat /\ Start(q) <= Len(old) /\ Len(old) < Start(q) + BSIZE
          /\ Len(old) % BSIZE = Len(old) - Start(q)
        BY <1>2, <1>d, StartOf
    <2>2. Start(q) \in Nat /\ Start(q + 1) = Start(q) + BSIZE /\ BSIZE \in Nat
        BY <2>1, StartIs DEF Formatted
    <2> QED
        BY <1>2, <1>6, <2>1, <2>2
<1>8. size = Start(q + 1) /\ size \in Nat /\ Len(old) < size
    <2>1. size = ((Len(old) \div BSIZE) + 1) * BSIZE
        BY <1>6, <1>d DEF Store!RootSize
    <2>2. size = (q + 1) * BSIZE
        BY <1>d, <2>1
    <2> QED
        BY <1>2, <1>7, <2>2 DEF Start
<1>9. \A y \in Nat : (Start(y) < Len(old)) <=> (Start(y) < size)
    <2> SUFFICES ASSUME NEW y \in Nat PROVE (Start(y) < Len(old)) <=> (Start(y) < size)
        OBVIOUS
    <2>1. Start(y) \in Nat
        BY StartIs
    <2>2. CASE y <= q
        <3>1. Start(y) <= Start(q)
            <4>1. y < q => Start(y) + BSIZE <= Start(q)
                BY <1>7, StartGrows
            <4>2. y = q => Start(y) = Start(q)
                OBVIOUS
            <4> QED
                BY <1>7, <2>1, <2>2, <4>1, <4>2
        <3> QED
            BY <1>2, <1>7, <1>8, <2>1, <3>1
    <2>3. CASE ~(y <= q)
        <3>1. Start(q + 1) <= Start(y)
            <4>1. q < y => Start(q) + BSIZE <= Start(y)
                BY <1>7, StartGrows
            <4> QED
                BY <1>7, <2>3, <4>1
        <3> QED
            BY <1>2, <1>7, <1>8, <2>1, <3>1
    <2> QED
        BY <2>2, <2>3
<1>10. /\ contents' \in [Store!Inum -> Seq(Nat)] /\ Len(contents'[1]) = size
       /\ \A k \in Nat \ {0} : Unit(contents'[1], k) = Unit(old, k)
       /\ \A j \in Store!Inum \ {1} : contents'[j] = contents[j]
    <2>1. PICK new : new = [k \in 1..size |-> IF k <= Len(old) THEN old[k] ELSE 0]
        OBVIOUS
    <2>2. contents' = [contents EXCEPT ![1] = new] /\ contents \in [Store!Inum -> Seq(Nat)]
        BY <1>1, <1>d, <1>i, <2>1 DEF DiskTypes
    <2>3. new \in Seq(Nat) /\ Len(new) = size
        <3>1. \A k \in 1..size : (IF k <= Len(old) THEN old[k] ELSE 0) \in Nat
            <4> SUFFICES ASSUME NEW k \in 1..size, k <= Len(old) PROVE old[k] \in Nat
                OBVIOUS
            <4>1. k \in 1..Len(old)
                BY <1>2, <1>8
            <4> QED
                BY <1>2, <4>1
        <3>2. new \in [1..size -> Nat]
            BY <2>1, <3>1
        <3> QED
            BY <1>8, <3>2
    <2>4. ASSUME NEW k \in Nat \ {0} PROVE Unit(new, k) = Unit(old, k)
        <3>1. CASE k <= size
            <4>1. k \in 1..size
                BY <1>8, <3>1
            <4>2. new[k] = IF k <= Len(old) THEN old[k] ELSE 0
                BY <2>1, <4>1
            <4> QED
                BY <2>3, <3>1, <4>2 DEF Unit
        <3>2. CASE ~(k <= size)
            <4>1. ~(k <= Len(old)) /\ ~(k <= Len(new))
                BY <1>2, <1>8, <2>3, <3>2
            <4> QED
                BY <4>1 DEF Unit
        <3> QED
            BY <3>1, <3>2
    <2>5. contents' \in [Store!Inum -> Seq(Nat)] /\ contents'[1] = new
          /\ \A j \in Store!Inum \ {1} : contents'[j] = contents[j]
        BY <1>2, <2>2, <2>3
    <2> QED
        BY <2>3, <2>4, <2>5
<1>11. /\ inode' \in [Store!Inum -> [size : Nat, addrs : [1..(NDIRECT + 1) -> Nat]]]
       /\ inode'[1].size = size
       /\ \A j \in Store!Inum : inode'[j].addrs = inode[j].addrs
       /\ \A j \in Store!Inum \ {1} : inode'[j] = inode[j]
    <2>1. inode \in [Store!Inum -> [size : Nat, addrs : [1..(NDIRECT + 1) -> Nat]]]
        BY <1>i DEF DiskTypes
    <2>2. inode' = [inode EXCEPT ![1].size = size] /\ size \in Nat /\ 1 \in Store!Inum
        BY <1>1, <1>2, <1>8
    <2> QED
        BY <2>1, <2>2
<1>12. \A j \in Store!Inum, y \in Store!Place : Has(j, y)' = Has(j, y)
    <2>1. \A j \in Store!Inum, y \in Store!Place : Gone(j, y)' <=> Gone(j, y)
        BY <1>5
    <2> QED
        BY <1>1, <1>11, <2>1, HasKept
<1>13. UsedOnce' /\ UsedAll'
    <2>1. Used' = Used
        BY <1>1, <1>4 DEF Used
    <2> QED
        BY <1>12, <1>i, <2>1, OnceKept
<1>14. UNCHANGED <<Store!Inum, Store!Place, Store!Block, DataPlace, Store!MAXFILE>>
       /\ \A y : Start(y)' = Start(y)
    BY DEF Store!Inum, Store!Place, Store!Block, DataPlace, Store!MAXFILE, Store!NINDIRECT, Start
<1>15. AllFilled'
    <2>1. /\ \A y \in DataPlace : Has(1, y) # 0 <=> Start(y) < Len(old)
          /\ \A y \in DataPlace : Has(1, y) # 0 =>
               \A u \in 1..BSIZE : disk[Has(1, y)][u] = Unit(old, Start(y) + u)
          /\ Has(1, MF) # 0 <=> Start(NDIRECT) < Len(old)
          /\ Len(old) <= Start(MF)
        BY <1>2, <1>5, <1>d, <1>i DEF AllFilled, Filled
    <2>2. /\ \A y \in DataPlace : y \in Nat /\ y \in Store!Place /\ Start(y) \in Nat
          /\ MF \in Nat /\ MF \in Store!Place /\ NDIRECT \in Nat /\ Start(MF) \in Nat
        BY PlacesAre, StartIs
    <2>3. \A y \in DataPlace : (Has(1, y)' # 0) <=> (Start(y) < size)
        BY <1>2, <1>9, <1>12, <2>1, <2>2
    <2>4. ASSUME NEW y \in DataPlace, Has(1, y)' # 0, NEW u \in 1..BSIZE
          PROVE  disk'[Has(1, y)'][u] = Unit(contents'[1], Start(y) + u)
        <3>1. Has(1, y)' = Has(1, y) /\ disk' = disk
            BY <1>1, <1>2, <1>12, <2>2
        <3>2. Start(y) + u \in Nat \ {0}
            BY <1>7, <2>2
        <3>3. Unit(contents'[1], Start(y) + u) = Unit(old, Start(y) + u)
            BY <1>10, <3>2
        <3> QED
            BY <2>1, <2>4, <3>1, <3>3
    <2>5. (Has(1, MF)' # 0) <=> (Start(NDIRECT) < size)
        BY <1>2, <1>9, <1>12, <2>1, <2>2
    <2>6. size <= Start(MF)
        <3>1. Start(MF) < size => Start(MF) < Len(old)
            BY <1>9, <2>2
        <3> QED
            BY <1>2, <1>8, <2>1, <2>2, <3>1
    <2>7. Filled(1)'
        <3>1. \A y \in DataPlace : Has(1, y)' # 0 =>
                \A u \in 1..BSIZE : disk'[Has(1, y)'][u] = Unit(contents'[1], Start(y) + u)
            BY <2>4
        <3>2. \A y : (Unit(contents[1], y))' = Unit(contents'[1], y)
            BY DEF Unit
        <3> QED
            BY <1>10, <1>14, <2>3, <2>5, <2>6, <3>1, <3>2 DEF Filled, Unit
    <2>8. \A j \in Store!Inum \ {1} : Filled(j) => Filled(j)'
        BY <1>1, <1>10, <1>12, FileKept
    <2> QED
        BY <1>2, <1>5, <1>14, <1>i, <2>7, <2>8 DEF AllFilled
<1>16. DiskTypes'
    BY <1>1, <1>10, <1>11, <1>14, <1>i DEF DiskTypes
<1>17. ImageTypes'
    <2>1. ~(image'.k <= Len(Programs))
        BY <1>2, <1>3
    <2> QED
        BY <1>1, <1>3, <1>i, <2>1 DEF ImageTypes
<1>18. SizesOK'
    BY <1>5, <1>10, <1>11, <1>14 DEF SizesOK
<1>19. ImageOK'
    <2>1. ASSUME NEW k \in DOMAIN Programs
          PROVE  contents'[k + 1] = contents[k + 1] /\ Copied(k)' = Copied(k)
        <3>1. k \in 1..Len(Programs)
            BY SourceIs
        <3>2. k + 1 \in Store!Inum \ {1}
            BY <1>2, <3>1, SourceIs
        <3>3. k < image.k /\ k < image'.k
            BY <1>1, <1>2, <1>3, <3>1
        <3> QED
            BY <1>10, <3>2, <3>3 DEF Copied
    <2> QED
        BY <1>1, <1>4, <1>i, <2>1 DEF ImageOK
<1> QED
    BY <1>5, <1>13, <1>15, <1>16, <1>17, <1>18, <1>19 DEF StoreIInv

\* mkfs begins with nothing.
LEMMA StoreBegins ==
    ASSUME Formatted, Store!Init
    PROVE  StoreIInv
<1> DEFINE MF == Store!MAXFILE
<1>1. /\ image = [k |-> 0, pos |-> 0, freeblock |-> nmeta]
      /\ disk = [b \in Store!Block |-> Store!Zeroes]
      /\ inode = [i \in Store!Inum |-> Store!FreshInode]
      /\ job = [p \in Writers |-> Store!Idle] /\ logged = [p \in Writers |-> {}]
      /\ contents = [i \in Store!Inum |-> <<>>] /\ ops = 0
    BY DEF Store!Init
<1>2. /\ Store!Idle.op = "none" /\ Store!Idle.i = 0
      /\ Store!Idle \in [op : {"none", "wait", "write", "trunc"}, i : Store!Inum \cup {0},
                         off : Nat, n : Nat, left : Nat, k : Nat]
    BY DEF Store!Idle, Store!NoInode
<1>3. /\ Store!FreshInode.size = 0
      /\ Store!FreshInode.addrs = [x \in 1..(NDIRECT + 1) |-> 0]
      /\ Store!FreshInode \in [size : Nat, addrs : [1..(NDIRECT + 1) -> Nat]]
    BY DEF Store!FreshInode, Store!NoBlock
<1>4. /\ nmeta \in Nat /\ FSSIZE \in Nat /\ nmeta >= 1 /\ nmeta <= FSSIZE /\ Len(Programs) \in Nat
    BY SourceIs DEF Formatted
<1>5. DiskTypes
    <2>1. Store!Zeroes \in [1..BSIZE -> Nat]
        BY DEF Store!Zeroes
    <2> QED
        BY <1>1, <1>2, <1>3, <2>1 DEF DiskTypes
<1>6. ~Store!Made /\ Used = 0..(nmeta - 1)
    BY <1>1, <1>4 DEF Store!Made, Used
<1>7. ImageTypes
    <2>1. 0 <= Len(Store!Source(0))
        BY SourceIs
    <2> QED
        BY <1>1, <1>4, <2>1 DEF ImageTypes
<1>8. /\ \A i : ~Truncating(i) /\ ~Store!Locked(i)
      /\ \A i, x : ~Gone(i, x)
    BY <1>1, <1>2 DEF Truncating, Gone, Store!Locked
<1>9. \A i \in Store!Inum, x \in Store!Place : Has(i, x) = 0
    <2> SUFFICES ASSUME NEW i \in Store!Inum, NEW x \in Store!Place PROVE Has(i, x) = 0
        OBVIOUS
    <2>1. Has(i, x) = Store!BlockAt(disk, inode[i], x)
        BY <1>8, HasIs
    <2>2. \A w \in 1..(NDIRECT + 1) : inode[i].addrs[w] = 0
        BY <1>1, <1>3
    <2>3. /\ NDIRECT + 1 \in 1..(NDIRECT + 1)
          /\ x < NDIRECT => x + 1 \in 1..(NDIRECT + 1)
        BY PlacesAre
    <2>4. /\ inode[i].addrs[NDIRECT + 1] = 0 /\ (x < NDIRECT => inode[i].addrs[x + 1] = 0)
        BY <2>2, <2>3
    <2> QED
        BY <2>1, <2>4, BlockAtIs
<1>10. UsedOnce /\ UsedAll
    BY <1>4, <1>6, <1>9 DEF UsedOnce, UsedAll, Store!Block
<1>11. AllFilled
    <2> SUFFICES ASSUME NEW i \in Store!Inum PROVE Filled(i)
        BY DEF AllFilled
    <2>1. Len(contents[i]) = 0
        BY <1>1
    <2>2. /\ \A x \in DataPlace : x \in Store!Place /\ Start(x) \in Nat
          /\ Start(NDIRECT) \in Nat /\ Start(MF) \in Nat /\ MF \in Store!Place
        BY PlacesAre, StartIs
    <2>3. /\ \A x \in DataPlace : Has(i, x) = 0 /\ ~(Start(x) < 0)
          /\ Has(i, MF) = 0 /\ ~(Start(NDIRECT) < 0) /\ 0 <= Start(MF)
        BY <1>9, <2>2
    <2> QED
        BY <2>1, <2>3 DEF Filled
<1>12. JobsOK
    BY <1>1, <1>2 DEF JobsOK, JobOK
<1>13. SizesOK
    BY <1>1, <1>3 DEF SizesOK
<1>14. ImageOK
    <2>1. ASSUME NEW k \in DOMAIN Programs PROVE Copied(k) = 0 /\ Len(contents[k + 1]) = 0
        <3>1. k \in 1..Len(Programs)
            BY SourceIs
        <3>2. k + 1 \in Store!Inum
            BY <1>4, <3>1, SourceIs
        <3>3. ~(k < 0) /\ k # 0
            BY <3>1
        <3> QED
            BY <1>1, <3>2, <3>3 DEF Copied
    <2>2. Len(contents[Store!ROOTINO]) = 0
        BY <1>1, SourceIs
    <2> QED
        BY <1>1, <2>1, <2>2 DEF ImageOK
<1> QED
    BY <1>5, <1>7, <1>10, <1>11, <1>12, <1>13, <1>14 DEF StoreIInv

-----------------------------------------------------------------------------
(* All steps, and what the invariant says *)

\* Every step keeps the invariant.
LEMMA StoreNext ==
    ASSUME Formatted, StoreIInv, [Store!Next]_Store!vars
    PROVE  StoreIInv'
<1>1. CASE Store!Iappend
    BY <1>1, IappendKeeps
<1>2. CASE Store!FinishImage
    BY <1>2, FinishKeeps
<1>3. ASSUME Store!Made, NEW p \in Writers, NEW i \in Store!Inum \ {Store!ROOTINO},
             NEW len \in Lengths, NEW off \in {0, 1, inode[i].size}, Store!Write(p, i, off, len)
      PROVE  StoreIInv'
    <2>1. len \in Nat /\ i \in Store!Inum
        BY DEF Formatted
    <2>2. off \in Nat
        <3>1. inode[i].size \in Nat
            BY <2>1 DEF StoreIInv, DiskTypes
        <3> QED
            BY <3>1
    <2> QED
        BY <1>3, <2>1, <2>2, WriteKeeps
<1>4. ASSUME Store!Made, NEW p \in Writers, NEW i \in Store!Inum, Store!Truncate(p, i)
      PROVE  StoreIInv'
    BY <1>4, TruncateKeeps
<1>5. ASSUME Store!Made, NEW p \in Writers, NEW x \in Store!Place, Store!Bfree(p, x)
      PROVE  StoreIInv'
    BY <1>5, BfreeKeeps
<1>6. ASSUME Store!Made, NEW p \in Writers,
             Store!NextChunk(p) \/ Store!WriteBlock(p) \/ Store!ChunkDone(p) \/ Store!Truncated(p)
      PROVE  StoreIInv'
    BY <1>6, ChunkKeeps, BlockKeeps, DoneKeeps, TruncatedKeeps
<1>7. CASE UNCHANGED Store!vars
    BY <1>7, StoreStutters DEF Store!vars
<1> QED
    BY <1>1, <1>2, <1>3, <1>4, <1>5, <1>6, <1>7 DEF Store!Next

\* The bitmap marks the blocks of the files and no others, and no block is in two places.
LEMMA BitmapIsExact ==
    ASSUME Formatted, StoreIInv
    PROVE  Store!BitmapExact
<1>1. \A i \in Store!Inum, x \in Store!Place : Has(i, x) # 0 =>
        /\ Has(i, x) >= nmeta
        /\ \A j \in Store!Inum, y \in Store!Place : Has(j, y) = Has(i, x) => j = i /\ y = x
    BY DEF StoreIInv, UsedOnce
<1>2. ASSUME Store!Made
      PROVE  bitmap = 0..(nmeta - 1)
                          \cup ({Has(i, x) : i \in Store!Inum, x \in Store!Place} \ {0})
    <2>1. Used = bitmap /\ bitmap \subseteq Nat /\ nmeta \in Nat
        BY <1>2 DEF Used, StoreIInv, UsedOnce, Store!Block, Formatted
    <2>2. ASSUME NEW b \in bitmap
          PROVE  \/ b \in 0..(nmeta - 1)
                 \/ b # 0 /\ \E i \in Store!Inum, x \in Store!Place : b = Has(i, x)
        <3>1. b \in Nat /\ (b < nmeta => b \in 0..(nmeta - 1))
            BY <2>1, <2>2
        <3>2. b >= nmeta => b # 0 /\ \E i \in Store!Inum, x \in Store!Place : b = Has(i, x)
            BY <2>1, <2>2 DEF StoreIInv, UsedAll, Formatted
        <3>3. b < nmeta \/ b >= nmeta
            BY <2>1, <3>1
        <3> QED
            BY <3>1, <3>2, <3>3
    <2>3. 0..(nmeta - 1) \subseteq bitmap
        BY <2>1 DEF StoreIInv, UsedOnce
    <2>4. \A i \in Store!Inum, x \in Store!Place : Has(i, x) # 0 => Has(i, x) \in bitmap
        BY <2>1 DEF StoreIInv, UsedOnce
    <2> QED
        BY <2>2, <2>3, <2>4
<1> QED
    BY <1>1, <1>2 DEF Store!BitmapExact, Has, Store!NoBlock

\* A file that is being truncated is locked.
LEMMA UnlockedIs ==
    ASSUME StoreIInv, NEW i \in Store!Inum, ~Store!Locked(i)
    PROVE  ~Truncating(i) /\ Filled(i) /\ Len(contents[i]) = inode[i].size
BY DEF Store!Locked, Truncating, StoreIInv, AllFilled, SizesOK

\* The block that readi() finds for a block number.
LEMMA LookupIs ==
    ASSUME Formatted, NEW i \in Store!Inum, ~Truncating(i), NEW x \in DataPlace
    PROVE  Store!Lookup(disk, inode[i], x) = Has(i, x)
BY NeededIs

\* What is read of a file that nobody is writing.
LEMMA ReadsTheContents ==
    ASSUME Formatted, StoreIInv
    PROVE  Store!ReadsWhatWasWritten
<1> SUFFICES ASSUME NEW i \in Store!Inum, ~Store!Locked(i)
             PROVE  Store!Readi(i) = contents[i]
    BY DEF Store!ReadsWhatWasWritten
<1>1. ~Truncating(i) /\ Filled(i) /\ Len(contents[i]) = inode[i].size
    BY UnlockedIs
<1>2. contents[i] \in Seq(Nat)
    BY DEF StoreIInv, DiskTypes
<1>3. PICK c : c = contents[i]
    OBVIOUS
<1>4. c \in Seq(Nat) /\ Len(c) \in Nat /\ Len(c) = inode[i].size /\ DOMAIN c = 1..Len(c)
    BY <1>1, <1>2, <1>3
<1>5. ASSUME NEW k \in 1..Len(c)
      PROVE  (LET b == Store!Lookup(disk, inode[i], (k - 1) \div BSIZE) IN
              IF b = Store!NoBlock THEN 0 ELSE disk[b][((k - 1) % BSIZE) + 1]) = c[k]
    <2>1. PICK w : w = k - 1
        OBVIOUS
    <2>2. w \in Nat /\ w < Len(c) /\ k = w + 1
        BY <1>4, <1>5, <2>1
    <2>3. PICK x : x = w \div BSIZE
        OBVIOUS
    <2>4. PICK u : u = w % BSIZE
        OBVIOUS
    <2>5. /\ x \in Nat /\ Start(x) <= w /\ w < Start(x) + BSIZE /\ u = w - Start(x)
          /\ Start(x) \in Nat /\ BSIZE \in Nat
        BY <2>2, <2>3, <2>4, StartOf, StartIs DEF Formatted
    <2>6. x \in DataPlace
        <3>1. Store!MAXFILE \in Nat /\ Start(Store!MAXFILE) \in Nat
            BY PlacesAre, StartIs
        <3>2. w < Start(Store!MAXFILE)
            BY <1>1, <1>3, <1>4, <2>2, <3>1 DEF Filled
        <3>3. ~(Store!MAXFILE <= x)
            BY <2>2, <2>3, <3>1, <3>2, StartCompared
        <3> QED
            BY <2>5, <3>1, <3>3 DEF DataPlace
    <2>7. Has(i, x) # 0
        BY <1>1, <1>3, <1>4, <2>2, <2>5, <2>6 DEF Filled
    <2>8. u + 1 \in 1..BSIZE /\ Start(x) + (u + 1) = k
        BY <2>2, <2>5
    <2>9. disk[Has(i, x)][u + 1] = Unit(c, k)
        BY <1>1, <1>3, <2>6, <2>7, <2>8 DEF Filled
    <2>10. Unit(c, k) = c[k]
        BY <1>4 DEF Unit
    <2>11. Store!Lookup(disk, inode[i], (k - 1) \div BSIZE) = Has(i, x)
        BY <1>1, <2>1, <2>3, <2>6, LookupIs
    <2> QED
        BY <2>1, <2>4, <2>7, <2>9, <2>10, <2>11 DEF Store!NoBlock
<1>6. Store!Readi(i) = [k \in 1..Len(c) |-> c[k]]
    BY <1>4, <1>5, Zenon DEF Store!Readi
<1>7. [k \in 1..Len(c) |-> c[k]] = c
    BY <1>4
<1> QED
    BY <1>3, <1>6, <1>7

\* A file that nobody is writing has the blocks of its size, and no others.
LEMMA NoneIsMissing ==
    ASSUME Formatted, StoreIInv
    PROVE  Store!NoHoles
<1> SUFFICES ASSUME NEW i \in Store!Inum, ~Store!Locked(i), NEW bn \in DataPlace
             PROVE  Store!Lookup(disk, inode[i], bn) # 0 <=> bn * BSIZE < inode[i].size
    BY DEF Store!NoHoles, DataPlace, Store!NoBlock
<1>1. ~Truncating(i) /\ Filled(i) /\ Len(contents[i]) = inode[i].size
    BY UnlockedIs
<1>2. Store!Lookup(disk, inode[i], bn) = Has(i, bn)
    BY <1>1, LookupIs
<1>3. Has(i, bn) # 0 <=> Start(bn) < inode[i].size
    BY <1>1 DEF Filled
<1> QED
    BY <1>2, <1>3 DEF Start

\* What mkfs has copied is the whole of the files it is past.
LEMMA ImageIsCopied ==
    ASSUME Formatted, StoreIInv
    PROVE  Store!ImageHolds
<1> SUFFICES ASSUME ops = 0, NEW k \in DOMAIN Programs, k < image.k
             PROVE  contents[k + 1] = Programs[k]
    BY DEF Store!ImageHolds
<1>1. PICK c : c = contents[k + 1]
    OBVIOUS
<1>2. PICK d : d = Programs[k]
    OBVIOUS
<1>3. Copied(k) = Len(d)
    BY <1>2 DEF Copied
<1>4. Len(c) = Len(d) /\ \A u \in 1..Len(d) : c[u] = d[u]
    <2>1. /\ Len(contents[k + 1]) = Copied(k)
          /\ \A u \in 1..Copied(k) : contents[k + 1][u] = Programs[k][u]
        BY DEF StoreIInv, ImageOK
    <2> QED
        BY <1>1, <1>2, <1>3, <2>1
<1>5. d \in Seq(Nat) /\ k \in 1..Len(Programs) /\ Len(Programs) \in Nat
    BY <1>2 DEF Formatted
<1>6. c \in Seq(Nat)
    <2>1. k + 1 \in Store!Inum
        BY <1>5 DEF Store!Inum
    <2> QED
        BY <1>1, <2>1 DEF StoreIInv, DiskTypes
<1>7. c \in [1..Len(d) -> Nat] /\ d \in [1..Len(d) -> Nat]
    BY <1>4, <1>5, <1>6
<1>8. c = d
    BY <1>4, <1>7
<1> QED
    BY <1>1, <1>2, <1>8

\* There are no more numbers from f on, up to the l-th, than that, whatever they stand for.
LEMMA FewNamed ==
    ASSUME NEW f \in Nat, NEW l \in Nat, NEW named
    PROVE  LET C == {named[x] : x \in f..(f + l)} IN
           IsFiniteSet(C) /\ Cardinality(C) \in Nat /\ Cardinality(C) <= l + 1
<1> DEFINE S == f..(f + l)
           C == {named[x] : x \in S}
           g == [x \in S |-> named[x]]
<1>1. IsFiniteSet(S) /\ Cardinality(S) = l + 1
    <2>1. f \in Int /\ f + l \in Int /\ ~(f > f + l) /\ (f + l) - f + 1 = l + 1
        OBVIOUS
    <2> QED
        BY <2>1, FS_Interval
<1> HIDE DEF S
<1>2. g \in Surjection(S, C)
    BY DEF Surjection
<1> HIDE DEF C, g
<1>3. IsFiniteSet(C) /\ Cardinality(C) <= Cardinality(S)
    BY <1>1, <1>2, FS_Surjection
<1>4. Cardinality(C) \in Nat
    BY <1>3, FS_CardinalityType
<1>5. IsFiniteSet(C) /\ Cardinality(C) \in Nat /\ Cardinality(C) <= l + 1
    BY <1>1, <1>3, <1>4
<1> QED
    BY <1>5 DEF C, S

\* No transaction logs more blocks than it has reserved.
LEMMA TransactionsFit ==
    ASSUME Formatted, StoreIInv
    PROVE  Store!TransactionFits
<1> SUFFICES ASSUME NEW p \in Writers
             PROVE  Cardinality(logged[p]) + 1 <= MAXOPBLOCKS
    <2>1. \A p \in Writers : Store!Cardinality(logged[p]) = Cardinality(logged[p])
        BY Zenon DEF Store!Cardinality, Cardinality
    <2> QED
        BY <2>1, Zenon DEF Store!TransactionFits
<1>1. /\ JobOK(p) /\ job[p].op \in {"none", "wait", "write", "trunc"}
      /\ MAXOPBLOCKS \in Nat /\ MAXOPBLOCKS >= 4
    BY JobIs DEF Formatted
<1>2. Cardinality({}) = 0 /\ IsFiniteSet({})
    BY FS_EmptySet
<1>3. CASE job[p].op \in {"none", "wait"}
    BY <1>1, <1>2, <1>3 DEF JobOK
<1>4. CASE job[p].op = "trunc"
    <2>1. logged[p] \subseteq {Store!Bitmap}
        BY <1>1, <1>4 DEF JobOK, TruncOK
    <2>2. IsFiniteSet({Store!Bitmap}) /\ Cardinality({Store!Bitmap}) = 1
        BY FS_Singleton
    <2>3. /\ IsFiniteSet(logged[p]) /\ Cardinality(logged[p]) <= 1
        BY <2>1, <2>2, FS_Subset
    <2>4. Cardinality(logged[p]) \in Nat
        BY <2>3, FS_CardinalityType
    <2> QED
        BY <1>1, <2>3, <2>4
<1>5. CASE job[p].op = "write"
    <2>1. LogFits(p)
        BY <1>1, <1>5 DEF JobOK, WriteOK
    <2>2. PICK l : l = Store!MaxBlocks
        OBVIOUS
    <2>3. l \in Nat /\ l + 4 <= MAXOPBLOCKS
        BY <1>1, <2>2, SMT DEF Store!MaxBlocks
    <2>4. PICK f \in Nat :
            \A c \in logged[p] :
               \/ c = Store!Bitmap
               \/ c # 0 /\ c = Has(job[p].i, Store!MAXFILE)
               \/ c # 0 /\ \E x \in f..(f + l) : x \in DataPlace /\ c = Has(job[p].i, x)
        BY <2>1, <2>2 DEF LogFits
    <2>5. PICK named : named = [x \in f..(f + l) |-> Has(job[p].i, x)]
        OBVIOUS
    <2>6. PICK C : C = {named[x] : x \in f..(f + l)}
        OBVIOUS
    <2>7. IsFiniteSet(C) /\ Cardinality(C) \in Nat /\ Cardinality(C) <= l + 1
        BY <2>3, <2>6, FewNamed
    <2>8. PICK D : D = C \cup {Store!Bitmap}
        OBVIOUS
    <2>9. IsFiniteSet(D) /\ Cardinality(D) <= l + 2 /\ Cardinality(D) \in Nat
        <3>1. /\ IsFiniteSet(D)
              /\ Cardinality(D) = IF Store!Bitmap \in C THEN Cardinality(C) ELSE Cardinality(C) + 1
            BY <2>7, <2>8, FS_AddElement
        <3> QED
            BY <2>3, <2>7, <3>1
    <2>10. PICK E : E = D \cup {Has(job[p].i, Store!MAXFILE)}
        OBVIOUS
    <2>11. IsFiniteSet(E) /\ Cardinality(E) <= l + 3 /\ Cardinality(E) \in Nat
        <3>1. /\ IsFiniteSet(E)
              /\ Cardinality(E) = IF Has(job[p].i, Store!MAXFILE) \in D
                                  THEN Cardinality(D) ELSE Cardinality(D) + 1
            BY <2>9, <2>10, FS_AddElement
        <3> QED
            BY <2>3, <2>9, <3>1
    <2>12. logged[p] \subseteq E
        <3> SUFFICES ASSUME NEW c \in logged[p] PROVE c \in E
            OBVIOUS
        <3>1. CASE c = Store!Bitmap
            BY <2>8, <2>10, <3>1
        <3>2. CASE c = Has(job[p].i, Store!MAXFILE)
            BY <2>10, <3>2
        <3>3. ASSUME NEW x \in f..(f + l), c = Has(job[p].i, x)
              PROVE  c \in E
            <4>1. c = named[x]
                BY <2>5, <3>3
            <4> QED
                BY <2>6, <2>8, <2>10, <4>1
        <3> QED
            BY <2>4, <3>1, <3>2, <3>3
    <2>13. IsFiniteSet(logged[p]) /\ Cardinality(logged[p]) <= Cardinality(E)
        BY <2>11, <2>12, FS_Subset
    <2>14. Cardinality(logged[p]) \in Nat
        BY <2>13, FS_CardinalityType
    <2> QED
        BY <1>1, <2>3, <2>11, <2>13, <2>14
<1> QED
    BY <1>1, <1>3, <1>4, <1>5

\* In every reachable state, the bitmap marks the blocks of the files and no others, none
\* of which is in two places.
THEOREM StoreBitmapExact ==
    ASSUME Formatted
    PROVE  Store!Spec => []Store!BitmapExact
<1>1. Store!Init => StoreIInv
    BY StoreBegins
<1>2. StoreIInv /\ [Store!Next]_Store!vars => StoreIInv'
    BY StoreNext
<1>3. StoreIInv => Store!BitmapExact
    BY BitmapIsExact
<1> QED
    BY <1>1, <1>2, <1>3, PTL DEF Store!Spec

\* And a file that nobody is writing holds what was written to it, without holes; the
\* image holds the files it was given, and no transaction outgrows the log.
THEOREM StoreKeepsContents ==
    ASSUME Formatted
    PROVE  Store!Spec => [](/\ Store!ReadsWhatWasWritten /\ Store!ImageHolds
                            /\ Store!NoHoles /\ Store!TransactionFits)
<1>1. Store!Init => StoreIInv
    BY StoreBegins
<1>2. StoreIInv /\ [Store!Next]_Store!vars => StoreIInv'
    BY StoreNext
<1>3. StoreIInv => /\ Store!ReadsWhatWasWritten /\ Store!ImageHolds
                   /\ Store!NoHoles /\ Store!TransactionFits
    BY ReadsTheContents, ImageIsCopied, NoneIsMissing, TransactionsFit
<1> QED
    BY <1>1, <1>2, <1>3, PTL DEF Store!Spec
=============================================================================
