------------------------------ MODULE SharedMem ------------------------------
(***************************************************************************)
(* Shared memory pages (open_sharedmem and close_sharedmem of vm.c) and    *)
(* what fork(), exec() and exit() do to address spaces that contain them   *)
(* (copyuvm, freevm).  The calls on the table run under shmemtable.lock,   *)
(* one step each.                                                          *)
(*                                                                         *)
(* A user address space is the sequence of the page frames below p->sz; an *)
(* address is the position of its page.  The program image is one page.    *)
(* Page tables take no frames here, so mappages() does not fail.           *)
(***************************************************************************)
EXTENDS Integers, Sequences, FiniteSets

CONSTANTS
    Proc,        \* slots of the process table
    First,       \* the one that runs at the start
    Frame,       \* physical pages kalloc() hands out, not 0 or -1
    NSHPAGE,     \* size of shmemtable.pages
    Ids,         \* ids that programs pass to open and close, from 1 on
    MaxPages,    \* bound: no address space grows beyond this many pages
    Disciplined  \* programs use the calls as sham_test.c does

Entries == 1..NSHPAGE
Hole  == -1                  \* a page table entry that is not present
Page0 == 0                   \* physical address 0, which kalloc() never returns

VARIABLES
    state,      \* "unused", "user", "fork" (in copyuvm), or "zombie"
    pt,         \* the frames below p->sz
    shmemaddr,  \* p->shmemaddr; 1 stands for address 0
    using,      \* the id p has open, 0 if none (what its program knows)
    id, n_access, physicalAddr,     \* shmemtable.pages[i]
    free        \* kmem.freelist

table == <<id, n_access, physicalAddr>>
vars == <<state, pt, shmemaddr, using, table, free>>

Init ==
    /\ \E f \in Frame :
         /\ pt = [p \in Proc |-> IF p = First THEN <<f>> ELSE <<>>]
         /\ free = Frame \ {f}
    /\ state = [p \in Proc |-> IF p = First THEN "user" ELSE "unused"]
    /\ shmemaddr = [p \in Proc |-> 1]
    /\ using = [p \in Proc |-> 0]
    /\ id = [i \in Entries |-> 0]
    /\ n_access = [i \in Entries |-> 0]
    /\ physicalAddr = [i \in Entries |-> Page0]

\* The frames an address space maps.
Mapped(p) == {pt[p][i] : i \in DOMAIN pt[p]} \ {Hole}
HasHole(p) == \E i \in DOMAIN pt[p] : pt[p][i] = Hole

IsFirst(i, S) == i \in S /\ \A j \in S : i <= j
WithId(k) == {i \in Entries : id[i] = k}

-----------------------------------------------------------------------------
(* open_sharedmem(k) *)

\* Mutant: p->sz grows before the address is taken.
MapAtEnd_SizeFirst(p, f) ==
    /\ pt' = [pt EXCEPT ![p] = Append(@, f)]
    /\ shmemaddr' = [shmemaddr EXCEPT ![p] = Len(pt[p]) + 2]

\* The page goes to the end of the address space of p.
MapAtEnd(p, f) ==
    /\ pt' = [pt EXCEPT ![p] = Append(@, f)]
    /\ shmemaddr' = [shmemaddr EXCEPT ![p] = Len(pt[p]) + 1]

MayOpen(p, k) ==
    /\ state[p] = "user" /\ Len(pt[p]) < MaxPages
    /\ Disciplined => using[p] = 0

\* Mutant: the count is set, not incremented, when a page is opened again.
CountOpen_Set(i) == n_access' = [n_access EXCEPT ![i] = 1]

CountOpen(i) == n_access' = [n_access EXCEPT ![i] = @ + 1]

OpenExisting(p, k) ==
    /\ MayOpen(p, k)
    /\ \E i \in Entries :
         /\ IsFirst(i, WithId(k))
         /\ CountOpen(i)
         /\ MapAtEnd(p, physicalAddr[i])
    /\ using' = [using EXCEPT ![p] = k]
    /\ UNCHANGED <<state, id, physicalAddr, free>>

OpenNew(p, k) ==
    /\ MayOpen(p, k)
    /\ WithId(k) = {}
    /\ \E i \in Entries, f \in free :
         /\ IsFirst(i, WithId(0))
         /\ id' = [id EXCEPT ![i] = k]
         /\ physicalAddr' = [physicalAddr EXCEPT ![i] = f]
         /\ free' = free \ {f}
         /\ CountOpen(i)
         /\ MapAtEnd(p, f)
    /\ using' = [using EXCEPT ![p] = k]
    /\ UNCHANGED state

\* No memory: returns -1, but leaves the id in the table, with n_access 0 and
\* whatever physicalAddr the entry had.
OpenNoMemory(p, k) ==
    /\ MayOpen(p, k)
    /\ WithId(k) = {} /\ free = {}
    /\ \E i \in Entries :
         /\ IsFirst(i, WithId(0))
         /\ id' = [id EXCEPT ![i] = k]
    /\ UNCHANGED <<state, pt, shmemaddr, using, n_access, physicalAddr, free>>

\* "shared memory: pages are full": returns -1.
OpenTableFull(p, k) ==
    /\ MayOpen(p, k)
    /\ WithId(k) = {} /\ WithId(0) = {}
    /\ UNCHANGED vars

-----------------------------------------------------------------------------
(* close_sharedmem(k) *)

MayClose(p, k) ==
    /\ state[p] = "user"
    /\ Disciplined => using[p] = k

\* Mutant: close takes the page at the end of the address space.
CloseAt_End(p) == Len(pt[p])

CloseAt(p) == shmemaddr[p]

\* Mutant: the first close of a page gives up its id.
IdAfterClose_Always(i) == 0

IdAfterClose(i) == IF n_access[i] = 1 THEN 0 ELSE id[i]

\* The entry's count drops, and with the last user its id; the page table entry
\* at p->shmemaddr is cleared, whatever it maps.  p->sz stays, and the frame of
\* a page nobody has open any more is never given back to kalloc().
Close(p, k) ==
    /\ MayClose(p, k)
    /\ \E i \in Entries :
         /\ IsFirst(i, WithId(k))
         /\ n_access' = [n_access EXCEPT ![i] = @ - 1]
         /\ id' = [id EXCEPT ![i] = IdAfterClose(i)]
    /\ pt' = [pt EXCEPT ![p] =
                [j \in DOMAIN @ |-> IF j = CloseAt(p) THEN Hole ELSE @[j]]]
    /\ using' = [using EXCEPT ![p] = IF @ = k THEN 0 ELSE @]
    /\ UNCHANGED <<state, shmemaddr, physicalAddr, free>>

-----------------------------------------------------------------------------
(* sbrk(), fork(), exec(), exit(), wait() *)

\* sbrk(PGSIZE): growproc() adds a page at the end.
Grow(p) ==
    /\ state[p] = "user" /\ Len(pt[p]) < MaxPages
    /\ \E f \in free :
         /\ pt' = [pt EXCEPT ![p] = Append(@, f)]
         /\ free' = free \ {f}
    /\ UNCHANGED <<state, shmemaddr, using, table>>

CallFork(p) ==
    /\ state[p] = "user"
    /\ Disciplined => ~HasHole(p)
    /\ state' = [state EXCEPT ![p] = "fork"]
    /\ UNCHANGED <<pt, shmemaddr, using, table, free>>

\* copyuvm() panics on a page below p->sz that is not present.
CopyuvmPanics(p) == state[p] = "fork" /\ HasHole(p)

\* Mutant: copyuvm() maps the parent's frames instead of copying them.
Copies_Share(p) == {pt[p]}

\* The address spaces copyuvm() can build for a copy of p's.
Copies(p) == {s \in [DOMAIN pt[p] -> free] :
                \A i, j \in DOMAIN pt[p] : s[i] = s[j] => i = j}

\* Every page is copied, the shared ones too: the child has private copies of
\* them at the same addresses.  It keeps the shmemaddr its slot had.
Fork(p, q) ==
    /\ state[p] = "fork" /\ ~HasHole(p)
    /\ state[q] = "unused"
    /\ \E s \in Copies(p) :
         /\ pt' = [pt EXCEPT ![q] = s]
         /\ free' = free \ {s[i] : i \in DOMAIN s}
    /\ state' = [state EXCEPT ![p] = "user", ![q] = "user"]
    /\ using' = [using EXCEPT ![q] = 0]
    /\ UNCHANGED <<shmemaddr, table>>

\* No slot or not enough memory.
ForkFail(p) ==
    /\ state[p] = "fork" /\ ~HasHole(p)
    /\ \/ \A q \in Proc : state[q] # "unused"
       \/ Cardinality(free) < Len(pt[p])
    /\ state' = [state EXCEPT ![p] = "user"]
    /\ UNCHANGED <<pt, shmemaddr, using, table, free>>

MayDrop(p) == Disciplined => using[p] = 0

\* deallocuvm() panics on a page that maps physical address 0.
FreevmPanics(p) == Page0 \in Mapped(p)

\* exec(): a new image; the old address space is freed.
Exec(p) ==
    /\ state[p] = "user" /\ MayDrop(p) /\ ~FreevmPanics(p)
    /\ \E f \in free :
         /\ pt' = [pt EXCEPT ![p] = <<f>>]
         /\ free' = (free \ {f}) \cup Mapped(p)
    /\ UNCHANGED <<state, shmemaddr, using, table>>

\* No memory for the new image: returns -1 and the old one goes on.
ExecFail(p) ==
    /\ state[p] = "user" /\ free = {}
    /\ UNCHANGED vars

Exit(p) ==
    /\ state[p] = "user" /\ MayDrop(p) /\ p # First
    /\ state' = [state EXCEPT ![p] = "zombie"]
    /\ UNCHANGED <<pt, shmemaddr, using, table, free>>

\* freevm() in the parent's wait(): every page still mapped goes to kfree(), the
\* shared ones too.
Reap(p) ==
    /\ state[p] = "zombie" /\ ~FreevmPanics(p)
    /\ state' = [state EXCEPT ![p] = "unused"]
    /\ free' = free \cup Mapped(p)
    /\ pt' = [pt EXCEPT ![p] = <<>>]
    /\ UNCHANGED <<shmemaddr, using, table>>

Next ==
    \E p \in Proc :
      \/ \E k \in Ids : OpenExisting(p, k) \/ OpenNew(p, k) \/ OpenNoMemory(p, k)
                        \/ OpenTableFull(p, k) \/ Close(p, k)
      \/ Grow(p) \/ CallFork(p) \/ (\E q \in Proc : Fork(p, q)) \/ ForkFail(p)
      \/ Exec(p) \/ ExecFail(p) \/ Exit(p) \/ Reap(p)

Spec == Init /\ [][Next]_vars

-----------------------------------------------------------------------------
(* Properties *)

\* Every variable keeps its type.
TypeOK ==
    /\ state \in [Proc -> {"unused", "user", "fork", "zombie"}]
    /\ pt \in [Proc -> Seq(Frame \cup {Hole, Page0})]
    /\ shmemaddr \in [Proc -> 1..MaxPages]
    /\ using \in [Proc -> Ids \cup {0}]
    /\ id \in [Entries -> Ids \cup {0}]
    /\ n_access \in [Entries -> Nat]
    /\ physicalAddr \in [Entries -> Frame \cup {Page0}]
    /\ free \subseteq Frame

Users(k) == {p \in Proc : using[p] = k}

\* Sharing is real: whoever has opened k finds, at the address open returned,
\* the one frame the table has for k.
SameFrame ==
    \A p \in Proc : using[p] # 0 =>
        \E i \in Entries : /\ WithId(using[p]) = {i}
                           /\ pt[p][shmemaddr[p]] = physicalAddr[i]

\* n_access is the number of processes that have the page open.
CountsUsers ==
    \A i \in Entries : id[i] # 0 => n_access[i] = Cardinality(Users(id[i]))

\* No address space maps a frame that kalloc() may hand out again, and two map
\* the same frame only if both have the page open.  (Page0 is not a frame of
\* kalloc()'s: it is what an open finds after OpenNoMemory in a fresh entry.)
NoStrayFrame ==
    /\ \A p \in Proc : Mapped(p) \cap free = {}
    /\ \A p, q \in Proc : p # q =>
         \A i \in DOMAIN pt[p], j \in DOMAIN pt[q] :
            pt[p][i] = pt[q][j] /\ pt[p][i] \in Frame =>
                using[p] # 0 /\ using[p] = using[q]
                /\ i = shmemaddr[p] /\ j = shmemaddr[q]

\* What shared memory promises to programs.
SharedPagesAreShared == TypeOK /\ SameFrame /\ CountsUsers /\ NoStrayFrame

\* The assertion in copyuvm() ("page not present") never fires.
ForkFindsItsPages == \A p \in Proc : ~CopyuvmPanics(p)
=============================================================================
