------------------------------- MODULE Memory -------------------------------
(***************************************************************************)
(* The page allocator (kalloc.c), the page tables (vm.c) and the system    *)
(* calls that change them: sbrk(), fork(), exec(), exit() and wait().      *)
(*                                                                         *)
(* Every kalloc() and kfree() is a step of its own: processes compete for  *)
(* the frames in the middle of each other's calls.  Contents are one value *)
(* for each page.  Addresses are in units of which PGSIZE make a page.     *)
(***************************************************************************)
EXTENDS Integers, Sequences, FiniteSetsExt, Functions

CONSTANTS
    Slot,           \* process slots
    First,          \* the process there is at the start
    NFrames,        \* free pages of physical memory at the start
    PGSIZE,
    PagesPerTable,  \* NPTENTRIES
    KTables,        \* page table pages for the kernel, which setupkvm() takes
    KERNBASE,
    Image           \* the pages of a program, as exec() loads them

Frame == 1..NFrames
NoFrame == 0
NoSlot == 0
OK == 0
NoGuard == -1

VARIABLES
    freelist,   \* kmem.freelist, as a sequence
    data,       \* the contents of each frame
    proc,       \* ptable: state, parent, sz, kstack, killed; guard: the page
                \* that exec() made inaccessible
    pgdir,      \* the address space of a process
    job,        \* of each process in the kernel: what it has got so far
    shadow,     \* what each page of a process should contain
    panicked

mvars == <<freelist, data, proc, pgdir, job, shadow, panicked>>

Empty == [x \in {} |-> x]
With(fn, x, value) == [y \in DOMAIN fn \cup {x} |-> IF y = x THEN value ELSE fn[y]]
NoSpace == [dir |-> NoFrame, tables |-> Empty, ptes |-> Empty]

\* `first`, then the pages, tables and directory of `old`, then `last` go to kfree().
Idle == [op |-> "none", at |-> "none", space |-> NoSpace, mem |-> NoFrame, page |-> 0,
         limit |-> 0, first |-> NoFrame, old |-> NoSpace, last |-> NoFrame,
         child |-> NoSlot, value |-> OK, kstack |-> NoFrame]
Unused == [state |-> "UNUSED", parent |-> NoSlot, sz |-> 0, kstack |-> NoFrame,
           killed |-> FALSE, guard |-> NoGuard, ret |-> OK]

PageUp(a) == (a + PGSIZE - 1) \div PGSIZE       \* PGROUNDUP, as a page number
PageOf(a) == a \div PGSIZE
TableOf(page) == page \div PagesPerTable
KernelTables == {TableOf(PageOf(KERNBASE)) + i : i \in 0..(KTables - 1)}

\* After exec(): the image, a guard page and a page of stack.
ImagePages == Len(Image) + 2
ImageSize == ImagePages * PGSIZE
ImageData == [i \in 0..(ImagePages - 1) |-> IF i < Len(Image) THEN Image[i + 1] ELSE "zero"]

ImageTables == 0..TableOf(ImagePages - 1)

\* The first process, as exec() has left it; frames are taken in order.
Init ==
    LET tables == 2 + KTables
        base == tables + TableOf(ImagePages - 1) + 1
        used == base + ImagePages IN
    /\ freelist = [i \in 1..(NFrames - used) |-> used + i]
    /\ pgdir = [p \in Slot |-> IF p # First THEN NoSpace ELSE
                 [dir |-> 1,
                  tables |-> [t \in KernelTables \cup ImageTables |->
                               IF t \in ImageTables THEN tables + 1 + t
                               ELSE 3 + t - TableOf(PageOf(KERNBASE))],
                  ptes |-> [i \in 0..(ImagePages - 1) |->
                             [frame |-> base + 1 + i, user |-> i # Len(Image)]]]]
    /\ data = [f \in Frame |-> IF f \in (base + 1)..used THEN ImageData[f - base - 1]
                               ELSE "junk"]
    /\ proc = [p \in Slot |-> IF p # First THEN Unused ELSE
                [Unused EXCEPT !.state = "user", !.sz = ImageSize, !.kstack = 2,
                               !.guard = Len(Image)]]
    /\ job = [p \in Slot |-> Idle]
    /\ shadow = [p \in Slot |-> IF p = First THEN ImageData ELSE Empty]
    /\ panicked = FALSE

-----------------------------------------------------------------------------
(* kalloc() and kfree() *)

\* A step of p with one kalloc(): with a frame for `contents`, or without.
Kalloc(p, got, contents, without) ==
    IF freelist = <<>>
    THEN job' = [job EXCEPT ![p] = without] /\ UNCHANGED <<freelist, data>>
    ELSE /\ job' = [job EXCEPT ![p] = got[Head(freelist)]]
         /\ freelist' = Tail(freelist)
         /\ data' = [data EXCEPT ![Head(freelist)] = contents]

\* A step with one kfree(), which fills the frame with junk.
Kfree(p, frame, rest) ==
    /\ freelist' = <<frame>> \o freelist
    /\ data' = [data EXCEPT ![frame] = "junk"]
    /\ job' = [job EXCEPT ![p] = rest]
    /\ UNCHANGED <<proc, pgdir, shadow, panicked>>

NothingFreed == UNCHANGED <<freelist, data>>

FreeFirst(p) ==
    LET j == job[p] IN
    /\ j.first # NoFrame
    /\ Kfree(p, j.first, [j EXCEPT !.first = NoFrame])

\* The loop of deallocuvm(), for all pages of `old`.
FreePage(p) ==
    LET j == job[p]
        pages == DOMAIN j.old.ptes
        i == Min(pages) IN
    /\ j.first = NoFrame /\ pages # {}
    /\ Kfree(p, j.old.ptes[i].frame, [j EXCEPT !.old.ptes = Restrict(@, pages \ {i})])

\* Mutant: freevm() forgets the page table pages of the user part.
TablesLeft_KernelOnly(space) == DOMAIN space.tables \cap KernelTables

TablesLeft(space) == DOMAIN space.tables

\* The loop of freevm().
FreeTable(p) ==
    LET j == job[p]
        tables == TablesLeft(j.old)
        t == Min(tables) IN
    /\ j.first = NoFrame /\ DOMAIN j.old.ptes = {} /\ tables # {}
    /\ Kfree(p, j.old.tables[t], [j EXCEPT !.old.tables = Restrict(@, DOMAIN @ \ {t})])

FreeDir(p) ==
    LET j == job[p] IN
    /\ j.first = NoFrame /\ DOMAIN j.old.ptes = {} /\ TablesLeft(j.old) = {}
    /\ j.old.dir # NoFrame
    /\ Kfree(p, j.old.dir, [j EXCEPT !.old = NoSpace])

FreeLast(p) ==
    LET j == job[p] IN
    /\ j.first = NoFrame /\ j.old = NoSpace /\ j.last # NoFrame
    /\ Kfree(p, j.last, [j EXCEPT !.last = NoFrame])

\* deallocuvm(): a space without the pages from `newsz` to `oldsz`, and those pages.
Leaving(space, oldsz, newsz) == DOMAIN space.ptes \cap (PageUp(newsz)..(PageUp(oldsz) - 1))
Kept(space, oldsz, newsz) ==
    [space EXCEPT !.ptes = Restrict(@, DOMAIN @ \ Leaving(space, oldsz, newsz))]
Dropped(space, oldsz, newsz) ==
    [NoSpace EXCEPT !.ptes = Restrict(space.ptes, Leaving(space, oldsz, newsz))]

-----------------------------------------------------------------------------
(* A call of p ends, or goes on *)

InUser(p) == proc[p].state = "user" /\ job[p].op = "none"
Freed(j) == j.first = NoFrame /\ j.old = NoSpace /\ j.last = NoFrame
At(p, place) == job[p].at = place /\ Freed(job[p]) /\ ~panicked

Return(p, value) == [proc EXCEPT ![p].ret = value]
Finish(p) == job' = [job EXCEPT ![p] = Idle]
Enter(p, j) == job' = [job EXCEPT ![p] = j]

\* A failing call frees what it has got, and returns -1: the page that it could not map,
\* the address space, and the kernel stack that fork() took.
Bad(j) == [j EXCEPT !.at = "fail", !.space = NoSpace, !.mem = NoFrame, !.kstack = NoFrame,
                    !.first = j.mem, !.old = j.space, !.last = j.kstack]

\* -1 to the caller; the slot that fork() took is UNUSED again.
Fail(p) ==
    /\ At(p, "fail")
    /\ Finish(p)
    /\ proc' = [q \in Slot |-> IF q = p THEN [proc[p] EXCEPT !.ret = -1]
                               ELSE IF q = job[p].child THEN Unused ELSE proc[q]]
    /\ NothingFreed /\ UNCHANGED <<pgdir, shadow, panicked>>

-----------------------------------------------------------------------------
(* sbrk() *)

\* Mutant: a page the break has left stays mapped if the break was inside it.
ShrinkFrom_Down(n) == (n \div PGSIZE) * PGSIZE

ShrinkFrom(n) == n

JobToGrow(p, newsz) ==
    [Idle EXCEPT !.op = "sbrk", !.at = "mem", !.space = pgdir[p], !.page = PageUp(proc[p].sz),
                 !.limit = newsz, !.value = proc[p].sz]

\* A size of 0 is taken for an error, after everything has been freed.
JobToShrink(p, newsz) ==
    LET sz == proc[p].sz
        end == ShrinkFrom(newsz) IN
    [Idle EXCEPT !.op = "sbrk", !.at = "resized", !.space = Kept(pgdir[p], sz, end),
                 !.limit = newsz, !.old = Dropped(pgdir[p], sz, end),
                 !.value = IF newsz = 0 THEN -1 ELSE sz]

\* growproc().  A negative size wraps, and deallocuvm() then does nothing.
Sbrk(p, n) ==
    LET sz == proc[p].sz
        newsz == sz + n IN
    /\ \/ (n = 0 \/ newsz < 0) /\ proc' = Return(p, sz) /\ UNCHANGED job
       \/ n > 0 /\ newsz >= KERNBASE /\ proc' = Return(p, -1) /\ UNCHANGED job
       \/ n > 0 /\ newsz < KERNBASE /\ Enter(p, JobToGrow(p, newsz)) /\ UNCHANGED proc
       \/ n < 0 /\ newsz >= 0 /\ Enter(p, JobToShrink(p, newsz)) /\ UNCHANGED proc
    /\ NothingFreed /\ UNCHANGED <<pgdir, shadow, panicked>>

\* Mutant: allocuvm() leaves what it has allocated when it runs out of memory.
Undo_Nothing(j, sz) == [j EXCEPT !.at = "resized", !.mem = NoFrame, !.value = -1, !.last = j.mem]

\* allocuvm() undoes what it did, but for the page table pages.
Undo(j, sz) ==
    [j EXCEPT !.at = "resized", !.mem = NoFrame, !.value = -1, !.space = Kept(@, j.limit, sz),
              !.old = Dropped(j.space, j.limit, sz), !.last = j.mem]

\* Pages that were not there before are to be zero.
Resized(p) ==
    LET j == job[p] IN
    /\ j.op = "sbrk" /\ At(p, "resized")
    /\ pgdir' = [pgdir EXCEPT ![p] = j.space]
    /\ proc' = [proc EXCEPT ![p].ret = j.value,
                            ![p].sz = IF j.value = -1 THEN @ ELSE j.limit,
                            ![p].guard = IF @ \in DOMAIN j.space.ptes THEN @ ELSE NoGuard]
    /\ shadow' = [shadow EXCEPT ![p] =
                    [i \in DOMAIN j.space.ptes |-> IF i \in DOMAIN @ THEN @[i] ELSE "zero"]]
    /\ Finish(p)
    /\ NothingFreed /\ UNCHANGED panicked

-----------------------------------------------------------------------------
(* Page by page: allocuvm() of sbrk() and exec(), copyuvm() of fork() *)

\* allocproc()'s kernel stack.
KernelStack(p) ==
    /\ At(p, "kstack")
    /\ Kalloc(p, [f \in Frame |-> [job[p] EXCEPT !.kstack = f, !.at = "dir"]], "kstack",
              Bad(job[p]))
    /\ UNCHANGED <<proc, pgdir, shadow, panicked>>

\* setupkvm()
Setupkvm(p) ==
    LET j == job[p]
        missing == KernelTables \ DOMAIN j.space.tables IN
    /\ At(p, "dir")
    /\ IF j.space.dir = NoFrame
       THEN Kalloc(p, [f \in Frame |-> [j EXCEPT !.space.dir = f]], "table", Bad(j))
       ELSE Kalloc(p, [f \in Frame |-> [j EXCEPT !.space.tables = With(@, Min(missing), f),
                                           !.at = IF missing = {Min(missing)}
                                                  THEN "mem" ELSE "dir"]],
                   "table", Bad(j))
    /\ UNCHANGED <<proc, pgdir, shadow, panicked>>

Short(j, p) == IF j.op = "sbrk" THEN Undo(j, proc[p].sz) ELSE Bad(j)

\* Mutant: a page of sbrk() is not cleared.
Contents_Junk(p, j) == CASE j.op = "fork" -> data[pgdir[p].ptes[j.page].frame]
                         [] j.op = "exec" -> ImageData[j.page]
                         [] j.op = "sbrk" -> "junk"

\* memset() or memmove(), or allocuvm() followed by loaduvm().
Contents(p, j) == CASE j.op = "fork" -> data[pgdir[p].ptes[j.page].frame]
                    [] j.op = "exec" -> ImageData[j.page]
                    [] j.op = "sbrk" -> "zero"

More(p) == job[p].page * PGSIZE < job[p].limit

\* "copyuvm: pte should exist", "copyuvm: page not present"
CopyPanics(p) == job[p].op = "fork" /\ job[p].page \notin DOMAIN pgdir[p].ptes

AllocPage(p) ==
    LET j == job[p] IN
    /\ At(p, "mem") /\ More(p)
    /\ IF CopyPanics(p) THEN panicked' = TRUE /\ NothingFreed /\ UNCHANGED job
       ELSE /\ Kalloc(p, [f \in Frame |-> [j EXCEPT !.mem = f, !.at = "map"]], Contents(p, j),
                      Short(j, p))
            /\ UNCHANGED panicked
    /\ UNCHANGED <<proc, pgdir, shadow>>

\* Mutant: the copy of a page is accessible whether or not the page was.
UserBit_Always(p, j) == IF j.op = "exec" THEN j.page # Len(Image) ELSE TRUE

\* The flags copyuvm() copies; exec() clears PTE_U of the page below the stack.
UserBit(p, j) == CASE j.op = "fork" -> pgdir[p].ptes[j.page].user
                   [] j.op = "exec" -> j.page # Len(Image)
                   [] j.op = "sbrk" -> TRUE

\* mappages() of one page: first its page table page, if walkpgdir() finds none.
MapPage(p) ==
    LET j == job[p]
        t == TableOf(j.page) IN
    /\ At(p, "map")
    /\ IF t \in DOMAIN j.space.tables
       THEN /\ job' = [job EXCEPT ![p] =
                 [j EXCEPT !.at = "mem", !.mem = NoFrame, !.page = @ + 1,
                           !.space.ptes = With(@, j.page, [frame |-> j.mem,
                                                           user |-> UserBit(p, j)])]]
            /\ NothingFreed
       ELSE Kalloc(p, [f \in Frame |-> [j EXCEPT !.space.tables = With(@, t, f)]], "table",
                   Short(j, p))
    /\ UNCHANGED <<proc, pgdir, shadow, panicked>>

\* All pages are there.
Grown(p) ==
    /\ job[p].op = "sbrk" /\ At(p, "mem") /\ ~More(p)
    /\ job' = [job EXCEPT ![p].at = "resized"]
    /\ NothingFreed /\ UNCHANGED <<proc, pgdir, shadow, panicked>>

-----------------------------------------------------------------------------
(* fork(), exec(), exit(), wait(), kill() *)

\* wait() holds ptable.lock while it frees the memory of a child.
PtableFree == \A q \in Slot : job[q].op # "wait"

Fork(p) ==
    LET free == {q \in Slot : proc[q].state = "UNUSED"} IN
    /\ PtableFree
    /\ IF free = {} THEN proc' = Return(p, -1) /\ UNCHANGED job
       ELSE /\ proc' = [proc EXCEPT ![Min(free)].state = "EMBRYO"]
            /\ Enter(p, [Idle EXCEPT !.op = "fork", !.at = "kstack", !.child = Min(free),
                                     !.limit = proc[p].sz])
    /\ NothingFreed /\ UNCHANGED <<pgdir, shadow, panicked>>

Forked(p) ==
    LET j == job[p] IN
    /\ j.op = "fork" /\ At(p, "mem") /\ ~More(p) /\ PtableFree
    /\ proc' = [proc EXCEPT ![p].ret = j.child,
                            ![j.child] = [Unused EXCEPT !.state = "user", !.parent = p,
                                !.sz = j.limit, !.kstack = j.kstack, !.guard = proc[p].guard]]
    /\ pgdir' = [pgdir EXCEPT ![j.child] = j.space]
    /\ shadow' = [shadow EXCEPT ![j.child] = shadow[p]]
    /\ Finish(p)
    /\ NothingFreed /\ UNCHANGED panicked

\* exec() with arguments of this size.
Exec(p, args) ==
    /\ Enter(p, [Idle EXCEPT !.op = "exec", !.at = "dir", !.limit = ImageSize, !.value = args])
    /\ NothingFreed /\ UNCHANGED <<proc, pgdir, shadow, panicked>>

\* copyout() of the arguments fails when they reach the guard page.
Loaded(p) ==
    LET j == job[p] IN
    /\ j.op = "exec" /\ At(p, "mem") /\ ~More(p)
    /\ IF j.value > PGSIZE
       THEN Enter(p, Bad(j)) /\ UNCHANGED <<proc, pgdir, shadow>>
       ELSE /\ pgdir' = [pgdir EXCEPT ![p] = j.space]
            /\ proc' = [proc EXCEPT ![p].sz = j.limit, ![p].guard = Len(Image)]
            /\ shadow' = [shadow EXCEPT ![p] = ImageData]
            /\ Enter(p, [Idle EXCEPT !.op = "exec", !.at = "done", !.old = pgdir[p]])
    /\ NothingFreed /\ UNCHANGED panicked

Exit(p) ==
    /\ p # First /\ PtableFree
    /\ proc' = [q \in Slot |-> IF q = p THEN [proc[p] EXCEPT !.state = "zombie"]
                  ELSE IF proc[q].parent = p THEN [proc[q] EXCEPT !.parent = First] ELSE proc[q]]
    /\ NothingFreed /\ UNCHANGED <<pgdir, job, shadow, panicked>>

Children(p) == {q \in Slot : proc[q].parent = p}

\* wait() finds a zombie, or there is no child; otherwise it sleeps.
Wait(p) ==
    LET zombies == {q \in Children(p) : proc[q].state = "zombie"}
        q == Min(zombies) IN
    /\ PtableFree
    /\ IF Children(p) = {} THEN proc' = Return(p, -1) /\ UNCHANGED <<pgdir, job, shadow>>
       ELSE /\ zombies # {}
            /\ Enter(p, [Idle EXCEPT !.op = "wait", !.at = "done", !.child = q, !.value = q,
                                     !.first = proc[q].kstack, !.old = pgdir[q]])
            /\ proc' = [proc EXCEPT ![q].kstack = NoFrame]
            /\ pgdir' = [pgdir EXCEPT ![q] = NoSpace]
            /\ shadow' = [shadow EXCEPT ![q] = Empty]
    /\ NothingFreed /\ UNCHANGED panicked

\* exec() and wait() return.
Done(p) ==
    /\ At(p, "done")
    /\ proc' = [q \in Slot |-> IF q = p THEN [proc[p] EXCEPT !.ret = job[p].value]
                               ELSE IF q = job[p].child THEN Unused ELSE proc[q]]
    /\ Finish(p)
    /\ NothingFreed /\ UNCHANGED <<pgdir, shadow, panicked>>

Kill(p, q) ==
    /\ PtableFree
    /\ proc' = [proc EXCEPT ![q].killed = TRUE, ![p].ret = OK]
    /\ NothingFreed /\ UNCHANGED <<pgdir, job, shadow, panicked>>

-----------------------------------------------------------------------------
(* Memory is used *)

Accessible(p, a) == LET pt == pgdir[p].ptes IN PageOf(a) \in DOMAIN pt /\ pt[PageOf(a)].user

\* A process whose code is gone faults at its next instruction.
CanRun(p) == Accessible(p, 0)

\* A load or store; trap() kills a process that faults.
Load(p, a) ==
    IF Accessible(p, a)
    THEN /\ proc' = Return(p, data[pgdir[p].ptes[PageOf(a)].frame])
         /\ NothingFreed /\ UNCHANGED <<pgdir, job, shadow, panicked>>
    ELSE Exit(p)

Store(p, a, value) ==
    IF Accessible(p, a)
    THEN /\ data' = [data EXCEPT ![pgdir[p].ptes[PageOf(a)].frame] = value]
         /\ shadow' = [shadow EXCEPT ![p][PageOf(a)] = value]
         /\ proc' = Return(p, OK)
         /\ UNCHANGED <<freelist, pgdir, job, panicked>>
    ELSE Exit(p)

\* fetchint(), fetchstr(): the kernel reads an argument at this address.
Fetch(p, a) ==
    /\ proc' = Return(p, IF a >= proc[p].sz THEN -1 ELSE OK)
    /\ panicked' = (a < proc[p].sz /\ PageOf(a) \notin DOMAIN pgdir[p].ptes)
    /\ NothingFreed /\ UNCHANGED <<pgdir, job, shadow>>

InKernel(p) ==
    \/ FreeFirst(p) \/ FreePage(p) \/ FreeTable(p) \/ FreeDir(p) \/ FreeLast(p)
    \/ Fail(p) \/ Resized(p) \/ KernelStack(p) \/ Setupkvm(p)
    \/ AllocPage(p) \/ MapPage(p) \/ Grown(p) \/ Forked(p) \/ Loaded(p) \/ Done(p)

-----------------------------------------------------------------------------
(* Properties *)

Hits(x, f) == IF x = f THEN 1 ELSE 0
Uses(fn, f) == Cardinality({x \in DOMAIN fn : fn[x] = f})
FramesOf(ptes) == [i \in DOMAIN ptes |-> ptes[i].frame]

\* How often a frame is in an address space, in the hands of p, with an owner.
InSpace(space, f) == Hits(space.dir, f) + Uses(space.tables, f) + Uses(FramesOf(space.ptes), f)
InHand(j, f) ==
    Hits(j.mem, f) + Hits(j.kstack, f) + Hits(j.first, f) + Hits(j.last, f)
      + InSpace(j.space, f) + InSpace(j.old, f)
Holds(p, f) ==
    Hits(proc[p].kstack, f) + InHand(job[p], f)
      + (IF job[p].op = "sbrk" THEN 0 ELSE InSpace(pgdir[p], f))
Has(owner, f) == IF owner = NoSlot THEN Uses(freelist, f) ELSE Holds(owner, f)
Owner == Slot \cup {NoSlot}

\* No frame is lost or in use twice, in the middle of any call and after any of the
\* ways in which sbrk(), fork() and exec() run out of memory.
EveryFrameOnce ==
    \A f \in Frame : \E owner \in Owner :
        Has(owner, f) = 1 /\ \A other \in Owner \ {owner} : Has(other, f) = 0

\* A process finds in its memory what it put there, or its parent before fork(), or
\* exec(), and zero in new pages: whoever had its frames before, or has copies.
PrivateMemory ==
    \A p \in Slot : InUser(p) =>
        \A i \in DOMAIN pgdir[p].ptes : data[pgdir[p].ptes[i].frame] = shadow[p][i]

\* A process that can run has exactly the pages below its size, in spite of sbrk()s
\* that failed; copyuvm() and the system call arguments rely on it.
SizeIsMapped ==
    \A p \in Slot : InUser(p) /\ CanRun(p) =>
        DOMAIN pgdir[p].ptes = 0..(PageUp(proc[p].sz) - 1)

\* The page below the stack stays inaccessible, in children too.
GuardStays ==
    \A p \in Slot : InUser(p) /\ proc[p].guard # NoGuard =>
        ~Accessible(p, proc[p].guard * PGSIZE)

\* copyuvm() and the fetching of arguments never meet a page that is missing.
NoMemPanic == ~panicked
=============================================================================
