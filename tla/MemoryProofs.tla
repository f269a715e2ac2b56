---------------------------- MODULE MemoryProofs ----------------------------
(***************************************************************************)
(* Proofs about Memory, for every memory, page size, table size and finite *)
(* set of processes, which make any calls; the tests are such programs.    *)
(* First who holds each frame, then the programs, then what pages contain. *)
(***************************************************************************)
EXTENDS MemTests, FiniteSetTheorems, SequenceTheorems, WellFoundedInduction, TLAPS

CONSTANT Value      \* what a page may contain and a call return

\* What the constants stand for; the image is below the kernel, and the first process
\* fits into memory.
Sane ==
    /\ Slot \in SUBSET (Nat \ {0}) /\ IsFiniteSet(Slot) /\ First \in Slot
    /\ NFrames \in Nat /\ PGSIZE \in Nat \ {0} /\ PagesPerTable \in Nat \ {0}
    /\ KTables \in Nat \ {0} /\ KERNBASE \in Nat
    /\ Image \in Seq(Value) /\ Image # <<>>
    /\ {"junk", "zero", "kstack", "table"} \subseteq Value /\ Int \subseteq Value
    /\ TableOf(ImagePages - 1) < TableOf(PageOf(KERNBASE))
    /\ 3 + KTables + TableOf(ImagePages - 1) + ImagePages <= NFrames

\* Page tables and directories: functions on finitely many numbers.
Map(S) == UNION {[D -> S] : D \in {E \in SUBSET Nat : IsFiniteSet(E)}}
Pte == [frame : Frame, user : BOOLEAN]
MaybeFrame == Frame \cup {NoFrame}
Space == [dir : MaybeFrame, tables : Map(Frame), ptes : Map(Pte)]

Job ==
    [op : {"none", "sbrk", "fork", "exec", "wait"},
     at : {"none", "kstack", "dir", "mem", "map", "resized", "fail", "done"},
     space : Space, mem : MaybeFrame, page : Nat, limit : Nat, first : MaybeFrame,
     old : Space, last : MaybeFrame, child : Owner, value : Int, kstack : MaybeFrame]

Process ==
    [state : {"UNUSED", "EMBRYO", "user", "zombie"}, parent : Owner, sz : Nat,
     kstack : MaybeFrame, killed : BOOLEAN, guard : Int, ret : Value]

Types ==
    /\ freelist \in Seq(Frame) /\ data \in [Frame -> Value]
    /\ proc \in [Slot -> Process] /\ pgdir \in [Slot -> Space] /\ job \in [Slot -> Job]
    /\ shadow \in [Slot -> Map(Value)] /\ panicked \in BOOLEAN

-----------------------------------------------------------------------------
(* Where a call is *)

\* The pages below a size.
Below(sz) == 0..(PageUp(sz) - 1)

\* What a call has in its hands, place by place.
Shape(j) ==
    /\ j.op = "none" => j = Idle
    /\ j.op # "none" => j.at # "none"
    /\ j.op = "sbrk" => /\ j.at \in {"mem", "map", "resized"}
                        /\ j.kstack = NoFrame /\ j.child = NoSlot
    /\ j.op = "fork" => j.at \in {"kstack", "dir", "mem", "map", "fail"} /\ j.child \in Slot
    /\ j.op = "exec" => /\ j.at \in {"dir", "mem", "map", "fail", "done"}
                        /\ j.kstack = NoFrame /\ j.child = NoSlot
    /\ j.op = "wait" => j.at = "done" /\ j.child \in Slot
    /\ j.at \in {"kstack", "dir", "mem", "map"} => Freed(j)
    /\ j.mem # NoFrame <=> j.at = "map"
    /\ j.at \in {"kstack", "fail", "done"} => j.space = NoSpace /\ j.kstack = NoFrame

\* The address space that a call builds.
Built(j) ==
    /\ j.at = "kstack" => j.page = 0
    /\ j.at = "dir" =>
         /\ j.page = 0 /\ j.space.ptes = Empty
         /\ KernelTables \ DOMAIN j.space.tables # {}
         /\ j.space.dir = NoFrame => j.space.tables = Empty
    /\ j.at \in {"mem", "map"} => DOMAIN j.space.ptes = 0..(j.page - 1) /\ j.page <= PageUp(j.limit)
    /\ j.at = "map" => j.page < PageUp(j.limit)

\* The pages of a process and of its call.
Sized(j, entry, space) ==
    /\ j.op # "sbrk" => DOMAIN space.ptes \in {{}, Below(entry.sz)}
    /\ j.op = "fork" => j.limit = entry.sz /\ DOMAIN space.ptes = Below(entry.sz)
    /\ j.op = "exec" /\ j.at \in {"dir", "mem", "map"} => j.limit = ImageSize
    /\ j.op = "sbrk" /\ j.at \in {"mem", "map"} => PageUp(entry.sz) <= j.page /\ j.value # -1
    /\ j.op = "sbrk" /\ j.at = "resized" =>
         DOMAIN j.space.ptes \in IF j.value = -1 THEN {{}, Below(entry.sz)} ELSE {Below(j.limit)}

\* A call and the processes it concerns.
Calling(p) ==
    LET j == job[p] IN
    /\ Shape(j) /\ Built(j)
    /\ proc[p].state = "user" => Sized(j, proc[p], pgdir[p])
    /\ j.op # "none" => proc[p].state = "user"
    /\ j.op = "fork" => proc[j.child].state = "EMBRYO"
    /\ j.op = "wait" => /\ proc[j.child].state = "zombie" /\ proc[j.child].kstack = NoFrame
                        /\ pgdir[j.child] = NoSpace

\* Slots that are not in use hold nothing, and are taken by one process only.
Slots ==
    /\ \A p \in Slot : proc[p].state \in {"UNUSED", "EMBRYO"} =>
                          proc[p].kstack = NoFrame /\ pgdir[p] = NoSpace
    /\ \A p, q \in Slot : p # q =>
         /\ job[p].op = "fork" /\ job[q].op = "fork" => job[p].child # job[q].child
         /\ job[p].op = "wait" => job[q].op # "wait"

Frames ==
    /\ Types /\ (\A p \in Slot : Calling(p)) /\ Slots
    /\ EveryFrameOnce /\ NoMemPanic

-----------------------------------------------------------------------------
(* Numbers and maps *)

\* A set of numbers has a least one.
LEMMA Least == ASSUME NEW S \in SUBSET Nat, S # {} PROVE Min(S) \in S /\ \A y \in S : Min(S) <= y
<1> DEFINE R == OpToRel(<, Nat)
<1>1. IsWellFoundedOn(R, Nat)
    BY NatLessThanWellFounded
<1>2. \A x, y \in Nat : x < y => <<x, y>> \in R
    BY DEF OpToRel
<1> HIDE DEF R
<1>3. PICK x \in S : \A y \in S : ~(<<y, x>> \in R)
    BY <1>1, WFMin
<1>4. ASSUME NEW y \in S PROVE x <= y
    <2>1. ~(y < x)
        BY <1>2, <1>3
    <2> QED
        BY <2>1, SMT
<1> QED
    BY <1>4 DEF Min

\* Dividing by a page size.
LEMMA Divided ==
    ASSUME NEW d \in Nat \ {0}, NEW a \in Nat
    PROVE  a \div d \in Nat /\ d * (a \div d) <= a /\ a < d * (a \div d) + d
<1>1. a \div d \in Int /\ a % d \in 0..(d - 1) /\ a = d * (a \div d) + (a % d)
    BY SMT
<1> QED
    BY <1>1, SMT

\* Order and products.
LEMMA Times ==
    ASSUME NEW d \in Nat \ {0}, NEW x \in Int, NEW y \in Int
    PROVE  /\ x <= y => d * x <= d * y
           /\ d * x < d * y => x < y
           /\ d * (x + 1) = d * x + d
BY SMT

\* Page i begins below a if and only if there are more than i pages up to a.
LEMMA PagesBelow ==
    ASSUME Sane, NEW a \in Nat
    PROVE  /\ PageUp(a) \in Nat
           /\ \A i \in Nat : i * PGSIZE < a <=> i < PageUp(a)
<1> DEFINE d == PGSIZE
           q == PageUp(a)
<1>1. d \in Nat \ {0} /\ a + d - 1 \in Nat
    BY DEF Sane
<1>2. q \in Nat /\ d * q <= a + d - 1 /\ a + d - 1 < d * q + d
    BY <1>1, Divided DEF PageUp
<1> HIDE DEF q, d
<1>3. ASSUME NEW i \in Nat, i * d < a PROVE i < q
    <2>1. d * q \in Int /\ d * i \in Int /\ i * d = d * i
        BY <1>1, <1>2, SMT
    <2>2. d * i < d * q
        BY <1>1, <1>2, <1>3, <2>1, SMT
    <2> QED
        BY <1>1, <1>2, <2>2, Times
<1>4. ASSUME NEW i \in Nat, i < q PROVE i * d < a
    <2>1. i + 1 <= q /\ i + 1 \in Int
        BY <1>2, <1>4
    <2>2. d * (i + 1) <= d * q /\ d * (i + 1) = d * i + d
        BY <1>1, <1>2, <2>1, Times
    <2>3. d * q \in Int /\ d * i \in Int /\ i * d = d * i
        BY <1>1, <1>2, SMT
    <2> QED
        BY <1>1, <1>2, <2>2, <2>3, SMT
<1> QED
    BY <1>2, <1>3, <1>4 DEF d, q

\* Sizes in pages.
LEMMA PageUps ==
    ASSUME Sane
    PROVE  /\ PageUp(0) = 0
           /\ \A a, b \in Nat : a <= b => PageUp(a) <= PageUp(b)
           /\ \A n \in Nat : n * PGSIZE \in Nat /\ PageUp(n * PGSIZE) = n /\ PageOf(n * PGSIZE) = n
           /\ \A a, b \in Nat : a < b => PageOf(a) \in Nat /\ PageOf(a) < PageUp(b)
<1>1. PGSIZE \in Nat \ {0}
    BY DEF Sane
<1>2. PageUp(0) = 0
    <2>1. ~(0 * PGSIZE < 0)
        BY <1>1
    <2> QED
        BY <2>1, PagesBelow
<1>3. ASSUME NEW a \in Nat, NEW b \in Nat, a <= b PROVE PageUp(a) <= PageUp(b)
    <2>1. PageUp(a) \in Nat /\ PageUp(b) \in Nat
        BY PagesBelow
    <2>2. CASE PageUp(b) < PageUp(a)
        <3>1. PageUp(b) * PGSIZE < a /\ ~(PageUp(b) * PGSIZE < b)
            BY <2>1, <2>2, PagesBelow
        <3>2. PageUp(b) * PGSIZE \in Int
            BY <1>1, <2>1
        <3> QED
            BY <1>3, <3>1, <3>2
    <2> QED
        BY <2>1, <2>2
<1>4. ASSUME NEW n \in Nat
      PROVE  n * PGSIZE \in Nat /\ PageUp(n * PGSIZE) = n /\ PageOf(n * PGSIZE) = n
    <2>1. n * PGSIZE \in Nat
        BY <1>1
    <2>2. ASSUME NEW i \in Nat PROVE i * PGSIZE < n * PGSIZE <=> i < n
        BY <1>1, Times, SMT
    <2>3. PageUp(n * PGSIZE) \in Nat /\ \A i \in Nat : i < n <=> i < PageUp(n * PGSIZE)
        BY <2>1, <2>2, PagesBelow
    <2>4. PageUp(n * PGSIZE) = n
        <3> DEFINE m == PageUp(n * PGSIZE)
        <3> HIDE DEF m
        <3>1. m \in Nat /\ (m < n <=> m < m) /\ (n < n <=> n < m)
            BY <2>3 DEF m
        <3>2. m = n
            BY <3>1
        <3> QED
            BY <3>2 DEF m
    <2>5. PageOf(n * PGSIZE) = n
        BY <1>1, SMT DEF PageOf
    <2> QED
        BY <2>1, <2>4, <2>5
<1>5. ASSUME NEW a \in Nat, NEW b \in Nat, a < b
      PROVE  PageOf(a) \in Nat /\ PageOf(a) < PageUp(b)
    <2>1. PageOf(a) \in Nat /\ PGSIZE * PageOf(a) <= a
        BY <1>1, Divided DEF PageOf
    <2>2. PageOf(a) * PGSIZE < b
        BY <1>1, <1>5, <2>1, SMT
    <2> QED
        BY <2>1, <2>2, PagesBelow
<1> QED
    BY <1>2, <1>3, <1>4, <1>5

\* What it is to be a map.
LEMMA Maps ==
    ASSUME NEW S, NEW fn
    PROVE  fn \in Map(S) <=>
             fn \in [DOMAIN fn -> S] /\ DOMAIN fn \in SUBSET Nat /\ IsFiniteSet(DOMAIN fn)
BY DEF Map

\* The map with nothing in it.
LEMMA EmptyMap == Empty = [x \in {} |-> x] /\ DOMAIN Empty = {} /\ \A S : Empty \in Map(S)
<1>1. DOMAIN Empty = {} /\ \A S : Empty \in [{} -> S]
    BY DEF Empty
<1>2. IsFiniteSet({})
    BY FS_EmptySet
<1> QED
    BY <1>1, <1>2, Maps DEF Empty

\* A map without some of its domain.
LEMMA RestrictMap ==
    ASSUME NEW S, NEW fn \in Map(S), NEW D, D \subseteq DOMAIN fn
    PROVE  /\ Restrict(fn, D) \in Map(S) /\ DOMAIN Restrict(fn, D) = D
           /\ \A x \in D : Restrict(fn, D)[x] = fn[x]
<1>1. fn \in [DOMAIN fn -> S] /\ DOMAIN fn \in SUBSET Nat /\ IsFiniteSet(DOMAIN fn)
    BY Maps
<1>2. IsFiniteSet(D) /\ D \in SUBSET Nat
    BY <1>1, FS_Subset
<1>3. Restrict(fn, D) \in [D -> S] /\ DOMAIN Restrict(fn, D) = D
      /\ \A x \in D : Restrict(fn, D)[x] = fn[x]
    BY <1>1 DEF Restrict
<1> QED
    BY <1>2, <1>3, Maps

\* A map with one more place.
LEMMA ExtendMap ==
    ASSUME NEW S, NEW fn \in Map(S), NEW i \in Nat \ DOMAIN fn, NEW v \in S
    PROVE  With(fn, i, v) \in Map(S) /\ DOMAIN With(fn, i, v) = DOMAIN fn \cup {i}
<1> DEFINE r == With(fn, i, v)
<1>1. fn \in [DOMAIN fn -> S] /\ DOMAIN fn \in SUBSET Nat /\ IsFiniteSet(DOMAIN fn)
    BY Maps
<1>2. DOMAIN r = DOMAIN fn \cup {i}
    BY DEF With
<1>3. r \in [DOMAIN r -> S]
    BY <1>1, <1>2 DEF With
<1>4. IsFiniteSet(DOMAIN r) /\ DOMAIN r \in SUBSET Nat
    BY <1>1, <1>2, FS_AddElement
<1> QED
    BY <1>2, <1>3, <1>4, Maps

-----------------------------------------------------------------------------
(* Counting *)

\* A finite function takes a value so many times.
LEMMA UsesNat ==
    ASSUME NEW fn, IsFiniteSet(DOMAIN fn), NEW f
    PROVE  /\ Uses(fn, f) \in Nat
           /\ Uses(fn, f) = 0 <=> \A x \in DOMAIN fn : fn[x] # f
<1> DEFINE T == {x \in DOMAIN fn : fn[x] = f}
<1>1. IsFiniteSet(T)
    BY FS_Subset
<1>2. Cardinality(T) \in Nat /\ (Cardinality(T) = 0 <=> T = {})
    BY <1>1, FS_CardinalityType, FS_EmptySet
<1> QED
    BY <1>2 DEF Uses

\* If there are two, there are not as few as one.
LEMMA UsesOnce ==
    ASSUME NEW fn, IsFiniteSet(DOMAIN fn), NEW f, Uses(fn, f) <= 1,
           NEW x \in DOMAIN fn, NEW y \in DOMAIN fn, fn[x] = f, fn[y] = f
    PROVE  x = y
<1> DEFINE T == {z \in DOMAIN fn : fn[z] = f}
<1>1. IsFiniteSet(T) /\ Cardinality(T) \in Nat
    BY FS_Subset, FS_CardinalityType
<1>2. CASE x # y
    <2>1. {x, y} \subseteq T /\ Cardinality({x, y}) = 2
        <3>1. IsFiniteSet({x}) /\ Cardinality({x}) = 1
            BY FS_Singleton
        <3>2. y \notin {x}
            BY <1>2
        <3>4. Cardinality({x} \cup {y}) = Cardinality({x}) + 1
            BY <3>1, <3>2, FS_AddElement, Zenon
        <3>3. {x} \cup {y} = {x, y}
            OBVIOUS
        <3> QED
            BY <3>1, <3>3, <3>4
    <2>2. 2 <= Cardinality(T)
        BY <1>1, <2>1, FS_Subset
    <2> QED
        BY <1>1, <2>2 DEF Uses
<1> QED
    BY <1>2

\* The places of two disjoint parts add up.
LEMMA UsesSplit ==
    ASSUME NEW fn, IsFiniteSet(DOMAIN fn), NEW D, NEW E, D \cup E = DOMAIN fn, D \cap E = {}, NEW f
    PROVE  Uses(fn, f) = Uses(Restrict(fn, D), f) + Uses(Restrict(fn, E), f)
<1> DEFINE A == {x \in D : fn[x] = f}
           B == {x \in E : fn[x] = f}
<1>1. IsFiniteSet(A) /\ IsFiniteSet(B)
    BY FS_Subset
<1>2. {x \in DOMAIN fn : fn[x] = f} = A \cup B
    OBVIOUS
<1>3. A \cap B = {}
    OBVIOUS
<1>4. Uses(Restrict(fn, D), f) = Cardinality(A) /\ Uses(Restrict(fn, E), f) = Cardinality(B)
    <2>1. {x \in DOMAIN Restrict(fn, D) : Restrict(fn, D)[x] = f} = A
        BY DEF Restrict
    <2>2. {x \in DOMAIN Restrict(fn, E) : Restrict(fn, E)[x] = f} = B
        BY DEF Restrict
    <2> QED
        BY <2>1, <2>2 DEF Uses
<1> HIDE DEF A, B
<1>5. Cardinality(A \cup B) = Cardinality(A) + Cardinality(B) - Cardinality(A \cap B)
    BY <1>1, FS_Union
<1>6. Cardinality(A \cap B) = 0 /\ Cardinality(A) \in Nat /\ Cardinality(B) \in Nat
    BY <1>1, <1>3, FS_EmptySet, FS_CardinalityType
<1>7. Cardinality(A \cup B) = Cardinality(A) + Cardinality(B)
    BY <1>5, <1>6
<1> QED
    BY <1>2, <1>4, <1>7 DEF Uses, A, B

\* One more place.
LEMMA UsesWith ==
    ASSUME NEW S, NEW fn \in Map(S), NEW i \in Nat \ DOMAIN fn, NEW v \in S, NEW f
    PROVE  Uses(With(fn, i, v), f) = Uses(fn, f) + Hits(v, f)
<1> DEFINE all == With(fn, i, v)
<1>1. DOMAIN all = DOMAIN fn \cup {i} /\ all[i] = v
    BY DEF With
<1>2. fn \in [DOMAIN fn -> S] /\ IsFiniteSet(DOMAIN fn)
    BY Maps
<1>3. IsFiniteSet(DOMAIN all)
    BY <1>1, <1>2, FS_AddElement
<1>4. Restrict(all, DOMAIN fn) = fn
    BY <1>2 DEF With, Restrict
<1>5. Uses(Restrict(all, {i}), f) = Hits(v, f)
    <2>1. {x \in DOMAIN Restrict(all, {i}) : Restrict(all, {i})[x] = f} = IF v = f THEN {i} ELSE {}
        BY <1>1 DEF Restrict
    <2>2. Cardinality({i}) = 1 /\ Cardinality({}) = 0
        BY FS_Singleton, FS_EmptySet
    <2> QED
        BY <2>1, <2>2 DEF Uses, Hits
<1> HIDE DEF all
<1>6. DOMAIN fn \cap {i} = {}
    OBVIOUS
<1>7. Uses(all, f) = Uses(Restrict(all, DOMAIN fn), f) + Uses(Restrict(all, {i}), f)
    BY <1>1, <1>3, <1>6, UsesSplit
<1> QED
    BY <1>4, <1>5, <1>7 DEF all

\* Two parts of a map.
LEMMA UsesParts ==
    ASSUME NEW S, NEW fn \in Map(S), NEW D, NEW E, D \cap E = {}, D \cup E = DOMAIN fn, NEW f
    PROVE  /\ Uses(fn, f) = Uses(Restrict(fn, D), f) + Uses(Restrict(fn, E), f)
           /\ Restrict(fn, D) \in Map(S) /\ Restrict(fn, E) \in Map(S)
           /\ DOMAIN Restrict(fn, D) = D /\ DOMAIN Restrict(fn, E) = E
<1>1. D \subseteq DOMAIN fn /\ E \subseteq DOMAIN fn
    OBVIOUS
<1>2. /\ Restrict(fn, D) \in Map(S) /\ DOMAIN Restrict(fn, D) = D
      /\ Restrict(fn, E) \in Map(S) /\ DOMAIN Restrict(fn, E) = E
    BY <1>1, RestrictMap
<1>3. IsFiniteSet(DOMAIN fn)
    BY Maps
<1>4. Uses(fn, f) = Uses(Restrict(fn, D), f) + Uses(Restrict(fn, E), f)
    BY <1>3, UsesSplit
<1> QED
    BY <1>2, <1>4

\* A place less.
LEMMA UsesWithout ==
    ASSUME NEW S, NEW fn \in Map(S), NEW i \in DOMAIN fn, NEW f
    PROVE  /\ Uses(fn, f) = Uses(Restrict(fn, DOMAIN fn \ {i}), f) + Hits(fn[i], f)
           /\ Restrict(fn, DOMAIN fn \ {i}) \in Map(S)
           /\ DOMAIN Restrict(fn, DOMAIN fn \ {i}) = DOMAIN fn \ {i}
<1> DEFINE rest == Restrict(fn, DOMAIN fn \ {i})
<1>1. rest \in Map(S) /\ DOMAIN rest = DOMAIN fn \ {i} /\ \A x \in DOMAIN rest : rest[x] = fn[x]
    <2>1. DOMAIN fn \ {i} \subseteq DOMAIN fn
        OBVIOUS
    <2> QED
        BY <2>1, RestrictMap
<1>2. fn \in [DOMAIN fn -> S] /\ i \in Nat
    BY Maps
<1>3. With(rest, i, fn[i]) = fn
    BY <1>1, <1>2 DEF With
<1> HIDE DEF rest
<1>4. i \in Nat \ DOMAIN rest
    BY <1>1, <1>2
<1>5. Uses(With(rest, i, fn[i]), f) = Uses(rest, f) + Hits(fn[i], f)
    BY <1>1, <1>2, <1>4, UsesWith
<1> QED
    BY <1>1, <1>3, <1>5 DEF rest

\* The frames of pages.
LEMMA Framed ==
    ASSUME NEW ptes \in Map(Pte)
    PROVE  /\ FramesOf(ptes) \in Map(Frame) /\ DOMAIN FramesOf(ptes) = DOMAIN ptes
           /\ \A i \in DOMAIN ptes : FramesOf(ptes)[i] = ptes[i].frame /\ ptes[i] \in Pte
           /\ \A i \in Nat, e \in Pte :
                  FramesOf(With(ptes, i, e)) = With(FramesOf(ptes), i, e.frame)
           /\ \A D \in SUBSET DOMAIN ptes :
                  FramesOf(Restrict(ptes, D)) = Restrict(FramesOf(ptes), D)
<1>1. ptes \in [DOMAIN ptes -> Pte] /\ DOMAIN ptes \in SUBSET Nat /\ IsFiniteSet(DOMAIN ptes)
    BY Maps
<1>2. FramesOf(ptes) \in [DOMAIN ptes -> Frame]
    BY <1>1 DEF FramesOf, Pte
<1>3. FramesOf(ptes) \in Map(Frame) /\ DOMAIN FramesOf(ptes) = DOMAIN ptes
    BY <1>1, <1>2, Maps
<1>4. \A i \in DOMAIN ptes : FramesOf(ptes)[i] = ptes[i].frame /\ ptes[i] \in Pte
    BY <1>1 DEF FramesOf
<1>5. ASSUME NEW i \in Nat, NEW e \in Pte
      PROVE  FramesOf(With(ptes, i, e)) = With(FramesOf(ptes), i, e.frame)
    BY DEF FramesOf, With
<1>6. ASSUME NEW D \in SUBSET DOMAIN ptes
      PROVE  FramesOf(Restrict(ptes, D)) = Restrict(FramesOf(ptes), D)
    BY DEF FramesOf, Restrict
<1> QED
    BY <1>3, <1>4, <1>5, <1>6

\* A frame is put in front of a list, or taken from it.
LEMMA UsesFirst ==
    ASSUME NEW s \in Seq(Frame), NEW g \in Frame, NEW f
    PROVE  /\ <<g>> \o s \in Seq(Frame)
           /\ Uses(<<g>> \o s, f) = Uses(s, f) + Hits(g, f)
<1> DEFINE t == <<g>> \o s
           later == [x \in 2..(Len(s) + 1) |-> s[x - 1]]
<1>1. t \in Seq(Frame) /\ DOMAIN t = 1..(Len(s) + 1) /\ t[1] = g
      /\ \A x \in 2..(Len(s) + 1) : t[x] = s[x - 1]
    OBVIOUS
<1>2. IsFiniteSet(DOMAIN t) /\ IsFiniteSet(DOMAIN s)
    <2>1. DOMAIN s = 1..Len(s) /\ Len(s) \in Nat
        OBVIOUS
    <2> QED
        BY <1>1, <2>1, FS_Interval
<1>3. Uses(t, f) = Uses(Restrict(t, {1}), f) + Uses(later, f)
    <2>1. {1} \cup 2..(Len(s) + 1) = DOMAIN t /\ {1} \cap 2..(Len(s) + 1) = {}
        BY <1>1
    <2>2. Restrict(t, 2..(Len(s) + 1)) = later
        BY <1>1 DEF Restrict
    <2> HIDE DEF t, later
    <2>3. Uses(t, f) = Uses(Restrict(t, {1}), f) + Uses(Restrict(t, 2..(Len(s) + 1)), f)
        BY <1>2, <2>1, UsesSplit
    <2> QED
        BY <2>2, <2>3
<1>4. Uses(Restrict(t, {1}), f) = Hits(g, f)
    <2>1. {x \in DOMAIN Restrict(t, {1}) : Restrict(t, {1})[x] = f} = IF g = f THEN {1} ELSE {}
        BY <1>1 DEF Restrict
    <2>2. Cardinality({1}) = 1 /\ Cardinality({}) = 0
        BY FS_Singleton, FS_EmptySet
    <2> QED
        BY <2>1, <2>2 DEF Uses, Hits
<1>5. Uses(later, f) = Uses(s, f)
    <2> DEFINE A == {x \in DOMAIN s : s[x] = f}
               B == {x \in DOMAIN later : later[x] = f}
               h == [x \in A |-> x + 1]
    <2>1. IsFiniteSet(A)
        BY <1>2, FS_Subset
    <2>2. \A x \in A : x \in 1..Len(s) /\ x + 1 \in B
        OBVIOUS
    <2>3. \A y \in B : y - 1 \in A /\ (y - 1) + 1 = y
        OBVIOUS
    <2>4. h \in Bijection(A, B)
        <3>1. h \in [A -> B] /\ \A x \in A : h[x] = x + 1
            BY <2>2
        <3>2. \A x, y \in A : h[x] = h[y] => x = y
            BY <2>2, <3>1
        <3>3. \A y \in B : \E x \in A : h[x] = y
            BY <2>3, <3>1
        <3> HIDE DEF A, B, h
        <3> QED
            BY <3>1, <3>2, <3>3 DEF Bijection, Injection, Surjection, IsInjective
    <2>5. ExistsBijection(A, B)
        BY <2>4, Zenon DEF ExistsBijection
    <2> HIDE DEF A, B
    <2>6. Cardinality(A) = Cardinality(B)
        BY <2>1, <2>5, FS_Bijection
    <2> QED
        BY <2>6 DEF Uses, A, B
<1>6. Uses(s, f) \in Nat
    BY <1>2, UsesNat
<1> QED
    BY <1>1, <1>3, <1>4, <1>5, <1>6 DEF Hits

\* And taken from it.
LEMMA UsesRest ==
    ASSUME NEW s \in Seq(Frame), s # <<>>, NEW f
    PROVE  /\ Head(s) \in Frame /\ Tail(s) \in Seq(Frame)
           /\ Uses(s, f) = Uses(Tail(s), f) + Hits(Head(s), f)
<1>1. Head(s) \in Frame /\ Tail(s) \in Seq(Frame) /\ <<Head(s)>> \o Tail(s) = s
    OBVIOUS
<1>2. Uses(<<Head(s)>> \o Tail(s), f) = Uses(Tail(s), f) + Hits(Head(s), f)
    BY <1>1, UsesFirst
<1> QED
    BY <1>1, <1>2

-----------------------------------------------------------------------------
(* Who holds a frame *)

\* An address space has a frame so many times.
LEMMA InSpaceNat ==
    ASSUME NEW space \in Space, NEW f
    PROVE  /\ Hits(space.dir, f) \in Nat /\ Uses(space.tables, f) \in Nat
           /\ Uses(FramesOf(space.ptes), f) \in Nat /\ InSpace(space, f) \in Nat
<1>1. space.tables \in Map(Frame) /\ FramesOf(space.ptes) \in Map(Frame)
    BY Framed DEF Space
<1>2. Uses(space.tables, f) \in Nat /\ Uses(FramesOf(space.ptes), f) \in Nat
    BY <1>1, Maps, UsesNat
<1> QED
    BY <1>2 DEF InSpace, Hits

\* And so has a process.
LEMMA InHandNat ==
    ASSUME NEW j \in Job, NEW f
    PROVE  InHand(j, f) \in Nat
<1>1. j.space \in Space /\ j.old \in Space
    BY DEF Job
<1>2. InSpace(j.space, f) \in Nat /\ InSpace(j.old, f) \in Nat
    BY <1>1, InSpaceNat
<1> QED
    BY <1>2 DEF InHand, Hits

\* And a list.
LEMMA ListNat == ASSUME NEW s \in Seq(Frame), NEW f PROVE Uses(s, f) \in Nat
<1>1. DOMAIN s = 1..Len(s) /\ Len(s) \in Nat
    OBVIOUS
<1> QED
    BY <1>1, FS_Interval, UsesNat

\* And every owner, before and after a step.
LEMMA HasNat ==
    ASSUME NEW owner \in Owner, NEW f
    PROVE  /\ Types => Has(owner, f) \in Nat
           /\ Types' => Has(owner, f)' \in Nat
<1>1. Types => Has(owner, f) \in Nat
    <2> SUFFICES ASSUME Types PROVE Has(owner, f) \in Nat
        OBVIOUS
    <2>1. Uses(freelist, f) \in Nat
        BY ListNat DEF Types
    <2>2. CASE owner # NoSlot
        <3>1. job[owner] \in Job /\ pgdir[owner] \in Space
            BY <2>2 DEF Types, Owner
        <3>2. InHand(job[owner], f) \in Nat /\ InSpace(pgdir[owner], f) \in Nat
            BY <3>1, InHandNat, InSpaceNat
        <3> QED
            BY <2>2, <3>2 DEF Has, Holds, Hits
    <2> QED
        BY <2>1, <2>2 DEF Has
<1>2. Types' => Has(owner, f)' \in Nat
    <2> SUFFICES ASSUME Types' PROVE Has(owner, f)' \in Nat
        OBVIOUS
    <2>1. Uses(freelist', f) \in Nat
        BY ListNat DEF Types
    <2>2. CASE owner # NoSlot
        <3>1. job'[owner] \in Job /\ pgdir'[owner] \in Space
            BY <2>2 DEF Types, Owner, Job, Space, MaybeFrame
        <3>2. InHand(job'[owner], f) \in Nat /\ InSpace(pgdir'[owner], f) \in Nat
            BY <3>1, InHandNat, InSpaceNat
        <3> QED
            BY <2>2, <3>2 DEF Has, Holds, Hits
    <2> QED
        BY <2>1, <2>2 DEF Has
<1> QED
    BY <1>1, <1>2

\* Nothing is in an empty space, and frame 0 is none.
LEMMA Nothing ==
    /\ NoSpace \in Space /\ \A f \in Frame : InSpace(NoSpace, f) = 0 /\ Hits(NoFrame, f) = 0
    /\ NoSpace.dir = NoFrame /\ NoSpace.tables = Empty /\ NoSpace.ptes = Empty
<1>1. NoSpace \in Space
    BY EmptyMap DEF NoSpace, Space, MaybeFrame
<1>2. ASSUME NEW f \in Frame PROVE InSpace(NoSpace, f) = 0 /\ Hits(NoFrame, f) = 0
    <2>1. Hits(NoFrame, f) = 0
        BY DEF Hits, NoFrame, Frame
    <2>2. IsFiniteSet(DOMAIN Empty) /\ DOMAIN Empty = {} /\ FramesOf(Empty) = Empty
        BY EmptyMap, FS_EmptySet DEF FramesOf
    <2>3. Uses(Empty, f) = 0
        BY <2>2, UsesNat
    <2> QED
        BY <2>1, <2>2, <2>3 DEF InSpace, NoSpace
<1> QED
    BY <1>1, <1>2 DEF NoSpace

\* What an idle process holds of frames: nothing.
LEMMA IdleHand ==
    Idle \in Job /\ Idle.at = "none" /\ Idle.op = "none" /\ \A f \in Frame : InHand(Idle, f) = 0
<1>1. Idle \in Job
    BY Nothing DEF Idle, Job, MaybeFrame, Owner, OK
<1>2. Idle.at = "none" /\ Idle.op = "none"
    BY DEF Idle
<1> QED
    BY <1>1, <1>2, Nothing DEF Idle, InHand

-----------------------------------------------------------------------------
(* Frames move *)

\* Nothing moves.
LEMMA Stays ==
    ASSUME EveryFrameOnce, \A f \in Frame, o \in Owner : Has(o, f)' = Has(o, f)
    PROVE  EveryFrameOnce'
BY DEF EveryFrameOnce, Owner, Frame

\* Frames move between two owners.
LEMMA Moves ==
    ASSUME Sane, Types, Types', EveryFrameOnce, NEW a \in Owner, NEW b \in Owner, a # b,
           \A f \in Frame : Has(a, f)' + Has(b, f)' = Has(a, f) + Has(b, f),
           \A f \in Frame, o \in Owner \ {a, b} : Has(o, f)' = Has(o, f)
    PROVE  EveryFrameOnce'
<1> SUFFICES ASSUME NEW f \in Frame
             PROVE  \E owner \in Owner :
                      Has(owner, f)' = 1 /\ \A other \in Owner \ {owner} : Has(other, f)' = 0
    BY DEF EveryFrameOnce, Owner, Frame
<1>1. PICK owner \in Owner : Has(owner, f) = 1 /\ \A other \in Owner \ {owner} : Has(other, f) = 0
    BY DEF EveryFrameOnce
<1>2. Has(a, f) \in Nat /\ Has(b, f) \in Nat /\ Has(a, f)' \in Nat /\ Has(b, f)' \in Nat
    BY HasNat
<1>3. Has(a, f)' + Has(b, f)' = Has(a, f) + Has(b, f)
    OBVIOUS
<1>4. \A o \in Owner \ {a, b} : Has(o, f)' = Has(o, f)
    OBVIOUS
<1>5. CASE owner \notin {a, b}
    <2>1. Has(a, f) = 0 /\ Has(b, f) = 0
        BY <1>1, <1>5
    <2>2. Has(a, f)' = 0 /\ Has(b, f)' = 0
        BY <1>2, <1>3, <2>1
    <2>3. Has(owner, f)' = 1 /\ \A other \in Owner \ {owner} : Has(other, f)' = 0
        BY <1>1, <1>4, <1>5, <2>2
    <2> QED
        BY <2>3
<1>6. CASE owner \in {a, b}
    <2>1. Has(a, f) + Has(b, f) = 1
        BY <1>1, <1>2, <1>6
    <2>2. \/ Has(a, f)' = 1 /\ Has(b, f)' = 0
          \/ Has(a, f)' = 0 /\ Has(b, f)' = 1
        BY <1>2, <1>3, <2>1
    <2>3. \A o \in Owner \ {a, b} : Has(o, f)' = 0
        BY <1>1, <1>4, <1>6
    <2> QED
        BY <2>2, <2>3
<1> QED
    BY <1>5, <1>6

\* What the list loses the caller gets.
LEMMA Balance ==
    ASSUME NEW u1 \in Nat, NEW u2 \in Nat, NEW h1 \in Nat, NEW h2 \in Nat, NEW k \in Nat,
           NEW d \in Nat, u2 + h2 = u1 + h1
    PROVE  u2 + (k + h2 + d) = u1 + (k + h1 + d)
OBVIOUS

\* A step in the middle of a call: frames move between the free list and the caller.
LEMMA JobStep ==
    ASSUME Sane, Frames, NEW p \in Slot, NEW j \in Job, job' = [job EXCEPT ![p] = j],
           UNCHANGED <<proc, pgdir, shadow, panicked>>,
           freelist' \in Seq(Frame), data' \in [Frame -> Value],
           j.op = job[p].op, j.child = job[p].child,
           Shape(j), Built(j), proc[p].state = "user" => Sized(j, proc[p], pgdir[p]),
           \A f \in Frame :
               Uses(freelist', f) + InHand(j, f) = Uses(freelist, f) + InHand(job[p], f)
    PROVE  Frames'
<1>1. Types'
    BY DEF Frames, Types
<1>2. job'[p] = j /\ \A q \in Slot \ {p} : job'[q] = job[q]
    BY DEF Frames, Types
<1>3. \A q \in Slot : job'[q].op = job[q].op /\ job'[q].child = job[q].child
    BY <1>2
<1>4. ASSUME NEW q \in Slot PROVE Calling(q)'
    <2>1. Calling(q)
        BY DEF Frames
    <2>2. CASE q # p
        BY <1>2, <2>1, <2>2 DEF Calling
    <2>3. CASE q = p
        BY <1>2, <1>3, <2>1, <2>3 DEF Calling
    <2> QED
        BY <2>2, <2>3
<1>5. Slots'
    BY <1>3 DEF Frames, Slots
<1>6. EveryFrameOnce'
    <2>1. p \in Owner /\ NoSlot \in Owner /\ p # NoSlot
        BY DEF Sane, Owner, NoSlot
    <2>2. ASSUME NEW f \in Frame
          PROVE  Has(NoSlot, f)' + Has(p, f)' = Has(NoSlot, f) + Has(p, f)
        <3>1. Has(NoSlot, f) = Uses(freelist, f) /\ Has(NoSlot, f)' = Uses(freelist', f)
            BY DEF Has
        <3> DEFINE k == Hits(proc[p].kstack, f)
                   d == IF job[p].op = "sbrk" THEN 0 ELSE InSpace(pgdir[p], f)
                   h1 == InHand(job[p], f)
                   h2 == InHand(j, f)
                   u1 == Uses(freelist, f)
                   u2 == Uses(freelist', f)
        <3>2. Has(p, f) = k + h1 + d /\ Has(p, f)' = k + h2 + d
            BY <1>2, <2>1 DEF Has, Holds
        <3>3. k \in Nat /\ d \in Nat
            BY InSpaceNat DEF Hits, Frames, Types
        <3>4. h1 \in Nat /\ h2 \in Nat
            BY InHandNat DEF Frames, Types
        <3>5. u1 \in Nat /\ u2 \in Nat
            BY ListNat DEF Frames, Types
        <3>6. u2 + h2 = u1 + h1
            OBVIOUS
        <3>7. Has(NoSlot, f) = u1 /\ Has(NoSlot, f)' = u2
            BY <3>1
        <3> HIDE DEF k, d, h1, h2, u1, u2
        <3>8. u2 + (k + h2 + d) = u1 + (k + h1 + d)
            BY <3>3, <3>4, <3>5, <3>6, Balance
        <3> QED
            BY <3>2, <3>7, <3>8
    <2>3. ASSUME NEW f \in Frame, NEW o \in Owner \ {NoSlot, p} PROVE Has(o, f)' = Has(o, f)
        BY <1>2 DEF Has, Holds, Owner
    <2> QED
        BY <1>1, <2>1, <2>2, <2>3, Moves DEF Frames
<1>7. NoMemPanic'
    BY DEF Frames, NoMemPanic
<1> QED
    BY <1>1, <1>4, <1>5, <1>6, <1>7 DEF Frames

-----------------------------------------------------------------------------
(* The steps of a call *)

\* Where the call of p may go on, with `more` for each frame.
Onward(p, j) ==
    /\ j \in Job /\ j.op = job[p].op /\ j.child = job[p].child
    /\ Shape(j) /\ Built(j) /\ Sized(j, proc[p], pgdir[p])

\* kalloc() gives a frame, or none.
LEMMA KallocStep ==
    ASSUME Sane, Frames, NEW p \in Slot, NEW got, NEW contents \in Value, NEW without,
           Kalloc(p, got, contents, without), UNCHANGED <<proc, pgdir, shadow, panicked>>,
           \A g \in Frame : Onward(p, got[g]),
           \A g \in Frame, f \in Frame : InHand(got[g], f) = InHand(job[p], f) + Hits(g, f),
           Onward(p, without), \A f \in Frame : InHand(without, f) = InHand(job[p], f)
    PROVE  Frames'
<1>1. freelist \in Seq(Frame) /\ data \in [Frame -> Value] /\ job[p] \in Job
    BY DEF Frames, Types
<1>2. CASE freelist = <<>>
    <2>1. job' = [job EXCEPT ![p] = without] /\ UNCHANGED <<freelist, data>>
        BY <1>2 DEF Kalloc
    <2> QED
        BY <1>1, <2>1, JobStep DEF Onward
<1>3. CASE freelist # <<>>
    <2> DEFINE g == Head(freelist)
               j == got[g]
    <2>1. /\ job' = [job EXCEPT ![p] = j] /\ freelist' = Tail(freelist)
          /\ data' = [data EXCEPT ![g] = contents]
        BY <1>3 DEF Kalloc
    <2>2. g \in Frame /\ Tail(freelist) \in Seq(Frame)
          /\ \A f \in Frame : Uses(freelist, f) = Uses(Tail(freelist), f) + Hits(g, f)
        BY <1>1, <1>3, UsesRest
    <2>3. data' \in [Frame -> Value] /\ freelist' \in Seq(Frame)
        BY <1>1, <2>1, <2>2
    <2>4. Onward(p, j)
        BY <2>2
    <2>5. ASSUME NEW f \in Frame
          PROVE  Uses(freelist', f) + InHand(j, f) = Uses(freelist, f) + InHand(job[p], f)
        <3>1. InHand(j, f) = InHand(job[p], f) + Hits(g, f)
            BY <2>2
        <3>2. Uses(freelist, f) = Uses(freelist', f) + Hits(g, f)
            BY <2>1, <2>2
        <3>3. InHand(job[p], f) \in Nat /\ Uses(freelist', f) \in Nat /\ Hits(g, f) \in Nat
            BY <1>1, <2>3, InHandNat, ListNat DEF Hits
        <3> HIDE DEF g, j
        <3> QED
            BY <3>1, <3>2, <3>3
    <2> HIDE DEF j
    <2> QED
        BY <2>1, <2>3, <2>4, <2>5, JobStep DEF Onward
<1> QED
    BY <1>2, <1>3

\* kfree() takes a frame back.
LEMMA KfreeStep ==
    ASSUME Sane, Frames, NEW p \in Slot, NEW frame \in Frame, NEW rest, Kfree(p, frame, rest),
           Onward(p, rest),
           \A f \in Frame : InHand(job[p], f) = InHand(rest, f) + Hits(frame, f)
    PROVE  Frames'
<1>1. freelist \in Seq(Frame) /\ data \in [Frame -> Value] /\ rest \in Job
    BY DEF Frames, Types, Onward
<1>2. /\ freelist' = <<frame>> \o freelist /\ data' = [data EXCEPT ![frame] = "junk"]
      /\ job' = [job EXCEPT ![p] = rest] /\ UNCHANGED <<proc, pgdir, shadow, panicked>>
    BY DEF Kfree
<1>3. "junk" \in Value
    BY DEF Sane
<1>4. freelist' \in Seq(Frame) /\ data' \in [Frame -> Value]
    BY <1>1, <1>2, <1>3, UsesFirst
<1>5. ASSUME NEW f \in Frame
      PROVE  Uses(freelist', f) + InHand(rest, f) = Uses(freelist, f) + InHand(job[p], f)
    <2>1. Uses(freelist', f) = Uses(freelist, f) + Hits(frame, f)
        BY <1>1, <1>2, UsesFirst
    <2>2. InHand(job[p], f) = InHand(rest, f) + Hits(frame, f)
        OBVIOUS
    <2>3. InHand(rest, f) \in Nat /\ Uses(freelist, f) \in Nat /\ Hits(frame, f) \in Nat
        BY <1>1, InHandNat, ListNat DEF Hits
    <2> QED
        BY <2>1, <2>2, <2>3
<1> QED
    BY <1>2, <1>4, <1>5, JobStep DEF Onward

\* The space and frames of a failing call are those it frees.
LEMMA BadHolds ==
    ASSUME NEW j \in Job, Freed(j)
    PROVE  /\ Bad(j) \in Job /\ Bad(j).op = j.op /\ Bad(j).child = j.child
           /\ \A f \in Frame : InHand(Bad(j), f) = InHand(j, f)
<1> DEFINE b == Bad(j)
<1>1. /\ b.mem = NoFrame /\ b.kstack = NoFrame /\ b.first = j.mem /\ b.last = j.kstack
      /\ b.space = NoSpace /\ b.old = j.space
    BY DEF Bad, Job
<1>2. b \in Job /\ b.op = j.op /\ b.child = j.child
    <2>1. NoSpace \in Space /\ NoFrame \in MaybeFrame
        BY Nothing DEF MaybeFrame
    <2>2. PICK e, z : e = NoSpace /\ z = NoFrame
        OBVIOUS
    <2>3. b = [j EXCEPT !.at = "fail", !.space = e, !.mem = z, !.kstack = z,
                        !.first = j.mem, !.old = j.space, !.last = j.kstack]
        BY <2>2 DEF Bad
    <2> QED
        BY <2>1, <2>2, <2>3 DEF Job
<1>3. ASSUME NEW f \in Frame PROVE InHand(b, f) = InHand(j, f)
    <2>1. InHand(b, f) = Hits(j.mem, f) + Hits(j.kstack, f) + InSpace(j.space, f)
        <3>1. InSpace(j.space, f) \in Nat /\ Hits(j.mem, f) \in Nat /\ Hits(j.kstack, f) \in Nat
            BY InSpaceNat DEF Job, Hits
        <3>2. InSpace(NoSpace, f) = 0 /\ Hits(NoFrame, f) = 0
            BY Nothing
        <3> HIDE DEF b
        <3> QED
            BY <1>1, <3>1, <3>2 DEF InHand
    <2>2. InHand(j, f) = Hits(j.mem, f) + Hits(j.kstack, f) + InSpace(j.space, f)
        <3>1. InSpace(j.space, f) \in Nat /\ Hits(j.mem, f) \in Nat /\ Hits(j.kstack, f) \in Nat
            BY InSpaceNat DEF Job, Hits
        <3>2. InSpace(NoSpace, f) = 0 /\ Hits(NoFrame, f) = 0
            BY Nothing
        <3> QED
            BY <3>1, <3>2 DEF InHand, Freed
    <2> QED
        BY <2>1, <2>2
<1> QED
    BY <1>2, <1>3

\* And there is nothing more to say of where it is.
LEMMA BadGoesOn ==
    ASSUME NEW p \in Slot, NEW j \in Job, Calling(p), j = job[p], Freed(j),
           j.op \in {"fork", "exec"}
    PROVE  Onward(p, Bad(j))
<1>1. Bad(j) \in Job /\ Bad(j).op = j.op /\ Bad(j).child = j.child
    BY BadHolds
<1>2. /\ Bad(j).at = "fail" /\ Bad(j).mem = NoFrame /\ Bad(j).kstack = NoFrame
      /\ Bad(j).space = NoSpace /\ Bad(j).limit = j.limit
    BY DEF Bad, Job
<1>3. Shape(Bad(j)) /\ Built(Bad(j))
    BY <1>1, <1>2 DEF Calling, Shape, Built
<1>4. Sized(Bad(j), proc[p], pgdir[p])
    BY <1>1, <1>2 DEF Calling, Sized
<1> QED
    BY <1>1, <1>3, <1>4 DEF Onward

-----------------------------------------------------------------------------
(* Frames are freed *)

\* A call that frees goes on where it is.
LEMMA FreeGoesOn ==
    ASSUME Frames, NEW p \in Slot, NEW j, j = job[p], NEW rest \in Job, ~Freed(j),
           rest.op = j.op, rest.at = j.at, rest.space = j.space, rest.mem = j.mem,
           rest.page = j.page, rest.limit = j.limit, rest.child = j.child,
           rest.value = j.value, rest.kstack = j.kstack
    PROVE  Onward(p, rest)
<1>1. Calling(p) /\ j.op # "none"
    BY DEF Frames, Calling, Shape, Freed, Idle
<1>2. j.at \notin {"kstack", "dir", "mem", "map"}
    BY <1>1 DEF Calling, Shape
<1>3. Shape(rest) /\ Built(rest)
    BY <1>1, <1>2 DEF Calling, Shape, Built
<1>4. Sized(rest, proc[p], pgdir[p])
    BY <1>1 DEF Calling, Sized
<1> QED
    BY <1>3, <1>4 DEF Onward

\* A mapped page.
LEMMA PageFreed ==
    ASSUME NEW space \in Space, NEW i \in DOMAIN space.ptes,
           NEW less, less = [space EXCEPT !.ptes = Restrict(@, DOMAIN @ \ {i})]
    PROVE  /\ less \in Space /\ space.ptes[i].frame \in Frame
           /\ \A f \in Frame : InSpace(space, f) = InSpace(less, f) + Hits(space.ptes[i].frame, f)
<1> DEFINE pt == space.ptes
           rest == Restrict(pt, DOMAIN pt \ {i})
<1>1. pt \in Map(Pte)
    BY DEF Space
<1>2. FramesOf(pt) \in Map(Frame) /\ DOMAIN FramesOf(pt) = DOMAIN pt
      /\ FramesOf(pt)[i] = pt[i].frame /\ pt[i] \in Pte
      /\ FramesOf(rest) = Restrict(FramesOf(pt), DOMAIN pt \ {i})
    BY <1>1, Framed
<1>3. rest \in Map(Pte)
    BY <1>1, UsesWithout
<1>4. /\ less.dir = space.dir /\ less.tables = space.tables /\ less.ptes = rest
      /\ less \in Space
    BY <1>3 DEF Space
<1>5. pt[i].frame \in Frame
    BY <1>2 DEF Pte
<1>6. ASSUME NEW f \in Frame
      PROVE  InSpace(space, f) = InSpace(less, f) + Hits(pt[i].frame, f)
    <2>1. Uses(FramesOf(pt), f) = Uses(FramesOf(rest), f) + Hits(pt[i].frame, f)
        <3>1. Uses(FramesOf(pt), f)
                = Uses(Restrict(FramesOf(pt), DOMAIN FramesOf(pt) \ {i}), f)
                    + Hits(FramesOf(pt)[i], f)
            BY <1>2, UsesWithout
        <3> QED
            BY <1>2, <3>1
    <2>2. /\ Uses(FramesOf(rest), f) \in Nat /\ Hits(space.dir, f) \in Nat
          /\ Uses(space.tables, f) \in Nat /\ Hits(pt[i].frame, f) \in Nat
        BY <1>4, InSpaceNat DEF Hits
    <2>3. InSpace(space, f) = Hits(space.dir, f) + Uses(space.tables, f) + Uses(FramesOf(pt), f)
        BY DEF InSpace
    <2>4. InSpace(less, f) = Hits(space.dir, f) + Uses(space.tables, f) + Uses(FramesOf(rest), f)
        BY <1>4 DEF InSpace
    <2> HIDE DEF pt, rest
    <2> QED
        BY <2>1, <2>2, <2>3, <2>4
<1> QED
    BY <1>4, <1>5, <1>6

\* A page table.
LEMMA TableFreed ==
    ASSUME NEW space \in Space, NEW t \in DOMAIN space.tables,
           NEW less, less = [space EXCEPT !.tables = Restrict(@, DOMAIN @ \ {t})]
    PROVE  /\ less \in Space /\ space.tables[t] \in Frame
           /\ \A f \in Frame : InSpace(space, f) = InSpace(less, f) + Hits(space.tables[t], f)
<1> DEFINE ts == space.tables
           rest == Restrict(ts, DOMAIN ts \ {t})
<1>1. ts \in Map(Frame) /\ ts[t] \in Frame
    BY Maps DEF Space
<1>2. rest \in Map(Frame)
    BY <1>1, UsesWithout
<1>3. /\ less.dir = space.dir /\ less.tables = rest /\ less.ptes = space.ptes
      /\ less \in Space
    BY <1>2 DEF Space
<1>4. ASSUME NEW f \in Frame
      PROVE  InSpace(space, f) = InSpace(less, f) + Hits(ts[t], f)
    <2>1. Uses(ts, f) = Uses(rest, f) + Hits(ts[t], f)
        BY <1>1, UsesWithout
    <2>2. /\ Uses(FramesOf(space.ptes), f) \in Nat /\ Hits(space.dir, f) \in Nat
          /\ Uses(rest, f) \in Nat /\ Hits(ts[t], f) \in Nat
        BY <1>3, InSpaceNat DEF Hits
    <2>3. InSpace(space, f) = Hits(space.dir, f) + Uses(ts, f) + Uses(FramesOf(space.ptes), f)
        BY DEF InSpace
    <2>4. InSpace(less, f) = Hits(space.dir, f) + Uses(rest, f) + Uses(FramesOf(space.ptes), f)
        BY <1>3 DEF InSpace
    <2> HIDE DEF ts, rest
    <2> QED
        BY <2>1, <2>2, <2>3, <2>4
<1> QED
    BY <1>1, <1>3, <1>4

\* What they free for both goes out.
LEMMA Cancel ==
    ASSUME NEW a \in Nat, NEW b \in Nat, NEW x \in Nat, NEW y \in Nat, NEW l \in Nat,
           NEW m \in Nat, NEW h \in Nat, a + (x + y + l) = b + (x + y + m), m = l + h
    PROVE  a = b + h
OBVIOUS

\* Two hands that differ in what they free.
LEMMA HandsDiffer ==
    ASSUME NEW j \in Job, NEW k \in Job, NEW f,
           k.mem = j.mem, k.kstack = j.kstack, k.space = j.space
    PROVE  InHand(j, f) + (Hits(k.first, f) + Hits(k.last, f) + InSpace(k.old, f))
             = InHand(k, f) + (Hits(j.first, f) + Hits(j.last, f) + InSpace(j.old, f))
<1>1. InSpace(j.space, f) \in Nat /\ InSpace(j.old, f) \in Nat /\ InSpace(k.old, f) \in Nat
    BY InSpaceNat DEF Job
<1>2. \A x : Hits(x, f) \in Nat
    BY DEF Hits
<1> QED
    BY <1>1, <1>2 DEF InHand

\* Each step of kfree() by a call.
LEMMA FreeFirstKeeps == ASSUME Sane, Frames, NEW p \in Slot, FreeFirst(p) PROVE Frames'
<1> DEFINE j == job[p]
           rest == [j EXCEPT !.first = NoFrame]
<1>1. j \in Job /\ j.first # NoFrame /\ Kfree(p, j.first, rest)
    BY DEF Frames, Types, FreeFirst
<1>2. j.first \in Frame /\ rest \in Job /\ ~Freed(j)
    BY <1>1 DEF Job, MaybeFrame, Freed
<1>3. /\ rest.first = NoFrame /\ rest.last = j.last /\ rest.old = j.old /\ rest.op = j.op
      /\ rest.at = j.at /\ rest.space = j.space /\ rest.mem = j.mem /\ rest.page = j.page
      /\ rest.limit = j.limit /\ rest.child = j.child /\ rest.value = j.value
      /\ rest.kstack = j.kstack
    BY <1>1 DEF Job
<1> HIDE DEF j, rest
<1>4. Onward(p, rest)
    BY <1>2, <1>3, FreeGoesOn DEF j
<1>5. ASSUME NEW f \in Frame PROVE InHand(j, f) = InHand(rest, f) + Hits(j.first, f)
    <2>1. InHand(j, f) + (Hits(rest.first, f) + Hits(rest.last, f) + InSpace(rest.old, f))
            = InHand(rest, f) + (Hits(j.first, f) + Hits(j.last, f) + InSpace(j.old, f))
        BY <1>1, <1>2, <1>3, HandsDiffer
    <2>2. Hits(rest.first, f) = 0
        BY <1>3, Nothing
    <2>3. InHand(j, f) \in Nat /\ InHand(rest, f) \in Nat /\ InSpace(j.old, f) \in Nat
        BY <1>1, <1>2, InHandNat, InSpaceNat DEF Job
    <2>4. Hits(j.first, f) \in Nat /\ Hits(j.last, f) \in Nat
        BY DEF Hits
    <2> QED
        BY <1>3, <2>1, <2>2, <2>3, <2>4
<1> QED
    BY <1>1, <1>2, <1>4, <1>5, KfreeStep DEF j

\* A page of an address space that goes, which deallocuvm() frees.
LEMMA FreePageKeeps == ASSUME Sane, Frames, NEW p \in Slot, FreePage(p) PROVE Frames'
<1> DEFINE j == job[p]
           i == Min(DOMAIN j.old.ptes)
           less == [j.old EXCEPT !.ptes = Restrict(@, DOMAIN @ \ {i})]
           rest == [j EXCEPT !.old = less]
<1>1. /\ j \in Job /\ j.first = NoFrame /\ DOMAIN j.old.ptes # {}
      /\ Kfree(p, j.old.ptes[i].frame, rest)
    BY DEF Frames, Types, FreePage
<1>2. i \in DOMAIN j.old.ptes
    BY <1>1, Least, Maps DEF Job, Space
<1>3. /\ less \in Space /\ j.old.ptes[i].frame \in Frame
      /\ \A f \in Frame : InSpace(j.old, f) = InSpace(less, f) + Hits(j.old.ptes[i].frame, f)
    <2>1. j.old \in Space
        BY <1>1 DEF Job
    <2> HIDE DEF j
    <2> QED
        BY <1>2, <2>1, PageFreed
<1>4. rest \in Job /\ ~Freed(j)
    BY <1>1, <1>3, Nothing, EmptyMap DEF Job, Freed
<1>5. /\ rest.first = j.first /\ rest.last = j.last /\ rest.old = less /\ rest.op = j.op
      /\ rest.at = j.at /\ rest.space = j.space /\ rest.mem = j.mem /\ rest.page = j.page
      /\ rest.limit = j.limit /\ rest.child = j.child /\ rest.value = j.value
      /\ rest.kstack = j.kstack
    BY <1>1 DEF Job
<1> HIDE DEF rest, less, i
<1>6. Onward(p, rest)
    BY <1>4, <1>5, FreeGoesOn
<1> HIDE DEF j
<1>7. ASSUME NEW f \in Frame PROVE InHand(j, f) = InHand(rest, f) + Hits(j.old.ptes[i].frame, f)
    <2>1. InHand(j, f) + (Hits(rest.first, f) + Hits(rest.last, f) + InSpace(rest.old, f))
            = InHand(rest, f) + (Hits(j.first, f) + Hits(j.last, f) + InSpace(j.old, f))
        BY <1>1, <1>4, <1>5, HandsDiffer
    <2>2. InHand(j, f) \in Nat /\ InHand(rest, f) \in Nat /\ InSpace(less, f) \in Nat
        BY <1>1, <1>3, <1>4, InHandNat, InSpaceNat
    <2>3. /\ Hits(j.first, f) \in Nat /\ Hits(j.last, f) \in Nat
          /\ Hits(j.old.ptes[i].frame, f) \in Nat /\ InSpace(j.old, f) \in Nat
        BY <1>1, InSpaceNat DEF Hits, Job
    <2>4. InSpace(j.old, f) = InSpace(less, f) + Hits(j.old.ptes[i].frame, f)
        BY <1>3
    <2> QED
        BY <1>5, <2>1, <2>2, <2>3, <2>4, Cancel
<1> QED
    BY <1>1, <1>3, <1>6, <1>7, KfreeStep DEF j

\* A page table page of it, which freevm() frees.
LEMMA FreeTableKeeps == ASSUME Sane, Frames, NEW p \in Slot, FreeTable(p) PROVE Frames'
<1> DEFINE j == job[p]
           t == Min(DOMAIN j.old.tables)
           less == [j.old EXCEPT !.tables = Restrict(@, DOMAIN @ \ {t})]
           rest == [j EXCEPT !.old = less]
<1>1. /\ j \in Job /\ j.first = NoFrame /\ DOMAIN j.old.tables # {}
      /\ Kfree(p, j.old.tables[t], rest)
    BY DEF Frames, Types, FreeTable, TablesLeft
<1>2. t \in DOMAIN j.old.tables
    BY <1>1, Least, Maps DEF Job, Space
<1>3. /\ less \in Space /\ j.old.tables[t] \in Frame
      /\ \A f \in Frame : InSpace(j.old, f) = InSpace(less, f) + Hits(j.old.tables[t], f)
    <2>1. j.old \in Space
        BY <1>1 DEF Job
    <2> HIDE DEF j
    <2> QED
        BY <1>2, <2>1, TableFreed
<1>4. rest \in Job /\ ~Freed(j)
    BY <1>1, <1>3, Nothing, EmptyMap DEF Job, Freed
<1>5. /\ rest.first = j.first /\ rest.last = j.last /\ rest.old = less /\ rest.op = j.op
      /\ rest.at = j.at /\ rest.space = j.space /\ rest.mem = j.mem /\ rest.page = j.page
      /\ rest.limit = j.limit /\ rest.child = j.child /\ rest.value = j.value
      /\ rest.kstack = j.kstack
    BY <1>1 DEF Job
<1> HIDE DEF rest, less, t
<1>6. Onward(p, rest)
    BY <1>4, <1>5, FreeGoesOn
<1> HIDE DEF j
<1>7. ASSUME NEW f \in Frame PROVE InHand(j, f) = InHand(rest, f) + Hits(j.old.tables[t], f)
    <2>1. InHand(j, f) + (Hits(rest.first, f) + Hits(rest.last, f) + InSpace(rest.old, f))
            = InHand(rest, f) + (Hits(j.first, f) + Hits(j.last, f) + InSpace(j.old, f))
        BY <1>1, <1>4, <1>5, HandsDiffer
    <2>2. InHand(j, f) \in Nat /\ InHand(rest, f) \in Nat /\ InSpace(less, f) \in Nat
        BY <1>1, <1>3, <1>4, InHandNat, InSpaceNat
    <2>3. /\ Hits(j.first, f) \in Nat /\ Hits(j.last, f) \in Nat
          /\ Hits(j.old.tables[t], f) \in Nat /\ InSpace(j.old, f) \in Nat
        BY <1>1, InSpaceNat DEF Hits, Job
    <2>4. InSpace(j.old, f) = InSpace(less, f) + Hits(j.old.tables[t], f)
        BY <1>3
    <2> QED
        BY <1>5, <2>1, <2>2, <2>3, <2>4, Cancel
<1> QED
    BY <1>1, <1>3, <1>6, <1>7, KfreeStep DEF j

\* Its directory, the last that freevm() frees.
LEMMA FreeDirKeeps == ASSUME Sane, Frames, NEW p \in Slot, FreeDir(p) PROVE Frames'
<1> DEFINE j == job[p]
           rest == [j EXCEPT !.old = NoSpace]
<1>1. /\ j \in Job /\ j.first = NoFrame /\ j.old.dir # NoFrame
      /\ DOMAIN j.old.ptes = {} /\ DOMAIN j.old.tables = {} /\ Kfree(p, j.old.dir, rest)
    BY DEF Frames, Types, FreeDir, TablesLeft
<1>2. j.old.dir \in Frame /\ rest \in Job /\ ~Freed(j)
    BY <1>1, Nothing DEF Job, Space, MaybeFrame, Freed
<1>3. /\ rest.first = j.first /\ rest.last = j.last /\ rest.old = NoSpace /\ rest.op = j.op
      /\ rest.at = j.at /\ rest.space = j.space /\ rest.mem = j.mem /\ rest.page = j.page
      /\ rest.limit = j.limit /\ rest.child = j.child /\ rest.value = j.value
      /\ rest.kstack = j.kstack
    BY <1>1 DEF Job
<1>4. ASSUME NEW f \in Frame PROVE InSpace(j.old, f) = Hits(j.old.dir, f)
    <2>1. DOMAIN FramesOf(j.old.ptes) = {}
        BY <1>1 DEF FramesOf
    <2>2. Uses(FramesOf(j.old.ptes), f) = 0 /\ Uses(j.old.tables, f) = 0
        BY <1>1, <2>1, UsesNat, FS_EmptySet
    <2> QED
        BY <2>2 DEF InSpace, Hits
<1> HIDE DEF rest
<1>5. Onward(p, rest)
    BY <1>2, <1>3, FreeGoesOn
<1> HIDE DEF j
<1>6. ASSUME NEW f \in Frame PROVE InHand(j, f) = InHand(rest, f) + Hits(j.old.dir, f)
    <2>1. InHand(j, f) + (Hits(rest.first, f) + Hits(rest.last, f) + InSpace(rest.old, f))
            = InHand(rest, f) + (Hits(j.first, f) + Hits(j.last, f) + InSpace(j.old, f))
        BY <1>1, <1>2, <1>3, HandsDiffer
    <2>2. InHand(j, f) \in Nat /\ InHand(rest, f) \in Nat /\ InSpace(NoSpace, f) = 0
        BY <1>1, <1>2, InHandNat, Nothing
    <2>3. Hits(j.first, f) \in Nat /\ Hits(j.last, f) \in Nat /\ Hits(j.old.dir, f) \in Nat
        BY DEF Hits
    <2> QED
        BY <1>3, <1>4, <2>1, <2>2, <2>3, Cancel
<1> QED
    BY <1>1, <1>2, <1>5, <1>6, KfreeStep DEF j

\* What the caller itself frees after that.
LEMMA FreeLastKeeps == ASSUME Sane, Frames, NEW p \in Slot, FreeLast(p) PROVE Frames'
<1> DEFINE j == job[p]
           rest == [j EXCEPT !.last = NoFrame]
<1>1. j \in Job /\ j.last # NoFrame /\ Kfree(p, j.last, rest)
    BY DEF Frames, Types, FreeLast
<1>2. j.last \in Frame /\ rest \in Job /\ ~Freed(j)
    BY <1>1 DEF Job, MaybeFrame, Freed
<1>3. /\ rest.first = j.first /\ rest.last = NoFrame /\ rest.old = j.old /\ rest.op = j.op
      /\ rest.at = j.at /\ rest.space = j.space /\ rest.mem = j.mem /\ rest.page = j.page
      /\ rest.limit = j.limit /\ rest.child = j.child /\ rest.value = j.value
      /\ rest.kstack = j.kstack
    BY <1>1 DEF Job
<1> HIDE DEF rest
<1>4. Onward(p, rest)
    BY <1>2, <1>3, FreeGoesOn
<1> HIDE DEF j
<1>5. ASSUME NEW f \in Frame PROVE InHand(j, f) = InHand(rest, f) + Hits(j.last, f)
    <2>1. InHand(j, f) + (Hits(rest.first, f) + Hits(rest.last, f) + InSpace(rest.old, f))
            = InHand(rest, f) + (Hits(j.first, f) + Hits(j.last, f) + InSpace(j.old, f))
        BY <1>1, <1>2, <1>3, HandsDiffer
    <2>2. Hits(rest.last, f) = 0
        BY <1>3, Nothing
    <2>3. InHand(j, f) \in Nat /\ InHand(rest, f) \in Nat /\ InSpace(j.old, f) \in Nat
        BY <1>1, <1>2, InHandNat, InSpaceNat DEF Job
    <2>4. Hits(j.first, f) \in Nat /\ Hits(j.last, f) \in Nat
        BY DEF Hits
    <2> QED
        BY <1>3, <2>1, <2>2, <2>3, <2>4
<1> QED
    BY <1>1, <1>2, <1>4, <1>5, KfreeStep DEF j

-----------------------------------------------------------------------------
(* Frames are taken *)

\* The kernel has page tables of its own.
LEMMA KernelHasTables == ASSUME Sane PROVE KernelTables \in SUBSET Nat /\ KernelTables # {}
<1>1. PageOf(KERNBASE) \in Nat
    BY Divided DEF Sane, PageOf
<1>2. TableOf(PageOf(KERNBASE)) \in Nat
    BY <1>1, Divided DEF Sane, TableOf
<1>3. TableOf(PageOf(KERNBASE)) + 0 \in KernelTables
    BY DEF Sane, KernelTables
<1> QED
    BY <1>2, <1>3 DEF Sane, KernelTables

\* One frame more in a hand.
LEMMA HandWith ==
    ASSUME NEW j \in Job, NEW k \in Job, NEW g \in Frame, NEW f \in Frame,
           k.first = j.first, k.old = j.old, k.last = j.last,
           \/ j.mem = NoFrame /\ k.mem = g /\ k.kstack = j.kstack /\ k.space = j.space
           \/ j.kstack = NoFrame /\ k.kstack = g /\ k.mem = j.mem /\ k.space = j.space
           \/ /\ k.kstack = j.kstack /\ k.mem = j.mem
              /\ InSpace(k.space, f) = InSpace(j.space, f) + Hits(g, f)
    PROVE  InHand(k, f) = InHand(j, f) + Hits(g, f)
<1>1. InSpace(j.space, f) \in Nat /\ InSpace(j.old, f) \in Nat
    BY InSpaceNat DEF Job
<1>2. \A x : Hits(x, f) \in Nat
    BY DEF Hits
<1>3. Hits(NoFrame, f) = 0
    BY Nothing
<1> QED
    BY <1>1, <1>2, <1>3 DEF InHand

\* The kernel stack of a new process.
LEMMA KernelStackKeeps == ASSUME Sane, Frames, NEW p \in Slot, KernelStack(p) PROVE Frames'
<1> DEFINE j == job[p]
           got == [f \in Frame |-> [j EXCEPT !.kstack = f, !.at = "dir"]]
<1>1. /\ j \in Job /\ Calling(p) /\ j.at = "kstack" /\ Freed(j)
      /\ Kalloc(p, got, "kstack", Bad(j)) /\ UNCHANGED <<proc, pgdir, shadow, panicked>>
    BY DEF Frames, Types, KernelStack, At
<1>2. j.op = "fork" /\ proc[p].state = "user"
    <2>1. Shape(j) /\ (j.op # "none" => proc[p].state = "user")
        BY <1>1 DEF Calling
    <2>2. j.op # "none"
        BY <1>1, <2>1, IdleHand DEF Shape
    <2>3. j.op \in {"sbrk", "fork", "exec", "wait"}
        BY <1>1, <2>2 DEF Job
    <2> QED
        BY <1>1, <2>1, <2>2, <2>3 DEF Shape
<1>3. j.kstack = NoFrame /\ j.mem = NoFrame /\ j.space = NoSpace /\ j.page = 0
    BY <1>1 DEF Calling, Shape, Built
<1>4. ASSUME NEW g \in Frame
      PROVE  Onward(p, got[g]) /\ \A f \in Frame : InHand(got[g], f) = InHand(j, f) + Hits(g, f)
    <2> DEFINE k == got[g]
    <2>1. /\ k.kstack = g /\ k.at = "dir" /\ k.op = j.op /\ k.child = j.child
          /\ k.space = j.space /\ k.mem = j.mem /\ k.page = j.page /\ k.limit = j.limit
          /\ k.first = j.first /\ k.old = j.old /\ k.last = j.last /\ k.value = j.value
          /\ k \in Job
        BY <1>1 DEF Job, MaybeFrame
    <2> HIDE DEF k
    <2>2. Shape(k)
        BY <1>1, <1>2, <1>3, <2>1 DEF Calling, Shape, Freed
    <2>3. Built(k)
        BY <1>3, <2>1, KernelHasTables, EmptyMap DEF Built, NoSpace
    <2>4. Sized(k, proc[p], pgdir[p])
        BY <1>1, <1>2, <2>1 DEF Calling, Sized
    <2>5. ASSUME NEW f \in Frame PROVE InHand(k, f) = InHand(j, f) + Hits(g, f)
        BY <1>1, <1>3, <2>1, HandWith
    <2> QED
        BY <1>1, <1>2, <2>1, <2>2, <2>3, <2>4, <2>5 DEF Onward, k
<1>5. Onward(p, Bad(j)) /\ \A f \in Frame : InHand(Bad(j), f) = InHand(j, f)
    BY <1>1, <1>2, BadHolds, BadGoesOn
<1>6. "kstack" \in Value
    BY DEF Sane
<1> HIDE DEF got
<1> QED
    BY <1>1, <1>4, <1>5, <1>6, KallocStep

\* The directory and the page tables of the kernel part.
LEMMA SetupkvmKeeps == ASSUME Sane, Frames, NEW p \in Slot, Setupkvm(p) PROVE Frames'
<1> DEFINE j == job[p]
           missing == KernelTables \ DOMAIN j.space.tables
           t == Min(missing)
<1>1. /\ j \in Job /\ Calling(p) /\ j.at = "dir" /\ Freed(j)
      /\ UNCHANGED <<proc, pgdir, shadow, panicked>>
    BY DEF Frames, Types, Setupkvm, At
<1>2. j.op \in {"fork", "exec"} /\ proc[p].state = "user"
    BY <1>1 DEF Calling, Shape, Idle, Job
<1>3. Onward(p, Bad(j)) /\ \A f \in Frame : InHand(Bad(j), f) = InHand(j, f)
    BY <1>1, <1>2, BadHolds, BadGoesOn
<1>4. "table" \in Value
    BY DEF Sane
<1>5. CASE j.space.dir = NoFrame
    <2> DEFINE got == [f \in Frame |-> [j EXCEPT !.space.dir = f]]
    <2>1. Kalloc(p, got, "table", Bad(j))
        BY <1>5 DEF Setupkvm
    <2>2. ASSUME NEW g \in Frame
          PROVE  Onward(p, got[g]) /\ \A f \in Frame : InHand(got[g], f) = InHand(j, f) + Hits(g, f)
        <3> DEFINE k == got[g]
        <3>1. /\ k.kstack = j.kstack /\ k.at = "dir" /\ k.op = j.op /\ k.child = j.child
              /\ k.mem = j.mem /\ k.page = j.page /\ k.limit = j.limit /\ k.value = j.value
              /\ k.first = j.first /\ k.old = j.old /\ k.last = j.last
              /\ k.space.dir = g /\ k.space.tables = j.space.tables
              /\ k.space.ptes = j.space.ptes /\ k \in Job
            BY <1>1 DEF Job, Space, MaybeFrame
        <3> HIDE DEF k
        <3>2. Shape(k)
            BY <1>1, <1>2, <3>1 DEF Calling, Shape, Freed
        <3>3. Built(k)
            BY <1>1, <3>1, Nothing DEF Calling, Built, NoFrame, Frame
        <3>4. Sized(k, proc[p], pgdir[p])
            BY <1>1, <1>2, <3>1 DEF Calling, Sized
        <3>5. ASSUME NEW f \in Frame PROVE InHand(k, f) = InHand(j, f) + Hits(g, f)
            <4>1. InSpace(k.space, f) = InSpace(j.space, f) + Hits(g, f)
                <5>1. /\ Uses(j.space.tables, f) \in Nat /\ Uses(FramesOf(j.space.ptes), f) \in Nat
                      /\ Hits(j.space.dir, f) = 0 /\ Hits(g, f) \in Nat
                    BY <1>1, <1>5, InSpaceNat, Nothing DEF Job, Hits
                <5> QED
                    BY <3>1, <5>1 DEF InSpace
            <4> QED
                BY <1>1, <3>1, <4>1, HandWith
        <3> QED
            BY <1>1, <1>2, <3>1, <3>2, <3>3, <3>4, <3>5 DEF Onward, k
    <2> HIDE DEF got
    <2> QED
        BY <1>1, <1>3, <1>4, <2>1, <2>2, KallocStep
<1>6. CASE j.space.dir # NoFrame
    <2> DEFINE got == [f \in Frame |->
                          [j EXCEPT !.space.tables = With(@, t, f),
                                    !.at = IF missing = {t} THEN "mem" ELSE "dir"]]
    <2>1. Kalloc(p, got, "table", Bad(j))
        BY <1>6 DEF Setupkvm
    <2>2. t \in missing /\ t \in Nat \ DOMAIN j.space.tables
        <3>1. missing # {} /\ missing \in SUBSET Nat
            BY <1>1, KernelHasTables DEF Calling, Built
        <3> HIDE DEF missing
        <3>2. t \in missing
            BY <3>1, Least
        <3> QED
            BY <3>1, <3>2 DEF missing
    <2>3. ASSUME NEW g \in Frame
          PROVE  Onward(p, got[g]) /\ \A f \in Frame : InHand(got[g], f) = InHand(j, f) + Hits(g, f)
        <3> DEFINE k == got[g]
                   ts == With(j.space.tables, t, g)
        <3>0. j.space.tables \in Map(Frame)
            BY <1>1 DEF Job, Space
        <3>1. ts \in Map(Frame) /\ DOMAIN ts = DOMAIN j.space.tables \cup {t}
            <4>1. DOMAIN ts = DOMAIN j.space.tables \cup {t}
                BY DEF With
            <4>2. ts \in Map(Frame)
                <5> HIDE DEF t, j
                <5> QED
                    BY <2>2, <3>0, ExtendMap
            <4> QED
                BY <4>1, <4>2
        <3>2. /\ k.kstack = j.kstack /\ k.at = IF missing = {t} THEN "mem" ELSE "dir"
              /\ k.op = j.op /\ k.child = j.child
              /\ k.mem = j.mem /\ k.page = j.page /\ k.limit = j.limit /\ k.value = j.value
              /\ k.first = j.first /\ k.old = j.old /\ k.last = j.last
              /\ k.space.dir = j.space.dir /\ k.space.tables = ts
              /\ k.space.ptes = j.space.ptes
            BY <1>1 DEF Job, Space, MaybeFrame
        <3>3. k \in Job
            BY <1>1, <3>1 DEF Job, Space
        <3> HIDE DEF k
        <3>5. Shape(k)
            BY <1>1, <1>2, <3>2 DEF Calling, Shape, Freed
        <3>6. Built(k)
            <4>1. j.page = 0 /\ j.space.ptes = Empty
                BY <1>1 DEF Calling, Built
            <4>2. CASE missing = {t}
                <5>1. k.at = "mem" /\ DOMAIN k.space.ptes = {} /\ k.page = 0 /\ k.limit \in Nat
                    BY <1>1, <3>2, <4>1, <4>2, EmptyMap DEF Job
                <5>2. 0 <= PageUp(k.limit) /\ 0..(0 - 1) = {}
                    BY <5>1, PagesBelow
                <5> QED
                    BY <5>1, <5>2 DEF Built
            <4>3. CASE missing # {t}
                <5>1. KernelTables \ DOMAIN k.space.tables # {}
                    BY <2>2, <3>1, <3>2, <4>3
                <5> QED
                    BY <1>6, <3>2, <4>1, <4>3, <5>1 DEF Built
            <4> QED
                BY <4>2, <4>3
        <3>7. Sized(k, proc[p], pgdir[p])
            BY <1>1, <1>2, <3>2 DEF Calling, Sized
        <3>8. ASSUME NEW f \in Frame PROVE InHand(k, f) = InHand(j, f) + Hits(g, f)
            <4>1. InSpace(k.space, f) = InSpace(j.space, f) + Hits(g, f)
                <5>1. /\ Uses(j.space.tables, f) \in Nat /\ Uses(FramesOf(j.space.ptes), f) \in Nat
                      /\ Hits(j.space.dir, f) \in Nat /\ Hits(g, f) \in Nat
                    BY <1>1, InSpaceNat DEF Job, Hits
                <5>2. Uses(ts, f) = Uses(j.space.tables, f) + Hits(g, f)
                    BY <2>2, <3>0, UsesWith
                <5> HIDE DEF ts
                <5> QED
                    BY <3>2, <5>1, <5>2 DEF InSpace
            <4> QED
                BY <1>1, <3>2, <3>3, <4>1, HandWith
        <3> QED
            BY <1>1, <1>2, <3>2, <3>3, <3>5, <3>6, <3>7, <3>8 DEF Onward, k
    <2> HIDE DEF got
    <2> QED
        BY <1>1, <1>3, <1>4, <2>1, <2>3, KallocStep
<1> QED
    BY <1>5, <1>6
-----------------------------------------------------------------------------
(* Pages are taken *)

\* deallocuvm() parts an address space in two.
LEMMA SpaceSplit ==
    ASSUME NEW space \in Space, NEW a, NEW b
    PROVE  /\ Kept(space, a, b) \in Space /\ Dropped(space, a, b) \in Space
           /\ DOMAIN Kept(space, a, b).ptes = DOMAIN space.ptes \ (PageUp(b)..(PageUp(a) - 1))
           /\ Kept(space, a, b).dir = space.dir /\ Kept(space, a, b).tables = space.tables
           /\ \A f \in Frame :
                InSpace(space, f) = InSpace(Kept(space, a, b), f) + InSpace(Dropped(space, a, b), f)
<1> DEFINE pt == space.ptes
           D == Leaving(space, a, b)
           E == DOMAIN pt \ D
           k == Kept(space, a, b)
           d == Dropped(space, a, b)
<1>1. pt \in Map(Pte) /\ D \subseteq DOMAIN pt /\ E \subseteq DOMAIN pt
    BY DEF Space, Leaving
<1>2. /\ Restrict(pt, D) \in Map(Pte) /\ DOMAIN Restrict(pt, D) = D
      /\ Restrict(pt, E) \in Map(Pte) /\ DOMAIN Restrict(pt, E) = E
    <2> HIDE DEF pt, D, E
    <2> QED
        BY <1>1, RestrictMap
<1>3. /\ k.dir = space.dir /\ k.tables = space.tables /\ k.ptes = Restrict(pt, E)
      /\ d.dir = NoFrame /\ d.tables = Empty /\ d.ptes = Restrict(pt, D)
    BY Nothing DEF Kept, Dropped, Space, NoSpace
<1>4. k \in Space
    BY <1>2 DEF Kept, Space
<1>5. d \in Space
    BY <1>2, Nothing DEF Dropped, Space
<1>6. ASSUME NEW f \in Frame PROVE InSpace(space, f) = InSpace(k, f) + InSpace(d, f)
    <2> DEFINE fr == FramesOf(pt)
    <2>1. fr \in Map(Frame) /\ DOMAIN fr = DOMAIN pt
        BY <1>1, Framed
    <2>2. FramesOf(k.ptes) = Restrict(fr, E) /\ FramesOf(d.ptes) = Restrict(fr, D)
        BY <1>1, <1>3, Framed
    <2>3. Uses(fr, f) = Uses(Restrict(fr, D), f) + Uses(Restrict(fr, E), f)
        <3>1. D \cap E = {} /\ D \cup E = DOMAIN fr
            BY <1>1, <2>1
        <3> HIDE DEF D, E, fr
        <3> QED
            BY <2>1, <3>1, UsesParts
    <2>4. /\ Uses(Restrict(fr, D), f) \in Nat /\ Uses(Restrict(fr, E), f) \in Nat
          /\ Hits(space.dir, f) \in Nat /\ Uses(space.tables, f) \in Nat
        BY <1>4, <1>5, <2>2, InSpaceNat
    <2>5. Uses(Empty, f) = 0 /\ Hits(NoFrame, f) = 0
        BY Nothing, EmptyMap, FS_EmptySet, UsesNat
    <2> HIDE DEF pt, D, E, k, d, fr
    <2>6. InSpace(space, f) = Hits(space.dir, f) + Uses(space.tables, f) + Uses(fr, f)
        BY DEF InSpace, fr, pt
    <2>7. InSpace(k, f) = Hits(space.dir, f) + Uses(space.tables, f) + Uses(Restrict(fr, E), f)
        BY <1>3, <2>2 DEF InSpace
    <2>8. InSpace(d, f) = Uses(Restrict(fr, D), f)
        BY <1>3, <2>2, <2>4, <2>5 DEF InSpace
    <2> QED
        BY <2>3, <2>4, <2>6, <2>7, <2>8
<1>7. DOMAIN k.ptes = DOMAIN pt \ (PageUp(b)..(PageUp(a) - 1))
    BY <1>2, <1>3 DEF Leaving
<1> QED
    BY <1>3, <1>4, <1>5, <1>6, <1>7

\* Pages up to one size without those above another.
LEMMA CutOff ==
    ASSUME NEW n \in Nat, NEW low \in Nat, NEW high \in Nat, low <= n, n <= high
    PROVE  (0..(n - 1)) \ (low..(high - 1)) = 0..(low - 1)
OBVIOUS

\* allocuvm() gives back what it has got.
LEMMA UndoGoesOn ==
    ASSUME Sane, Frames, NEW p \in Slot, NEW j, j = job[p], j.op = "sbrk", j.at \in {"mem", "map"},
           Freed(j), proc[p].state = "user"
    PROVE  /\ Onward(p, Undo(j, proc[p].sz))
           /\ \A f \in Frame : InHand(Undo(j, proc[p].sz), f) = InHand(j, f)
<1> DEFINE sz == proc[p].sz
           u == Undo(j, sz)
           keep == Kept(j.space, j.limit, sz)
           drop == Dropped(j.space, j.limit, sz)
<1>1. j \in Job /\ j.space \in Space /\ j.limit \in Nat /\ sz \in Nat /\ Calling(p)
    BY DEF Frames, Types, Job, Process
<1>2. /\ j.kstack = NoFrame /\ j.child = NoSlot /\ j.page \in Nat
      /\ DOMAIN j.space.ptes = 0..(j.page - 1) /\ j.page <= PageUp(j.limit) /\ PageUp(sz) <= j.page
    BY <1>1 DEF Calling, Shape, Built, Sized, Job
<1>3. PageUp(sz) \in Nat /\ PageUp(j.limit) \in Nat
    BY <1>1, PagesBelow
<1>4. keep \in Space /\ drop \in Space /\ DOMAIN keep.ptes = Below(sz)
    <2>1. DOMAIN keep.ptes = DOMAIN j.space.ptes \ (PageUp(sz)..(PageUp(j.limit) - 1))
        BY <1>1, SpaceSplit
    <2>2. keep \in Space /\ drop \in Space
        BY <1>1, SpaceSplit
    <2>3. (0..(j.page - 1)) \ (PageUp(sz)..(PageUp(j.limit) - 1)) = 0..(PageUp(sz) - 1)
        BY <1>2, <1>3, CutOff
    <2> QED
        BY <1>2, <2>1, <2>2, <2>3 DEF Below
<1>5. /\ u.op = "sbrk" /\ u.at = "resized" /\ u.space = keep /\ u.mem = NoFrame /\ u.page = j.page
      /\ u.limit = j.limit /\ u.first = j.first /\ u.old = drop /\ u.last = j.mem
      /\ u.child = j.child /\ u.value = -1 /\ u.kstack = j.kstack
    BY <1>1 DEF Undo, Job
<1>6. u \in Job
    <2>1. j.mem \in MaybeFrame /\ NoFrame \in MaybeFrame /\ -1 \in Int
        BY <1>1 DEF Job, MaybeFrame
    <2> HIDE DEF keep, drop
    <2>2. u = [j EXCEPT !.at = "resized", !.mem = NoFrame, !.value = -1, !.space = keep,
                        !.old = drop, !.last = j.mem]
        BY DEF Undo, keep, drop
    <2> HIDE DEF u
    <2> QED
        BY <1>1, <1>4, <2>1, <2>2 DEF Job
<1> HIDE DEF u, keep, drop
<1>7. Shape(u) /\ Built(u)
    BY <1>2, <1>5 DEF Shape, Built
<1>8. Sized(u, proc[p], pgdir[p])
    BY <1>4, <1>5 DEF Sized
<1>9. ASSUME NEW f \in Frame PROVE InHand(u, f) = InHand(j, f)
    <2>1. InSpace(j.space, f) = InSpace(keep, f) + InSpace(drop, f)
        BY <1>1, SpaceSplit DEF keep, drop
    <2>2. Hits(NoFrame, f) = 0 /\ InSpace(NoSpace, f) = 0
        BY Nothing
    <2>3. /\ InSpace(keep, f) \in Nat /\ InSpace(drop, f) \in Nat /\ Hits(j.mem, f) \in Nat
          /\ InSpace(j.space, f) \in Nat
        BY <1>1, <1>4, InSpaceNat DEF Hits
    <2>4. InHand(j, f) = Hits(j.mem, f) + InSpace(j.space, f)
        BY <1>2, <2>2, <2>3 DEF InHand, Freed
    <2>5. InHand(u, f) = Hits(j.mem, f) + InSpace(keep, f) + InSpace(drop, f)
        BY <1>2, <1>5, <2>2, <2>3 DEF InHand, Freed
    <2> QED
        BY <2>1, <2>3, <2>4, <2>5
<1> QED
    BY <1>5, <1>6, <1>7, <1>8, <1>9 DEF Onward, u

\* Running out of memory in the middle of a loop.
LEMMA ShortGoesOn ==
    ASSUME Sane, Frames, NEW p \in Slot, NEW j, j = job[p], j.at \in {"mem", "map"}, Freed(j)
    PROVE  /\ j.op \in {"sbrk", "fork", "exec"} /\ proc[p].state = "user"
           /\ Onward(p, Short(j, p)) /\ \A f \in Frame : InHand(Short(j, p), f) = InHand(j, f)
<1>1. j \in Job /\ Calling(p)
    BY DEF Frames, Types
<1>2. j.op \in {"sbrk", "fork", "exec"} /\ proc[p].state = "user"
    BY <1>1 DEF Calling, Shape, Idle, Job
<1>3. CASE j.op = "sbrk"
    BY <1>2, <1>3, UndoGoesOn DEF Short
<1>4. CASE j.op # "sbrk"
    BY <1>1, <1>2, <1>4, BadHolds, BadGoesOn DEF Short
<1> QED
    BY <1>2, <1>3, <1>4

\* The call has what it says of the page it is at.
LEMMA PageThere ==
    ASSUME Sane, Frames, NEW p \in Slot, NEW j, j = job[p], j.page < PageUp(j.limit),
           j.at \in {"mem", "map"}
    PROVE  /\ j.op = "fork" => j.page \in DOMAIN pgdir[p].ptes /\ pgdir[p].ptes[j.page] \in Pte
           /\ Contents(p, j) \in Value /\ UserBit(p, j) \in BOOLEAN
<1>1. j \in Job /\ Calling(p) /\ pgdir[p] \in Space /\ proc[p] \in Process
    BY DEF Frames, Types
<1>2. j.op \in {"sbrk", "fork", "exec"} /\ proc[p].state = "user" /\ j.page \in Nat
    BY <1>1 DEF Calling, Shape, Idle, Job
<1>3. ASSUME j.op = "fork"
      PROVE  j.page \in DOMAIN pgdir[p].ptes /\ pgdir[p].ptes[j.page] \in Pte
    <2>1. j.limit = proc[p].sz /\ DOMAIN pgdir[p].ptes = Below(proc[p].sz) /\ proc[p].sz \in Nat
        BY <1>1, <1>2, <1>3 DEF Calling, Sized, Process
    <2>4. PageUp(proc[p].sz) \in Nat
        BY <2>1, PagesBelow
    <2>2. j.page \in DOMAIN pgdir[p].ptes
        BY <1>2, <2>1, <2>4 DEF Below
    <2>3. pgdir[p].ptes \in Map(Pte)
        BY <1>1 DEF Space
    <2> QED
        BY <2>2, <2>3, Maps
<1>4. CASE j.op = "fork"
    <2>1. pgdir[p].ptes[j.page].frame \in Frame /\ pgdir[p].ptes[j.page].user \in BOOLEAN
        BY <1>3, <1>4 DEF Pte
    <2>2. data[pgdir[p].ptes[j.page].frame] \in Value
        BY <2>1 DEF Frames, Types
    <2>3. Contents(p, j) \in Value
        BY <1>4, <2>2 DEF Contents
    <2>4. UserBit(p, j) \in BOOLEAN
        BY <1>4, <2>1, Zenon DEF UserBit
    <2> QED
        BY <1>3, <1>4, <2>3, <2>4
<1>5. CASE j.op = "exec"
    <2>1. j.limit = ImageSize /\ Len(Image) \in Nat /\ ImagePages \in Nat
        BY <1>1, <1>2, <1>5 DEF Calling, Sized, Sane, ImagePages
    <2>2. PageUp(ImageSize) = ImagePages
        BY <2>1, PageUps DEF ImageSize
    <2>3. j.page \in 0..(ImagePages - 1)
        BY <1>2, <2>1, <2>2
    <2>4. ImageData[j.page] \in Value
        BY <2>1, <2>3 DEF ImageData, Sane
    <2>5. Contents(p, j) \in Value
        BY <1>5, <2>4 DEF Contents
    <2>6. UserBit(p, j) \in BOOLEAN
        BY <1>5, Zenon DEF UserBit
    <2> QED
        BY <1>5, <2>5, <2>6
<1>6. CASE j.op = "sbrk"
    BY <1>6 DEF Contents, UserBit, Sane
<1> QED
    BY <1>2, <1>4, <1>5, <1>6

\* A frame for a page.
LEMMA AllocPageKeeps == ASSUME Sane, Frames, NEW p \in Slot, AllocPage(p) PROVE Frames'
<1> DEFINE j == job[p]
           got == [f \in Frame |-> [j EXCEPT !.mem = f, !.at = "map"]]
<1>1. j \in Job /\ Calling(p) /\ j.at = "mem" /\ Freed(j) /\ More(p)
    BY DEF Frames, Types, AllocPage, At
<1>2. j.op \in {"sbrk", "fork", "exec"} /\ proc[p].state = "user"
    BY <1>1, ShortGoesOn
<1>3. j.page < PageUp(j.limit) /\ j.mem = NoFrame
    BY <1>1, PagesBelow DEF Calling, Shape, More, Job
<1>4. ~CopyPanics(p) /\ Contents(p, j) \in Value
    BY <1>1, <1>3, PageThere DEF CopyPanics
<1>5. /\ Kalloc(p, got, Contents(p, j), Short(j, p))
      /\ UNCHANGED <<proc, pgdir, shadow, panicked>>
    BY <1>4 DEF AllocPage
<1>6. Onward(p, Short(j, p)) /\ \A f \in Frame : InHand(Short(j, p), f) = InHand(j, f)
    BY <1>1, ShortGoesOn
<1>7. ASSUME NEW g \in Frame
      PROVE  Onward(p, got[g]) /\ \A f \in Frame : InHand(got[g], f) = InHand(j, f) + Hits(g, f)
    <2> DEFINE k == got[g]
    <2>1. /\ k.mem = g /\ k.at = "map" /\ k.op = j.op /\ k.child = j.child
          /\ k.space = j.space /\ k.kstack = j.kstack /\ k.page = j.page /\ k.limit = j.limit
          /\ k.first = j.first /\ k.old = j.old /\ k.last = j.last /\ k.value = j.value
          /\ k \in Job
        BY <1>1 DEF Job, MaybeFrame
    <2> HIDE DEF k
    <2>2. g # NoFrame
        BY DEF Frame, NoFrame
    <2>3. Shape(k)
        BY <1>1, <1>2, <2>1, <2>2 DEF Calling, Shape, Freed
    <2>4. Built(k)
        BY <1>1, <1>3, <2>1 DEF Calling, Built
    <2>5. Sized(k, proc[p], pgdir[p])
        BY <1>1, <1>2, <2>1 DEF Calling, Sized
    <2>6. ASSUME NEW f \in Frame PROVE InHand(k, f) = InHand(j, f) + Hits(g, f)
        BY <1>1, <1>3, <2>1, HandWith
    <2> QED
        BY <1>1, <1>2, <2>1, <2>3, <2>4, <2>5, <2>6 DEF Onward, k
<1> HIDE DEF got
<1> QED
    BY <1>4, <1>5, <1>6, <1>7, KallocStep

\* A page goes into an address space.
LEMMA PageMapped ==
    ASSUME NEW space \in Space, NEW i \in Nat \ DOMAIN space.ptes, NEW e \in Pte,
           NEW more, more = [space EXCEPT !.ptes = With(@, i, e)]
    PROVE  /\ more \in Space /\ DOMAIN more.ptes = DOMAIN space.ptes \cup {i}
           /\ \A f \in Frame : InSpace(more, f) = InSpace(space, f) + Hits(e.frame, f)
<1> DEFINE pt == space.ptes
           all == With(pt, i, e)
<1>1. pt \in Map(Pte) /\ e.frame \in Frame
    BY DEF Space, Pte
<1>2. all \in Map(Pte)
    BY <1>1, ExtendMap
<1>3. DOMAIN all = DOMAIN pt \cup {i}
    BY DEF With
<1>4. more.dir = space.dir /\ more.tables = space.tables /\ more.ptes = all /\ more \in Space
    BY <1>2 DEF Space
<1>5. ASSUME NEW f \in Frame PROVE InSpace(more, f) = InSpace(space, f) + Hits(e.frame, f)
    <2> DEFINE fr == FramesOf(pt)
    <2>1. fr \in Map(Frame) /\ DOMAIN fr = DOMAIN pt /\ FramesOf(all) = With(fr, i, e.frame)
        BY <1>1, Framed
    <2>2. Uses(With(fr, i, e.frame), f) = Uses(fr, f) + Hits(e.frame, f)
        <3>1. i \in Nat \ DOMAIN fr
            BY <2>1
        <3> HIDE DEF fr
        <3> QED
            BY <1>1, <2>1, <3>1, UsesWith
    <2>3. /\ Uses(fr, f) \in Nat /\ Hits(space.dir, f) \in Nat /\ Uses(space.tables, f) \in Nat
          /\ Hits(e.frame, f) \in Nat
        BY InSpaceNat DEF Hits
    <2>4. InSpace(space, f) = Hits(space.dir, f) + Uses(space.tables, f) + Uses(fr, f)
        BY DEF InSpace
    <2>5. InSpace(more, f) = Hits(space.dir, f) + Uses(space.tables, f) + Uses(FramesOf(all), f)
        BY <1>4 DEF InSpace
    <2> HIDE DEF pt, all, fr
    <2> QED
        BY <2>1, <2>2, <2>3, <2>4, <2>5
<1> QED
    BY <1>3, <1>4, <1>5

\* So does a page table.
LEMMA TableMapped ==
    ASSUME NEW space \in Space, NEW t \in Nat \ DOMAIN space.tables, NEW g \in Frame,
           NEW more, more = [space EXCEPT !.tables = With(@, t, g)]
    PROVE  /\ more \in Space
           /\ \A f \in Frame : InSpace(more, f) = InSpace(space, f) + Hits(g, f)
<1> DEFINE ts == space.tables
           all == With(ts, t, g)
<1>1. ts \in Map(Frame)
    BY DEF Space
<1>2. all \in Map(Frame)
    BY <1>1, ExtendMap
<1>3. more.dir = space.dir /\ more.tables = all /\ more.ptes = space.ptes /\ more \in Space
    BY <1>2 DEF Space
<1>4. ASSUME NEW f \in Frame PROVE InSpace(more, f) = InSpace(space, f) + Hits(g, f)
    <2>1. Uses(all, f) = Uses(ts, f) + Hits(g, f)
        BY <1>1, UsesWith
    <2>2. /\ Uses(ts, f) \in Nat /\ Hits(space.dir, f) \in Nat
          /\ Uses(FramesOf(space.ptes), f) \in Nat /\ Hits(g, f) \in Nat
        BY InSpaceNat DEF Hits
    <2>3. InSpace(space, f) = Hits(space.dir, f) + Uses(ts, f) + Uses(FramesOf(space.ptes), f)
        BY DEF InSpace
    <2>4. InSpace(more, f) = Hits(space.dir, f) + Uses(all, f) + Uses(FramesOf(space.ptes), f)
        BY <1>3 DEF InSpace
    <2> HIDE DEF ts, all
    <2> QED
        BY <2>1, <2>2, <2>3, <2>4
<1> QED
    BY <1>3, <1>4

\* mappages()
LEMMA MapPageKeeps == ASSUME Sane, Frames, NEW p \in Slot, MapPage(p) PROVE Frames'
<1> DEFINE j == job[p]
           t == TableOf(j.page)
<1>1. j \in Job /\ Calling(p) /\ j.at = "map" /\ Freed(j) /\ j.space \in Space
    BY DEF Frames, Types, MapPage, At, Job
<1>2. j.op \in {"sbrk", "fork", "exec"} /\ proc[p].state = "user"
    BY <1>1, ShortGoesOn
<1>3. /\ j.page < PageUp(j.limit) /\ j.mem \in Frame /\ j.page \in Nat /\ j.limit \in Nat
      /\ DOMAIN j.space.ptes = 0..(j.page - 1)
    BY <1>1 DEF Calling, Shape, Built, Job, MaybeFrame
<1>4. UserBit(p, j) \in BOOLEAN
    BY <1>1, <1>3, PageThere
<1>5. CASE t \in DOMAIN j.space.tables
    <2> DEFINE e == [frame |-> j.mem, user |-> UserBit(p, j)]
               more == [j.space EXCEPT !.ptes = With(@, j.page, e)]
               k == [j EXCEPT !.at = "mem", !.mem = NoFrame, !.page = j.page + 1, !.space = more]
    <2>1. /\ job' = [job EXCEPT ![p] = k]
          /\ UNCHANGED <<freelist, data, proc, pgdir, shadow, panicked>>
        BY <1>1, <1>5, Zenon DEF MapPage, NothingFreed, Job
    <2>2. e \in Pte /\ e.frame = j.mem /\ j.page \in Nat \ DOMAIN j.space.ptes
        BY <1>3, <1>4 DEF Pte
    <2>3. /\ more \in Space /\ DOMAIN more.ptes = DOMAIN j.space.ptes \cup {j.page}
          /\ \A f \in Frame : InSpace(more, f) = InSpace(j.space, f) + Hits(j.mem, f)
        <3> DEFINE space == j.space
                   i == j.page
        <3>0. space \in Space /\ i \in Nat \ DOMAIN space.ptes
              /\ more = [space EXCEPT !.ptes = With(@, i, e)]
            BY <1>1, <2>2
        <3> HIDE DEF e, j, more, space, i
        <3>1. more \in Space /\ DOMAIN more.ptes = DOMAIN space.ptes \cup {i}
            BY <2>2, <3>0, PageMapped
        <3>2. \A f \in Frame : InSpace(more, f) = InSpace(space, f) + Hits(e.frame, f)
            BY <2>2, <3>0, PageMapped
        <3> QED
            BY <2>2, <3>1, <3>2 DEF space, i
    <2> HIDE DEF more
    <2>4. /\ k.at = "mem" /\ k.mem = NoFrame /\ k.page = j.page + 1 /\ k.space = more
          /\ k.op = j.op /\ k.child = j.child /\ k.kstack = j.kstack /\ k.limit = j.limit
          /\ k.first = j.first /\ k.old = j.old /\ k.last = j.last /\ k.value = j.value
        BY <1>1 DEF Job
    <2>5. k \in Job
        <3>1. NoFrame \in MaybeFrame /\ j.page + 1 \in Nat
            BY <1>3 DEF MaybeFrame
        <3> HIDE DEF j
        <3> QED
            BY <1>1, <2>3, <3>1 DEF Job
    <2> HIDE DEF k
    <2>6. Shape(k)
        BY <1>1, <1>2, <2>4 DEF Calling, Shape, Freed
    <2>7. Built(k)
        <3>1. PageUp(j.limit) \in Nat
            BY <1>3, PagesBelow
        <3>2. DOMAIN k.space.ptes = 0..(j.page - 1) \cup {j.page}
            BY <1>3, <2>3, <2>4
        <3>3. 0..(j.page - 1) \cup {j.page} = 0..((j.page + 1) - 1) /\ j.page + 1 <= PageUp(j.limit)
            BY <1>3, <3>1
        <3> QED
            BY <2>4, <3>2, <3>3 DEF Built
    <2>8. Sized(k, proc[p], pgdir[p])
        <3>1. j.op = "sbrk" => PageUp(proc[p].sz) <= j.page /\ j.value # -1
            BY <1>1, <1>2 DEF Calling, Sized
        <3>2. proc[p].sz \in Nat /\ PageUp(proc[p].sz) \in Nat
            BY PagesBelow DEF Frames, Types, Process
        <3>3. j.op = "sbrk" => PageUp(proc[p].sz) <= k.page /\ k.value # -1
            BY <1>3, <2>4, <3>1, <3>2
        <3> QED
            BY <1>1, <1>2, <2>4, <3>3 DEF Calling, Sized
    <2>9. ASSUME NEW f \in Frame
          PROVE  Uses(freelist', f) + InHand(k, f) = Uses(freelist, f) + InHand(j, f)
        <3>1. InSpace(more, f) = InSpace(j.space, f) + Hits(j.mem, f) /\ Hits(NoFrame, f) = 0
            BY <2>3, Nothing
        <3>2. InSpace(j.space, f) \in Nat /\ InSpace(j.old, f) \in Nat
            BY <1>1, InSpaceNat DEF Job
        <3>3. \A x : Hits(x, f) \in Nat
            BY DEF Hits
        <3>4. InHand(k, f) = InHand(j, f)
            BY <2>4, <3>1, <3>2, <3>3 DEF InHand
        <3> QED
            BY <2>1, <3>4
    <2>10. freelist' \in Seq(Frame) /\ data' \in [Frame -> Value]
        BY <2>1 DEF Frames, Types
    <2> QED
        BY <1>2, <2>1, <2>4, <2>5, <2>6, <2>7, <2>8, <2>9, <2>10, JobStep
<1>6. CASE t \notin DOMAIN j.space.tables
    <2> DEFINE got == [f \in Frame |-> [j EXCEPT !.space.tables = With(@, t, f)]]
    <2>1. Kalloc(p, got, "table", Short(j, p)) /\ UNCHANGED <<proc, pgdir, shadow, panicked>>
        BY <1>6 DEF MapPage
    <2>2. t \in Nat \ DOMAIN j.space.tables
        BY <1>3, <1>6, Divided DEF TableOf, Sane
    <2>3. ASSUME NEW g \in Frame
          PROVE  Onward(p, got[g]) /\ \A f \in Frame : InHand(got[g], f) = InHand(j, f) + Hits(g, f)
        <3> DEFINE k == got[g]
                   more == [j.space EXCEPT !.tables = With(@, t, g)]
        <3>1. more \in Space /\ \A f \in Frame : InSpace(more, f) = InSpace(j.space, f) + Hits(g, f)
            <4> HIDE DEF j, t
            <4> QED
                BY <1>1, <2>2, TableMapped
        <3>2. more.ptes = j.space.ptes
            BY <1>1 DEF Space
        <3> HIDE DEF more
        <3>3. k = [j EXCEPT !.space = more]
            BY DEF more
        <3> HIDE DEF k
        <3>4. /\ k.at = "map" /\ k.mem = j.mem /\ k.page = j.page /\ k.space = more
              /\ k.op = j.op /\ k.child = j.child /\ k.kstack = j.kstack /\ k.limit = j.limit
              /\ k.first = j.first /\ k.old = j.old /\ k.last = j.last /\ k.value = j.value
              /\ k \in Job
            BY <1>1, <3>1, <3>3 DEF Job
        <3>5. Shape(k)
            BY <1>1, <1>2, <3>4 DEF Calling, Shape, Freed
        <3>6. Built(k)
            BY <1>1, <1>3, <3>2, <3>4 DEF Calling, Built
        <3>7. Sized(k, proc[p], pgdir[p])
            BY <1>1, <1>2, <3>4 DEF Calling, Sized
        <3>8. ASSUME NEW f \in Frame PROVE InHand(k, f) = InHand(j, f) + Hits(g, f)
            BY <1>1, <3>1, <3>4, HandWith
        <3> QED
            BY <1>1, <1>2, <3>4, <3>5, <3>6, <3>7, <3>8 DEF Onward, k
    <2>4. Onward(p, Short(j, p)) /\ \A f \in Frame : InHand(Short(j, p), f) = InHand(j, f)
        BY <1>1, ShortGoesOn
    <2>5. "table" \in Value
        BY DEF Sane
    <2> HIDE DEF got
    <2> QED
        BY <2>1, <2>3, <2>4, <2>5, KallocStep
<1> QED
    BY <1>5, <1>6

\* The end of the loop.
LEMMA GrownKeeps == ASSUME Sane, Frames, NEW p \in Slot, Grown(p) PROVE Frames'
<1> DEFINE j == job[p]
           k == [j EXCEPT !.at = "resized"]
<1>1. /\ j \in Job /\ Calling(p) /\ j.op = "sbrk" /\ j.at = "mem" /\ Freed(j) /\ ~More(p)
      /\ job' = [job EXCEPT ![p] = k]
      /\ UNCHANGED <<freelist, data, proc, pgdir, shadow, panicked>>
    BY DEF Frames, Types, Grown, At, NothingFreed
<1>2. proc[p].state = "user" /\ j.page \in Nat /\ j.limit \in Nat
    BY <1>1 DEF Calling, Job
<1>3. j.page = PageUp(j.limit)
    <2>1. PageUp(j.limit) \in Nat /\ ~(j.page < PageUp(j.limit))
        BY <1>1, <1>2, PagesBelow DEF More
    <2>2. j.page <= PageUp(j.limit)
        BY <1>1 DEF Calling, Built
    <2> QED
        BY <1>2, <2>1, <2>2
<1>4. /\ k.at = "resized" /\ k.mem = j.mem /\ k.page = j.page /\ k.space = j.space
      /\ k.op = j.op /\ k.child = j.child /\ k.kstack = j.kstack /\ k.limit = j.limit
      /\ k.first = j.first /\ k.old = j.old /\ k.last = j.last /\ k.value = j.value
      /\ k \in Job
    BY <1>1 DEF Job
<1> HIDE DEF k
<1>5. Shape(k) /\ Built(k)
    BY <1>1, <1>4 DEF Calling, Shape, Built
<1>6. Sized(k, proc[p], pgdir[p])
    <2>1. DOMAIN k.space.ptes = Below(k.limit) /\ k.value # -1
        BY <1>1, <1>2, <1>3, <1>4 DEF Calling, Built, Sized, Below
    <2> QED
        BY <1>1, <1>4, <2>1 DEF Sized
<1>7. \A f \in Frame : InHand(k, f) = InHand(j, f)
    BY <1>4 DEF InHand
<1>8. freelist' \in Seq(Frame) /\ data' \in [Frame -> Value]
    BY <1>1 DEF Frames, Types
<1>9. \A f \in Frame : Uses(freelist', f) + InHand(k, f) = Uses(freelist, f) + InHand(j, f)
    BY <1>1, <1>7
<1> QED
    BY <1>1, <1>4, <1>5, <1>6, <1>8, <1>9, JobStep
-----------------------------------------------------------------------------
(* Calls begin and end *)

\* What others are in the middle of goes on.
LEMMA OthersCall ==
    ASSUME NEW q \in Slot, Calling(q), job'[q] = job[q], proc'[q].state = proc[q].state,
           proc'[q].sz = proc[q].sz, pgdir'[q] = pgdir[q], NEW c, c = job[q].child,
           job[q].op \in {"fork", "wait"} =>
             /\ proc'[c].state = proc[c].state /\ proc'[c].kstack = proc[c].kstack
             /\ pgdir'[c] = pgdir[c]
    PROVE  Calling(q)'
<1>1. Shape(job'[q]) /\ Built(job'[q])
    BY DEF Calling
<1>2. proc'[q].state = "user" => Sized(job'[q], proc'[q], pgdir'[q])
    BY DEF Calling, Sized
<1> QED
    BY <1>1, <1>2 DEF Calling

\* A process outside the kernel is in the middle of nothing.
LEMMA IdleCalls ==
    ASSUME NEW q \in Slot, job'[q] = Idle,
           proc'[q].state = "user" => DOMAIN pgdir'[q].ptes \in {{}, Below(proc'[q].sz)}
    PROVE  Calling(q)'
<1>1. Shape(Idle) /\ Built(Idle)
    BY DEF Shape, Built, Idle
<1>2. Idle.op = "none" /\ Idle.at = "none"
    BY DEF Idle
<1>3. proc'[q].state = "user" => Sized(Idle, proc'[q], pgdir'[q])
    BY <1>2 DEF Sized
<1> QED
    BY <1>1, <1>2, <1>3 DEF Calling

\* Frames stay where they are if each process has as many.
LEMMA OnlyOf ==
    ASSUME EveryFrameOnce, freelist' = freelist, NEW S, NEW T, S \cup T = Slot,
           \A q \in S : /\ proc'[q].kstack = proc[q].kstack /\ job'[q] = job[q]
                        /\ pgdir'[q] = pgdir[q],
           \A q \in T : \A f \in Frame : Holds(q, f)' = Holds(q, f)
    PROVE  EveryFrameOnce'
<1>1. ASSUME NEW f \in Frame, NEW o \in Owner PROVE Has(o, f)' = Has(o, f)
    <2>1. CASE o = NoSlot
        BY <2>1 DEF Has
    <2>2. CASE o # NoSlot /\ o \in S
        BY <2>2 DEF Has, Holds
    <2>3. CASE o # NoSlot /\ o \in T
        <3>1. Holds(o, f)' = Holds(o, f)
            BY <2>3
        <3> QED
            BY <2>3, <3>1 DEF Has
    <2> QED
        BY <2>1, <2>2, <2>3 DEF Owner
<1> QED
    BY <1>1, Stays

\* Nothing but the entries in the process table, and memory, change.
LEMMA QuietStep ==
    ASSUME Sane, Frames, UNCHANGED <<freelist, pgdir, job>>, proc' \in [Slot -> Process],
           data' \in [Frame -> Value], shadow' \in [Slot -> Map(Value)], panicked' = FALSE,
           \A q \in Slot :
             /\ proc'[q].sz = proc[q].sz /\ proc'[q].kstack = proc[q].kstack
             /\ \/ proc'[q].state = proc[q].state
                \/ proc[q].state = "user" /\ proc'[q].state = "zombie" /\ job[q].op = "none"
    PROVE  Frames'
<1>1. Types'
    BY DEF Frames, Types
<1>2. ASSUME NEW q \in Slot PROVE Calling(q)'
    <2>1. Calling(q)
        BY DEF Frames
    <2>2. CASE proc'[q].state = proc[q].state
        <3> DEFINE c == job[q].child
        <3>1. job[q].op \in {"fork", "wait"} =>
                c \in Slot /\ proc[c].state \in {"EMBRYO", "zombie"}
            BY <2>1 DEF Calling, Shape
        <3>2. job[q].op \in {"fork", "wait"} =>
                /\ proc'[c].state = proc[c].state /\ proc'[c].kstack = proc[c].kstack
                /\ pgdir'[c] = pgdir[c]
            BY <3>1
        <3> HIDE DEF c
        <3> QED
            BY <2>1, <2>2, <3>2, OthersCall DEF c
    <2>3. CASE proc'[q].state = "zombie" /\ job[q].op = "none"
        BY <2>1, <2>3, IdleCalls DEF Calling, Shape
    <2> QED
        BY <2>2, <2>3
<1>3. Slots'
    <2>1. ASSUME NEW q \in Slot, proc'[q].state \in {"UNUSED", "EMBRYO"}
          PROVE  proc'[q].kstack = NoFrame /\ pgdir'[q] = NoSpace
        BY <2>1 DEF Frames, Slots
    <2> QED
        BY <2>1 DEF Frames, Slots
<1>4. EveryFrameOnce'
    <2>1. ASSUME NEW f \in Frame, NEW o \in Owner PROVE Has(o, f)' = Has(o, f)
        BY DEF Has, Holds, Owner
    <2> QED
        BY <2>1, Stays DEF Frames
<1> QED
    BY <1>1, <1>2, <1>3, <1>4 DEF Frames, NoMemPanic

\* A call returns, and with it goes the slot that it emptied or could not use.
LEMMA ReturnKeeps ==
    ASSUME Sane, Frames, NEW p \in Slot, job[p].at \in {"fail", "done"}, Freed(job[p]),
           Finish(p), NEW v \in Value,
           proc' = [q \in Slot |-> IF q = p THEN [proc[p] EXCEPT !.ret = v]
                                   ELSE IF q = job[p].child THEN Unused ELSE proc[q]],
           UNCHANGED <<freelist, data, pgdir, shadow, panicked>>
    PROVE  Frames'
<1> DEFINE j == job[p]
           c == job[p].child
<1>1. j \in Job /\ Calling(p) /\ proc[p] \in Process
    BY DEF Frames, Types
<1>2. j.op \in {"fork", "exec", "wait"} /\ proc[p].state = "user"
    BY <1>1 DEF Calling, Shape, Idle, Job
<1>3. job'[p] = Idle /\ \A q \in Slot \ {p} : job'[q] = job[q]
    BY DEF Finish, Frames, Types
<1>4. /\ proc'[p].state = "user" /\ proc'[p].sz = proc[p].sz /\ proc'[p].kstack = proc[p].kstack
      /\ proc'[p] \in Process
    BY <1>1, <1>2 DEF Process
<1>5. \A q \in Slot \ {p, c} : proc'[q] = proc[q]
    OBVIOUS
<1>6. c \in Slot => /\ c # p /\ proc'[c] = Unused /\ proc[c].state \in {"EMBRYO", "zombie"}
                    /\ proc[c].kstack = NoFrame /\ pgdir[c] = NoSpace
    <2> SUFFICES ASSUME c \in Slot
                 PROVE  /\ c # p /\ proc'[c] = Unused /\ proc[c].state \in {"EMBRYO", "zombie"}
                        /\ proc[c].kstack = NoFrame /\ pgdir[c] = NoSpace
        OBVIOUS
    <2>1. j.op \in {"fork", "wait"}
        BY <1>1, <1>2 DEF Calling, Shape, NoSlot, Sane
    <2>2. proc[c].state \in {"EMBRYO", "zombie"} /\ c # p
        BY <1>1, <1>2, <2>1 DEF Calling
    <2>3. proc[c].kstack = NoFrame /\ pgdir[c] = NoSpace
        BY <1>1, <2>1 DEF Calling, Frames, Slots
    <2> QED
        BY <2>2, <2>3
<1>7. Unused \in Process /\ Unused.state = "UNUSED" /\ Unused.kstack = NoFrame
    BY DEF Unused, Process, Owner, MaybeFrame, NoGuard, OK, Sane
<1> HIDE DEF j, c
<1>8. Types'
    <2>1. ASSUME NEW q \in Slot PROVE proc'[q] \in Process
        BY <1>4, <1>5, <1>6, <1>7, <2>1 DEF Frames, Types
    <2>2. proc' \in [Slot -> Process]
        BY <2>1
    <2>3. job' \in [Slot -> Job]
        BY IdleHand DEF Finish, Frames, Types
    <2> QED
        BY <2>2, <2>3 DEF Frames, Types
<1>9. ASSUME NEW q \in Slot PROVE Calling(q)'
    <2>1. Calling(q)
        BY DEF Frames
    <2>2. CASE q = p
        <3>1. j.op # "sbrk" => DOMAIN pgdir[p].ptes \in {{}, Below(proc[p].sz)}
            BY <1>1, <1>2 DEF Calling, Sized, j
        <3> QED
            BY <1>2, <1>3, <1>4, <2>2, <3>1, IdleCalls
    <2>3. CASE q = c /\ q # p
        <3>1. job[q].op = "none" /\ job[q] = Idle
            BY <1>6, <2>1, <2>3 DEF Calling, Shape
        <3> QED
            BY <1>3, <1>6, <1>7, <2>3, <3>1, IdleCalls
    <2>4. CASE q \notin {p, c}
        <3> DEFINE d == job[q].child
        <3>1. job[q].op \in {"fork", "wait"} => d \in Slot /\ d # p /\ d # c
            <4> SUFFICES ASSUME job[q].op \in {"fork", "wait"} PROVE d \in Slot /\ d # p /\ d # c
                OBVIOUS
            <4>1. d \in Slot /\ proc[d].state = IF job[q].op = "fork" THEN "EMBRYO" ELSE "zombie"
                BY <2>1 DEF Calling, Shape
            <4>2. c \in Slot => /\ job[p].op \in {"fork", "wait"}
                                /\ proc[c].state = IF job[p].op = "fork" THEN "EMBRYO" ELSE "zombie"
                BY <1>1, <1>2 DEF Calling, Shape, Sane, NoSlot, j, c
            <4>3. d = c => job[q].op = job[p].op
                BY <1>2, <4>1, <4>2 DEF j
            <4>4. /\ job[p].op = "fork" /\ job[q].op = "fork" => job[p].child # job[q].child
                  /\ job[p].op = "wait" => job[q].op # "wait"
                BY <2>4 DEF Frames, Slots
            <4> QED
                BY <1>2, <4>1, <4>3, <4>4 DEF c
        <3>2. job[q].op \in {"fork", "wait"} =>
                /\ proc'[d].state = proc[d].state /\ proc'[d].kstack = proc[d].kstack
                /\ pgdir'[d] = pgdir[d]
            BY <1>5, <3>1
        <3> HIDE DEF d
        <3> QED
            BY <1>3, <1>5, <2>1, <2>4, <3>2, OthersCall DEF d
    <2> QED
        BY <2>2, <2>3, <2>4
<1>10. Slots'
    <2>1. ASSUME NEW q \in Slot, proc'[q].state \in {"UNUSED", "EMBRYO"}
          PROVE  proc'[q].kstack = NoFrame /\ pgdir'[q] = NoSpace
        BY <1>4, <1>5, <1>6, <1>7, <2>1 DEF Frames, Slots
    <2>2. \A q, r \in Slot : q # r =>
            /\ job'[q].op = "fork" /\ job'[r].op = "fork" => job'[q].child # job'[r].child
            /\ job'[q].op = "wait" => job'[r].op # "wait"
        BY <1>3, IdleHand DEF Frames, Slots
    <2> QED
        BY <2>1, <2>2 DEF Slots
<1>11. EveryFrameOnce'
    <2>1. ASSUME NEW f \in Frame PROVE Holds(p, f)' = Holds(p, f)
        <3>1. InHand(j, f) = 0
            BY <1>1, <1>2, Nothing DEF Calling, Shape, Freed, InHand, j
        <3>2. InHand(Idle, f) = 0
            BY IdleHand
        <3> QED
            BY <1>2, <1>3, <1>4, <3>1, <3>2, IdleHand DEF Holds, j
    <2>2. \A q \in Slot \ {p} : proc'[q].kstack = proc[q].kstack /\ job'[q] = job[q]
                                /\ pgdir'[q] = pgdir[q]
        BY <1>3, <1>5, <1>6, <1>7
    <2>3. (Slot \ {p}) \cup {p} = Slot
        OBVIOUS
    <2>4. \A q \in {p} : \A f \in Frame : Holds(q, f)' = Holds(q, f)
        BY <2>1
    <2> QED
        BY <2>2, <2>3, <2>4, OnlyOf DEF Frames
<1> QED
    BY <1>8, <1>9, <1>10, <1>11 DEF Frames, NoMemPanic

\* -1 after all has been undone, or the end of exec() and wait().
LEMMA FailKeeps == ASSUME Sane, Frames, NEW p \in Slot, Fail(p) PROVE Frames'
<1>1. -1 \in Value
    BY DEF Sane
<1> QED
    BY <1>1, ReturnKeeps DEF Fail, At, NothingFreed

\* exec() and wait() return.
LEMMA DoneKeeps == ASSUME Sane, Frames, NEW p \in Slot, Done(p) PROVE Frames'
<1>1. job[p].value \in Value
    BY DEF Frames, Types, Job, Sane
<1> QED
    BY <1>1, ReturnKeeps DEF Done, At, NothingFreed

\* A process that can run has its pages.
LEMMA Running ==
    ASSUME Frames, NEW p \in Slot, InUser(p)
    PROVE  /\ job[p] = Idle /\ proc[p].state = "user" /\ proc[p] \in Process
           /\ pgdir[p] \in Space /\ DOMAIN pgdir[p].ptes \in {{}, Below(proc[p].sz)}
           /\ CanRun(p) => DOMAIN pgdir[p].ptes = Below(proc[p].sz)
<1>1. Calling(p) /\ proc[p] \in Process /\ pgdir[p] \in Space
    BY DEF Frames, Types
<1>2. job[p] = Idle /\ proc[p].state = "user"
    BY <1>1 DEF InUser, Calling, Shape
<1>3. DOMAIN pgdir[p].ptes \in {{}, Below(proc[p].sz)}
    BY <1>1, <1>2, IdleHand DEF Calling, Sized
<1>4. CanRun(p) => DOMAIN pgdir[p].ptes # {}
    BY DEF CanRun, Accessible
<1> QED
    BY <1>1, <1>2, <1>3, <1>4

\* The calls that only look, or only change the process table.
LEMMA ExitKeeps == ASSUME Sane, Frames, NEW p \in Slot, InUser(p), Exit(p) PROVE Frames'
<1>1. /\ UNCHANGED <<freelist, pgdir, job, data, shadow>> /\ panicked' = FALSE
      /\ proc' = [q \in Slot |-> IF q = p THEN [proc[p] EXCEPT !.state = "zombie"]
                    ELSE IF proc[q].parent = p THEN [proc[q] EXCEPT !.parent = First] ELSE proc[q]]
    BY DEF Exit, NothingFreed, Frames, NoMemPanic
<1>2. First \in Owner /\ \A q \in Slot : proc[q] \in Process
    BY DEF Sane, Owner, Frames, Types
<1>3. ASSUME NEW q \in Slot
      PROVE  /\ proc'[q] \in Process /\ proc'[q].sz = proc[q].sz /\ proc'[q].kstack = proc[q].kstack
             /\ \/ proc'[q].state = proc[q].state
                \/ proc[q].state = "user" /\ proc'[q].state = "zombie" /\ job[q].op = "none"
    BY <1>1, <1>2 DEF Process, InUser
<1>4. proc' \in [Slot -> Process]
    BY <1>1, <1>3
<1>5. data' \in [Frame -> Value] /\ shadow' \in [Slot -> Map(Value)]
    BY <1>1 DEF Frames, Types
<1> QED
    BY <1>1, <1>3, <1>4, <1>5, QuietStep

\* One or two entries change.
LEMMA ReturnOnly ==
    ASSUME Sane, Frames, NEW p \in Slot, NEW q, NEW v \in Value, NEW dead \in BOOLEAN,
           proc' = [proc EXCEPT ![q].killed = dead, ![p].ret = v],
           UNCHANGED <<freelist, pgdir, job>>, data' \in [Frame -> Value],
           shadow' \in [Slot -> Map(Value)], panicked' = FALSE
    PROVE  Frames'
<1>1. proc \in [Slot -> Process]
    BY DEF Frames, Types
<1> DEFINE first == [proc EXCEPT ![q].killed = dead]
<1>2. first \in [Slot -> Process] /\ \A s \in Slot : /\ first[s].sz = proc[s].sz
                                                    /\ first[s].kstack = proc[s].kstack
                                                    /\ first[s].state = proc[s].state
    BY <1>1 DEF Process
<1>3. proc' = [first EXCEPT ![p].ret = v]
    OBVIOUS
<1> HIDE DEF first
<1>4. /\ proc' \in [Slot -> Process]
      /\ \A s \in Slot : /\ proc'[s].sz = proc[s].sz /\ proc'[s].kstack = proc[s].kstack
                         /\ proc'[s].state = proc[s].state
    <2>1. ASSUME NEW s \in Slot
          PROVE  /\ proc'[s] \in Process
                 /\ proc'[s].sz = first[s].sz
                 /\ proc'[s].kstack = first[s].kstack /\ proc'[s].state = first[s].state
        <3>1. first[s] \in Process
            BY <1>2
        <3>2. proc'[s] = first[s] \/ proc'[s] = [first[s] EXCEPT !.ret = v]
            BY <1>2, <1>3
        <3> QED
            BY <3>1, <3>2 DEF Process
    <2>2. proc' \in [Slot -> Process]
        BY <1>2, <1>3, <2>1
    <2> QED
        BY <1>2, <2>1, <2>2
<1> QED
    BY <1>4, QuietStep

\* kill() changes a flag only.
LEMMA KillKeeps == ASSUME Sane, Frames, NEW p \in Slot, NEW q, Kill(p, q) PROVE Frames'
<1>1. OK \in Value
    BY DEF Sane, OK
<1>2. /\ data' \in [Frame -> Value] /\ shadow' \in [Slot -> Map(Value)] /\ panicked' = FALSE
      /\ UNCHANGED <<freelist, pgdir, job>>
    BY DEF Kill, NothingFreed, Frames, Types, NoMemPanic
<1>3. proc' = [proc EXCEPT ![q].killed = TRUE, ![p].ret = OK]
    BY DEF Kill
<1> QED
    BY <1>1, <1>2, <1>3, ReturnOnly

\* A call that returns a value and does nothing else.
LEMMA ReturnStep ==
    ASSUME Sane, Frames, NEW p \in Slot, NEW v \in Value, proc' = Return(p, v),
           UNCHANGED <<freelist, pgdir, job>>, data' \in [Frame -> Value],
           shadow' \in [Slot -> Map(Value)], panicked' = FALSE
    PROVE  Frames'
<1>1. proc' = [proc EXCEPT ![p].ret = v] /\ proc \in [Slot -> Process]
    BY DEF Return, Frames, Types
<1>2. /\ proc' \in [Slot -> Process]
      /\ \A s \in Slot : /\ proc'[s].sz = proc[s].sz /\ proc'[s].kstack = proc[s].kstack
                         /\ proc'[s].state = proc[s].state
    BY <1>1 DEF Process
<1> QED
    BY <1>2, QuietStep

\* The frame behind an address.
LEMMA Behind ==
    ASSUME Frames, NEW p \in Slot, NEW a, Accessible(p, a)
    PROVE  PageOf(a) \in DOMAIN pgdir[p].ptes /\ pgdir[p].ptes[PageOf(a)].frame \in Frame
<1>1. pgdir[p].ptes \in Map(Pte) /\ PageOf(a) \in DOMAIN pgdir[p].ptes
    BY DEF Frames, Types, Space, Accessible
<1>2. pgdir[p].ptes[PageOf(a)] \in Pte
    BY <1>1, Maps
<1> QED
    BY <1>1, <1>2 DEF Pte

\* A load reads a page, or the process dies.
LEMMA LoadKeeps ==
    ASSUME Sane, Frames, NEW p \in Slot, InUser(p), NEW a, Load(p, a) PROVE Frames'
<1>1. CASE Accessible(p, a)
    <2> DEFINE v == data[pgdir[p].ptes[PageOf(a)].frame]
    <2>1. v \in Value
        BY <1>1, Behind DEF Frames, Types
    <2>2. /\ proc' = Return(p, v)
          /\ UNCHANGED <<freelist, data, pgdir, job, shadow, panicked>>
        BY <1>1 DEF Load, NothingFreed
    <2>3. data' \in [Frame -> Value] /\ shadow' \in [Slot -> Map(Value)] /\ panicked' = FALSE
        BY <2>2 DEF Frames, Types, NoMemPanic
    <2> HIDE DEF v
    <2> QED
        BY <2>1, <2>2, <2>3, ReturnStep
<1>2. CASE ~Accessible(p, a)
    BY <1>2, ExitKeeps DEF Load
<1> QED
    BY <1>1, <1>2

\* A store changes what the page contains and what it should contain.
LEMMA StoreKeeps ==
    ASSUME Sane, Frames, NEW p \in Slot, InUser(p), NEW a, NEW value \in Value,
           Store(p, a, value)
    PROVE  Frames'
<1>1. CASE Accessible(p, a)
    <2> DEFINE g == pgdir[p].ptes[PageOf(a)].frame
               kept == [shadow[p] EXCEPT ![PageOf(a)] = value]
    <2>1. g \in Frame /\ OK \in Value
        BY <1>1, Behind DEF Sane, OK
    <2>2. /\ proc' = Return(p, OK) /\ data' = [data EXCEPT ![g] = value]
          /\ shadow' = [shadow EXCEPT ![p] = kept]
          /\ UNCHANGED <<freelist, pgdir, job, panicked>>
        BY <1>1 DEF Store, Frames, Types
    <2> HIDE DEF g
    <2>3. data' \in [Frame -> Value] /\ panicked' = FALSE
        BY <2>1, <2>2 DEF Frames, Types, NoMemPanic
    <2>4. kept \in Map(Value)
        <3>1. shadow[p] \in Map(Value)
            BY DEF Frames, Types
        <3>2. shadow[p] \in [DOMAIN shadow[p] -> Value] /\ DOMAIN shadow[p] \in SUBSET Nat
              /\ IsFiniteSet(DOMAIN shadow[p])
            BY <3>1, Maps
        <3>3. kept \in [DOMAIN shadow[p] -> Value] /\ DOMAIN kept = DOMAIN shadow[p]
            BY <3>2
        <3> QED
            BY <3>2, <3>3, Maps
    <2>5. shadow' \in [Slot -> Map(Value)]
        BY <2>2, <2>4 DEF Frames, Types
    <2> QED
        BY <2>1, <2>2, <2>3, <2>5, ReturnStep
<1>2. CASE ~Accessible(p, a)
    BY <1>2, ExitKeeps DEF Store
<1> QED
    BY <1>1, <1>2

\* The kernel reads an argument below the size of a process, where all pages are.
LEMMA FetchKeeps ==
    ASSUME Sane, Frames, NEW p \in Slot, InUser(p), CanRun(p), NEW a \in Nat, Fetch(p, a)
    PROVE  Frames'
<1> DEFINE v == IF a >= proc[p].sz THEN -1 ELSE OK
<1>1. v \in Value
    BY DEF Sane, OK
<1>2. proc' = Return(p, v) /\ UNCHANGED <<freelist, data, pgdir, job, shadow>>
    BY DEF Fetch, NothingFreed
<1>3. DOMAIN pgdir[p].ptes = Below(proc[p].sz) /\ proc[p].sz \in Nat
    BY Running DEF Process
<1>4. panicked' = FALSE
    <2>1. a < proc[p].sz => PageOf(a) \in Nat /\ PageOf(a) < PageUp(proc[p].sz)
        BY <1>3, PageUps
    <2>2. PageUp(proc[p].sz) \in Nat
        BY <1>3, PagesBelow
    <2>3. a < proc[p].sz => PageOf(a) \in DOMAIN pgdir[p].ptes
        BY <1>3, <2>1, <2>2 DEF Below
    <2> QED
        BY <2>3 DEF Fetch
<1>5. data' \in [Frame -> Value] /\ shadow' \in [Slot -> Map(Value)]
    BY <1>2 DEF Frames, Types
<1> HIDE DEF v
<1> QED
    BY <1>1, <1>2, <1>4, <1>5, ReturnStep
-----------------------------------------------------------------------------
(* sbrk() and exec() *)

\* A step that changes nothing but what belongs to its own process.
LEMMA OwnStep ==
    ASSUME Sane, Frames, NEW p \in Slot, Types', freelist' = freelist, panicked' = FALSE,
           \A q \in Slot \ {p} : proc'[q] = proc[q] /\ job'[q] = job[q] /\ pgdir'[q] = pgdir[q],
           proc[p].state = "user", proc'[p].state = "user", job'[p].op \notin {"fork", "wait"},
           Calling(p)', \A f \in Frame : Holds(p, f)' = Holds(p, f)
    PROVE  Frames'
<1>1. ASSUME NEW q \in Slot PROVE Calling(q)'
    <2>1. Calling(q)
        BY DEF Frames
    <2>2. CASE q # p
        <3> DEFINE c == job[q].child
        <3>1. job[q].op \in {"fork", "wait"} => c \in Slot /\ c # p
            BY <2>1 DEF Calling, Shape
        <3>2. job[q].op \in {"fork", "wait"} =>
                /\ proc'[c].state = proc[c].state /\ proc'[c].kstack = proc[c].kstack
                /\ pgdir'[c] = pgdir[c]
            BY <3>1
        <3> HIDE DEF c
        <3> QED
            BY <2>1, <2>2, <3>2, OthersCall DEF c
    <2>3. CASE q = p
        BY <2>3
    <2> QED
        BY <2>2, <2>3
<1>2. Slots'
    <2>1. ASSUME NEW q \in Slot, proc'[q].state \in {"UNUSED", "EMBRYO"}
          PROVE  proc'[q].kstack = NoFrame /\ pgdir'[q] = NoSpace
        <3>1. q # p
            BY <2>1
        <3> QED
            BY <2>1, <3>1 DEF Frames, Slots
    <2>2. \A q, r \in Slot : q # r =>
            /\ job'[q].op = "fork" /\ job'[r].op = "fork" => job'[q].child # job'[r].child
            /\ job'[q].op = "wait" => job'[r].op # "wait"
        BY DEF Frames, Slots
    <2> QED
        BY <2>1, <2>2 DEF Slots
<1>3. EveryFrameOnce'
    <2>1. \A q \in Slot \ {p} : proc'[q].kstack = proc[q].kstack /\ job'[q] = job[q]
                                /\ pgdir'[q] = pgdir[q]
        OBVIOUS
    <2>2. (Slot \ {p}) \cup {p} = Slot
        OBVIOUS
    <2>3. \A q \in {p} : \A f \in Frame : Holds(q, f)' = Holds(q, f)
        OBVIOUS
    <2> QED
        BY <2>1, <2>2, <2>3, OnlyOf DEF Frames
<1> QED
    BY <1>1, <1>2, <1>3 DEF Frames, NoMemPanic

\* The new job of a process that has had none, with the frames of its address space.
LEMMA EnterStep ==
    ASSUME Sane, Frames, NEW p \in Slot, InUser(p), NEW j \in Job, Enter(p, j),
           UNCHANGED <<freelist, data, proc, pgdir, shadow, panicked>>,
           j.op \in {"sbrk", "exec"}, Shape(j), Built(j), Sized(j, proc[p], pgdir[p]),
           \A f \in Frame :
               InHand(j, f) = IF j.op = "sbrk" THEN InSpace(pgdir[p], f) ELSE 0
    PROVE  Frames'
<1>1. job[p] = Idle /\ proc[p].state = "user" /\ pgdir[p] \in Space
    BY Running
<1>2. job'[p] = j /\ (\A q \in Slot \ {p} : job'[q] = job[q]) /\ job' \in [Slot -> Job]
    BY DEF Enter, Frames, Types
<1>3. Types' /\ panicked' = FALSE
    BY <1>2 DEF Frames, Types, NoMemPanic
<1>4. Calling(p)'
    BY <1>1, <1>2 DEF Calling
<1>5. ASSUME NEW f \in Frame PROVE Holds(p, f)' = Holds(p, f)
    <2>1. InHand(Idle, f) = 0 /\ Idle.op = "none"
        BY IdleHand
    <2>2. InSpace(pgdir[p], f) \in Nat /\ Hits(proc[p].kstack, f) \in Nat
        BY <1>1, InSpaceNat DEF Hits
    <2> QED
        BY <1>1, <1>2, <2>1, <2>2 DEF Holds
<1> QED
    BY <1>1, <1>2, <1>3, <1>4, <1>5, OwnStep

\* growproc() begins.
LEMMA SbrkKeeps ==
    ASSUME Sane, Frames, NEW p \in Slot, InUser(p), CanRun(p), NEW n \in Int, Sbrk(p, n)
    PROVE  Frames'
<1> DEFINE sz == proc[p].sz
           newsz == sz + n
           space == pgdir[p]
<1>1. /\ job[p] = Idle /\ space \in Space /\ sz \in Nat /\ newsz \in Int
      /\ DOMAIN space.ptes = Below(sz) /\ proc[p].state = "user"
    BY Running DEF Process
<1>2. PageUp(sz) \in Nat
    BY <1>1, PagesBelow
<1>3. Idle \in Job
    BY IdleHand
<1>4. UNCHANGED <<freelist, data, pgdir, shadow, panicked>>
    BY DEF Sbrk, NothingFreed
<1>5. data' \in [Frame -> Value] /\ shadow' \in [Slot -> Map(Value)] /\ panicked' = FALSE
    BY <1>4 DEF Frames, Types, NoMemPanic
<1>6. CASE (n = 0 \/ newsz < 0) /\ proc' = Return(p, sz) /\ UNCHANGED job
    <2>1. sz \in Value
        BY <1>1 DEF Sane
    <2> QED
        BY <1>4, <1>5, <1>6, <2>1, ReturnStep
<1>7. CASE n > 0 /\ newsz >= KERNBASE /\ proc' = Return(p, -1) /\ UNCHANGED job
    <2>1. -1 \in Value
        BY DEF Sane
    <2> QED
        BY <1>4, <1>5, <1>7, <2>1, ReturnStep
<1>8. CASE n > 0 /\ newsz < KERNBASE /\ Enter(p, JobToGrow(p, newsz)) /\ UNCHANGED proc
    <2> DEFINE j == JobToGrow(p, newsz)
    <2>2. newsz \in Nat /\ sz <= newsz
        BY <1>1, <1>8
    <2>3. PageUp(sz) <= PageUp(newsz)
        BY <1>1, <2>2, PageUps
    <2>4. j \in Job
        <3>1. sz \in Int
            BY <1>1
        <3>2. j = [Idle EXCEPT !.op = "sbrk", !.at = "mem", !.space = space, !.page = PageUp(sz),
                               !.limit = newsz, !.value = sz]
            BY DEF JobToGrow
        <3> HIDE DEF j, space, sz, newsz
        <3> QED
            BY <1>1, <1>2, <1>3, <2>2, <3>1, <3>2 DEF Job
    <2>5. /\ j.op = "sbrk" /\ j.at = "mem" /\ j.space = space /\ j.mem = NoFrame
          /\ j.page = PageUp(sz) /\ j.limit = newsz /\ j.first = NoFrame /\ j.old = NoSpace
          /\ j.last = NoFrame /\ j.child = NoSlot /\ j.value = sz /\ j.kstack = NoFrame
        BY DEF Idle, JobToGrow
    <2> HIDE DEF j
    <2>6. Shape(j) /\ Built(j) /\ Sized(j, proc[p], pgdir[p])
        BY <1>1, <1>2, <2>3, <2>5 DEF Shape, Freed, Built, Sized, Below
    <2>7. \A f \in Frame : InHand(j, f) = IF j.op = "sbrk" THEN InSpace(pgdir[p], f) ELSE 0
        BY <1>1, <2>5, Nothing, InSpaceNat DEF InHand
    <2> QED
        BY <1>4, <1>8, <2>4, <2>5, <2>6, <2>7, EnterStep DEF j
<1>9. CASE n < 0 /\ newsz >= 0 /\ Enter(p, JobToShrink(p, newsz)) /\ UNCHANGED proc
    <2> DEFINE keep == Kept(space, sz, newsz)
               drop == Dropped(space, sz, newsz)
               j == JobToShrink(p, newsz)
    <2>2. newsz \in Nat /\ newsz <= sz
        BY <1>1, <1>9
    <2>3. PageUp(newsz) <= PageUp(sz) /\ PageUp(newsz) \in Nat
        BY <1>1, <2>2, PageUps, PagesBelow
    <2>4. keep \in Space /\ drop \in Space /\ DOMAIN keep.ptes = Below(newsz)
        <3>1. DOMAIN keep.ptes = DOMAIN space.ptes \ (PageUp(newsz)..(PageUp(sz) - 1))
            BY <1>1, SpaceSplit
        <3>2. keep \in Space /\ drop \in Space
            BY <1>1, SpaceSplit
        <3>3. (0..(PageUp(sz) - 1)) \ (PageUp(newsz)..(PageUp(sz) - 1)) = 0..(PageUp(newsz) - 1)
            <4> DEFINE top == PageUp(sz)
                       low == PageUp(newsz)
            <4>1. top \in Nat /\ low \in Nat /\ low <= top
                BY <1>2, <2>3
            <4> HIDE DEF top, low
            <4>2. (0..(top - 1)) \ (low..(top - 1)) = 0..(low - 1)
                BY <4>1
            <4> QED
                BY <4>2 DEF top, low
        <3> QED
            BY <1>1, <3>1, <3>2, <3>3 DEF Below
    <2>5. \A f \in Frame : InSpace(space, f) = InSpace(keep, f) + InSpace(drop, f)
        BY <1>1, SpaceSplit
    <2> HIDE DEF keep, drop
    <2>6. j \in Job
        <3>1. (IF newsz = 0 THEN -1 ELSE sz) \in Int
            BY <1>1
        <3> DEFINE v == IF newsz = 0 THEN -1 ELSE sz
        <3>2. j = [Idle EXCEPT !.op = "sbrk", !.at = "resized", !.space = keep, !.limit = newsz,
                               !.old = drop, !.value = v]
            BY DEF JobToShrink, ShrinkFrom, keep, drop
        <3> HIDE DEF j, space, sz, newsz, v
        <3> QED
            BY <1>1, <1>3, <2>2, <2>4, <3>1, <3>2 DEF Job, v
    <2>7. /\ j.op = "sbrk" /\ j.at = "resized" /\ j.space = keep /\ j.mem = NoFrame
          /\ j.limit = newsz /\ j.first = NoFrame /\ j.old = drop
          /\ j.last = NoFrame /\ j.child = NoSlot /\ j.kstack = NoFrame
          /\ j.value = IF newsz = 0 THEN -1 ELSE sz
        BY DEF Idle, JobToShrink, ShrinkFrom, keep, drop
    <2> HIDE DEF j
    <2>8. Shape(j) /\ Built(j)
        BY <2>7 DEF Shape, Built
    <2>9. Sized(j, proc[p], pgdir[p])
        <3>1. newsz = 0 => Below(newsz) = {}
            BY PageUps DEF Below
        <3>2. j.value = -1 => DOMAIN j.space.ptes = {}
            BY <1>1, <2>4, <2>7, <3>1
        <3> QED
            BY <1>1, <2>4, <2>7, <3>2 DEF Sized
    <2>10. ASSUME NEW f \in Frame
           PROVE  InHand(j, f) = IF j.op = "sbrk" THEN InSpace(pgdir[p], f) ELSE 0
        <3>1. InSpace(space, f) = InSpace(keep, f) + InSpace(drop, f)
            BY <2>5
        <3>2. InSpace(keep, f) \in Nat /\ InSpace(drop, f) \in Nat
            BY <2>4, InSpaceNat
        <3>3. Hits(NoFrame, f) = 0
            BY Nothing
        <3> QED
            BY <2>7, <3>1, <3>2, <3>3 DEF InHand
    <2> QED
        BY <1>4, <1>9, <2>6, <2>7, <2>8, <2>9, <2>10, EnterStep DEF j
<1> QED
    BY <1>6, <1>7, <1>8, <1>9 DEF Sbrk

\* growproc() ends.
LEMMA ResizedKeeps == ASSUME Sane, Frames, NEW p \in Slot, Resized(p) PROVE Frames'
<1> DEFINE j == job[p]
<1>1. /\ j \in Job /\ Calling(p) /\ j.op = "sbrk" /\ j.at = "resized" /\ Freed(j)
      /\ proc[p] \in Process /\ j.space \in Space
    BY DEF Frames, Types, Resized, At, Job
<1>2. /\ proc[p].state = "user" /\ j.kstack = NoFrame /\ j.mem = NoFrame
      /\ DOMAIN j.space.ptes \in IF j.value = -1 THEN {{}, Below(proc[p].sz)} ELSE {Below(j.limit)}
    BY <1>1 DEF Calling, Shape, Sized
<1>3. /\ pgdir' = [pgdir EXCEPT ![p] = j.space] /\ job' = [job EXCEPT ![p] = Idle]
      /\ UNCHANGED <<freelist, data, panicked>>
    BY DEF Resized, Finish, NothingFreed
<1>4. PICK g \in Int :
        proc' = [proc EXCEPT ![p] = [proc[p] EXCEPT
                   !.ret = j.value, !.sz = IF j.value = -1 THEN proc[p].sz ELSE j.limit,
                   !.guard = g]]
    <2> DEFINE g == IF proc[p].guard \in DOMAIN j.space.ptes THEN proc[p].guard ELSE NoGuard
    <2>1. g \in Int
        BY <1>1 DEF Process, NoGuard
    <2>2. proc \in [Slot -> Process]
        BY DEF Frames, Types
    <2>3. proc' = [proc EXCEPT ![p].ret = j.value,
                               ![p].sz = IF j.value = -1 THEN @ ELSE j.limit,
                               ![p].guard = IF @ \in DOMAIN j.space.ptes THEN @ ELSE NoGuard]
        BY DEF Resized
    <2>4. proc' = [proc EXCEPT ![p] = [proc[p] EXCEPT
                     !.ret = j.value, !.sz = IF j.value = -1 THEN proc[p].sz ELSE j.limit,
                     !.guard = g]]
        BY <1>1, <2>2, <2>3 DEF Process
    <2> QED
        BY <2>1, <2>4
<1>5. /\ proc'[p].state = "user" /\ proc'[p].kstack = proc[p].kstack /\ proc'[p] \in Process
      /\ proc'[p].sz = IF j.value = -1 THEN proc[p].sz ELSE j.limit
      /\ \A q \in Slot \ {p} : proc'[q] = proc[q]
    <2>1. proc \in [Slot -> Process] /\ j.value \in Value
        BY <1>1 DEF Frames, Types, Job, Sane
    <2>2. proc[p].sz \in Nat /\ j.limit \in Nat
        BY <1>1 DEF Process, Job
    <2>3. proc'[p] = [proc[p] EXCEPT
                        !.ret = j.value, !.sz = IF j.value = -1 THEN proc[p].sz ELSE j.limit,
                        !.guard = g]
        BY <1>4, <2>1
    <2> HIDE DEF j
    <2> QED
        BY <1>1, <1>2, <1>4, <2>1, <2>2, <2>3 DEF Process
<1>6. Types'
    <2>1. job' \in [Slot -> Job] /\ pgdir' \in [Slot -> Space]
        BY <1>1, <1>3, IdleHand DEF Frames, Types
    <2>2. proc' \in [Slot -> Process]
        BY <1>4, <1>5 DEF Frames, Types
    <2>3. shadow' \in [Slot -> Map(Value)]
        <3> DEFINE D == DOMAIN j.space.ptes
                   s == [i \in D |-> IF i \in DOMAIN shadow[p] THEN shadow[p][i] ELSE "zero"]
        <3>1. shadow' = [shadow EXCEPT ![p] = s] /\ shadow \in [Slot -> Map(Value)]
            BY DEF Resized, Frames, Types
        <3>2. shadow[p] \in [DOMAIN shadow[p] -> Value] /\ "zero" \in Value
            BY <3>1, Maps DEF Sane
        <3>3. D \in SUBSET Nat /\ IsFiniteSet(D)
            BY <1>1, Maps DEF Space
        <3> HIDE DEF D, j
        <3>4. s \in [D -> Value]
            BY <3>2
        <3>5. s \in Map(Value)
            BY <3>3, <3>4, Maps
        <3> HIDE DEF s
        <3> QED
            BY <3>1, <3>5
    <2> QED
        BY <1>3, <2>1, <2>2, <2>3 DEF Frames, Types
<1>7. job'[p] = Idle /\ pgdir'[p] = j.space
      /\ \A q \in Slot \ {p} : job'[q] = job[q] /\ pgdir'[q] = pgdir[q]
    BY <1>3 DEF Frames, Types
<1>8. Calling(p)'
    BY <1>2, <1>5, <1>7, IdleCalls
<1>9. ASSUME NEW f \in Frame PROVE Holds(p, f)' = Holds(p, f)
    <2>1. InHand(j, f) = InSpace(j.space, f)
        <3>1. InSpace(j.space, f) \in Nat /\ InSpace(NoSpace, f) = 0 /\ Hits(NoFrame, f) = 0
            BY <1>1, InSpaceNat, Nothing
        <3> QED
            BY <1>1, <1>2, <3>1 DEF InHand, Freed
    <2>2. InHand(Idle, f) = 0 /\ Idle.op = "none"
        BY IdleHand
    <2>3. InSpace(j.space, f) \in Nat /\ Hits(proc[p].kstack, f) \in Nat
        BY <1>1, InSpaceNat DEF Hits
    <2> QED
        BY <1>1, <1>5, <1>7, <2>1, <2>2, <2>3 DEF Holds
<1>10. panicked' = FALSE /\ job'[p].op \notin {"fork", "wait"}
    BY <1>3, <1>7, IdleHand DEF Frames, NoMemPanic
<1> QED
    BY <1>2, <1>3, <1>5, <1>6, <1>7, <1>8, <1>9, <1>10, OwnStep

\* exec() begins.
LEMMA ExecKeeps ==
    ASSUME Sane, Frames, NEW p \in Slot, InUser(p), NEW args \in Int, Exec(p, args) PROVE Frames'
<1> DEFINE j == [Idle EXCEPT !.op = "exec", !.at = "dir", !.limit = ImageSize, !.value = args]
<1>1. Enter(p, j) /\ UNCHANGED <<freelist, data, proc, pgdir, shadow, panicked>>
    BY DEF Exec, NothingFreed
<1>2. ImageSize \in Nat
    <2>1. ImagePages \in Nat
        BY DEF Sane, ImagePages
    <2> QED
        BY <2>1, PageUps DEF ImageSize
<1>3. j \in Job
    BY <1>2, IdleHand DEF Job
<1>4. /\ j.op = "exec" /\ j.at = "dir" /\ j.space = NoSpace /\ j.mem = NoFrame /\ j.page = 0
      /\ j.limit = ImageSize /\ j.first = NoFrame /\ j.old = NoSpace
      /\ j.last = NoFrame /\ j.child = NoSlot /\ j.kstack = NoFrame
    BY DEF Idle
<1> HIDE DEF j
<1>5. Shape(j)
    BY <1>4 DEF Shape, Freed
<1>6. Built(j)
    BY <1>4, Nothing, EmptyMap, KernelHasTables DEF Built
<1>7. Sized(j, proc[p], pgdir[p])
    BY <1>4, Running DEF Sized
<1>8. \A f \in Frame : InHand(j, f) = IF j.op = "sbrk" THEN InSpace(pgdir[p], f) ELSE 0
    BY <1>4, Nothing DEF InHand
<1> QED
    BY <1>1, <1>3, <1>4, <1>5, <1>6, <1>7, <1>8, EnterStep

\* The new image is loaded, and takes the place of the old one.
LEMMA LoadedKeeps == ASSUME Sane, Frames, NEW p \in Slot, Loaded(p) PROVE Frames'
<1> DEFINE j == job[p]
<1>1. /\ j \in Job /\ Calling(p) /\ j.op = "exec" /\ j.at = "mem" /\ Freed(j) /\ ~More(p)
      /\ proc[p] \in Process /\ j.space \in Space /\ pgdir[p] \in Space
    BY DEF Frames, Types, Loaded, At, Job
<1>2. /\ proc[p].state = "user" /\ j.kstack = NoFrame /\ j.mem = NoFrame /\ j.limit = ImageSize
      /\ j.page \in Nat /\ j.limit \in Nat /\ DOMAIN j.space.ptes = 0..(j.page - 1)
      /\ j.page <= PageUp(j.limit)
    BY <1>1 DEF Calling, Shape, Built, Sized, Job
<1>3. UNCHANGED <<freelist, data, panicked>> /\ panicked' = FALSE
    BY DEF Loaded, NothingFreed, Frames, NoMemPanic
<1>4. CASE Enter(p, Bad(j)) /\ UNCHANGED <<proc, pgdir, shadow>>
    <2>1. Onward(p, Bad(j)) /\ \A f \in Frame : InHand(Bad(j), f) = InHand(j, f)
        BY <1>1, BadHolds, BadGoesOn
    <2>2. freelist' \in Seq(Frame) /\ data' \in [Frame -> Value]
        BY <1>3 DEF Frames, Types
    <2>3. \A f \in Frame :
            Uses(freelist', f) + InHand(Bad(j), f) = Uses(freelist, f) + InHand(j, f)
        BY <1>3, <2>1
    <2>4. job' = [job EXCEPT ![p] = Bad(j)] /\ UNCHANGED <<proc, pgdir, shadow, panicked>>
        BY <1>3, <1>4 DEF Enter
    <2> QED
        BY <2>1, <2>2, <2>3, <2>4, JobStep DEF Onward
<1>5. CASE /\ pgdir' = [pgdir EXCEPT ![p] = j.space]
           /\ proc' = [proc EXCEPT ![p].sz = j.limit, ![p].guard = Len(Image)]
           /\ shadow' = [shadow EXCEPT ![p] = ImageData]
           /\ Enter(p, [Idle EXCEPT !.op = "exec", !.at = "done", !.old = pgdir[p]])
    <2> DEFINE k == [Idle EXCEPT !.op = "exec", !.at = "done", !.old = pgdir[p]]
    <2>1. k \in Job
        BY <1>1, IdleHand DEF Job
    <2>2. /\ k.op = "exec" /\ k.at = "done" /\ k.space = NoSpace /\ k.mem = NoFrame
          /\ k.first = NoFrame /\ k.old = pgdir[p] /\ k.last = NoFrame /\ k.child = NoSlot
          /\ k.kstack = NoFrame
        BY DEF Idle
    <2>3. job' = [job EXCEPT ![p] = k]
        BY <1>5 DEF Enter
    <2> HIDE DEF k
    <2>4. /\ proc'[p].state = "user" /\ proc'[p].kstack = proc[p].kstack /\ proc'[p] \in Process
          /\ proc'[p].sz = j.limit /\ \A q \in Slot \ {p} : proc'[q] = proc[q]
        <3>1. Len(Image) \in Int /\ j.limit \in Nat /\ proc \in [Slot -> Process]
            BY <1>2 DEF Sane, Frames, Types
        <3> HIDE DEF j
        <3> QED
            BY <1>1, <1>2, <1>5, <3>1 DEF Process
    <2>5. /\ job'[p] = k /\ pgdir'[p] = j.space
          /\ \A q \in Slot \ {p} : job'[q] = job[q] /\ pgdir'[q] = pgdir[q]
        BY <1>5, <2>3 DEF Frames, Types
    <2>6. Types'
        <3>1. job' \in [Slot -> Job] /\ pgdir' \in [Slot -> Space]
            BY <1>1, <1>5, <2>1, <2>3 DEF Frames, Types
        <3>2. proc' \in [Slot -> Process]
            BY <1>5, <2>4 DEF Frames, Types
        <3>3. ImageData \in Map(Value)
            <4>1. ImagePages \in Nat /\ Len(Image) \in Nat /\ "zero" \in Value
                  /\ \A i \in 1..Len(Image) : Image[i] \in Value
                BY DEF Sane, ImagePages
            <4>2. ImageData \in [0..(ImagePages - 1) -> Value]
                BY <4>1 DEF ImageData
            <4>3. IsFiniteSet(0..(ImagePages - 1)) /\ 0..(ImagePages - 1) \in SUBSET Nat
                BY <4>1, FS_Interval
            <4> QED
                BY <4>2, <4>3, Maps
        <3>4. shadow' \in [Slot -> Map(Value)]
            BY <1>5, <3>3 DEF Frames, Types
        <3> QED
            BY <1>3, <3>1, <3>2, <3>4 DEF Frames, Types
    <2>7. Calling(p)'
        <3>1. Shape(k) /\ Built(k)
            BY <2>2 DEF Shape, Built
        <3>2. DOMAIN j.space.ptes = Below(j.limit)
            <4>1. PageUp(j.limit) \in Nat /\ ~(j.page < PageUp(j.limit))
                BY <1>1, <1>2, PagesBelow DEF More
            <4>2. j.page = PageUp(j.limit)
                BY <1>2, <4>1
            <4> QED
                BY <1>2, <4>2 DEF Below
        <3>3. Sized(k, proc'[p], pgdir'[p])
            BY <2>2, <2>4, <2>5, <3>2 DEF Sized
        <3> QED
            BY <2>2, <2>4, <2>5, <3>1, <3>3 DEF Calling
    <2>8. ASSUME NEW f \in Frame PROVE Holds(p, f)' = Holds(p, f)
        <3>1. InSpace(j.space, f) \in Nat /\ InSpace(pgdir[p], f) \in Nat
              /\ InSpace(NoSpace, f) = 0 /\ Hits(NoFrame, f) = 0 /\ Hits(proc[p].kstack, f) \in Nat
            BY <1>1, InSpaceNat, Nothing DEF Hits
        <3>2. InHand(j, f) = InSpace(j.space, f)
            BY <1>1, <1>2, <3>1 DEF InHand, Freed
        <3>3. InHand(k, f) = InSpace(pgdir[p], f)
            BY <2>2, <3>1 DEF InHand
        <3> QED
            BY <1>1, <2>2, <2>4, <2>5, <3>1, <3>2, <3>3 DEF Holds
    <2>9. \A q \in Slot \ {p} : proc'[q] = proc[q] /\ job'[q] = job[q] /\ pgdir'[q] = pgdir[q]
        BY <2>4, <2>5
    <2>10. job'[p].op \notin {"fork", "wait"}
        BY <2>2, <2>5
    <2> QED
        BY <1>2, <1>3, <2>4, <2>6, <2>7, <2>8, <2>9, <2>10, OwnStep
<1> QED
    BY <1>4, <1>5, Zenon DEF Loaded
-----------------------------------------------------------------------------
(* fork() and wait() *)

\* A process takes a free slot.
LEMMA ForkKeeps ==
    ASSUME Sane, Frames, NEW p \in Slot, InUser(p), CanRun(p), Fork(p) PROVE Frames'
<1> DEFINE free == {q \in Slot : proc[q].state = "UNUSED"}
           c == Min(free)
           j == [Idle EXCEPT !.op = "fork", !.at = "kstack", !.child = c, !.limit = proc[p].sz]
<1>1. /\ job[p] = Idle /\ proc[p].state = "user" /\ proc[p].sz \in Nat
      /\ DOMAIN pgdir[p].ptes = Below(proc[p].sz)
    BY Running DEF Process
<1>2. UNCHANGED <<freelist, data, pgdir, shadow, panicked>> /\ panicked' = FALSE
    BY DEF Fork, NothingFreed, Frames, NoMemPanic
<1>3. CASE free = {} /\ proc' = Return(p, -1) /\ UNCHANGED job
    <2>1. -1 \in Value /\ data' \in [Frame -> Value] /\ shadow' \in [Slot -> Map(Value)]
        BY <1>2 DEF Sane, Frames, Types
    <2> QED
        BY <1>2, <1>3, <2>1, ReturnStep
<1>4. CASE free # {} /\ proc' = [proc EXCEPT ![c].state = "EMBRYO"] /\ Enter(p, j)
    <2>1. c \in Slot /\ proc[c].state = "UNUSED" /\ c # p /\ c \in Owner
        <3>1. free \in SUBSET Nat
            BY DEF Sane
        <3> HIDE DEF free
        <3>2. c \in free
            BY <1>4, <3>1, Least
        <3> QED
            BY <1>1, <3>2 DEF free, Owner
    <2> HIDE DEF c, free
    <2>2. proc[c].kstack = NoFrame /\ pgdir[c] = NoSpace /\ job[c] = Idle
        BY <2>1 DEF Frames, Slots, Calling, Shape
    <2>3. j \in Job
        BY <1>1, <2>1, IdleHand DEF Job
    <2>4. /\ j.op = "fork" /\ j.at = "kstack" /\ j.space = NoSpace /\ j.mem = NoFrame
          /\ j.page = 0 /\ j.limit = proc[p].sz /\ j.first = NoFrame /\ j.old = NoSpace
          /\ j.last = NoFrame /\ j.child = c /\ j.kstack = NoFrame
        BY DEF Idle
    <2>5. job' = [job EXCEPT ![p] = j]
        BY <1>4 DEF Enter
    <2> HIDE DEF j
    <2>6. job'[p] = j /\ (\A q \in Slot \ {p} : job'[q] = job[q]) /\ job' \in [Slot -> Job]
        BY <2>3, <2>5 DEF Frames, Types
    <2>7. /\ proc' \in [Slot -> Process] /\ proc'[c].state = "EMBRYO"
          /\ \A q \in Slot : proc'[q].kstack = proc[q].kstack /\ proc'[q].sz = proc[q].sz
          /\ \A q \in Slot \ {c} : proc'[q] = proc[q]
        <3>1. proc \in [Slot -> Process]
            BY DEF Frames, Types
        <3> QED
            BY <1>4, <2>1, <3>1 DEF Process
    <2>8. Types'
        BY <1>2, <2>6, <2>7 DEF Frames, Types
    <2>9. ASSUME NEW q \in Slot PROVE Calling(q)'
        <3>1. Calling(q)
            BY DEF Frames
        <3>2. CASE q = p
            <4>1. Shape(j) /\ Built(j)
                BY <2>1, <2>4 DEF Shape, Freed, Built
            <4>2. Sized(j, proc'[p], pgdir'[p])
                BY <1>1, <1>2, <2>1, <2>4, <2>7 DEF Sized
            <4> QED
                BY <1>1, <2>1, <2>4, <2>6, <2>7, <3>2, <4>1, <4>2 DEF Calling
        <3>3. CASE q = c
            BY <2>1, <2>2, <2>6, <2>7, <3>3, IdleCalls
        <3>4. CASE q \notin {p, c}
            <4> DEFINE d == job[q].child
            <4>1. job[q].op \in {"fork", "wait"} => d \in Slot /\ d # c
                BY <2>1, <3>1 DEF Calling, Shape
            <4>2. job[q].op \in {"fork", "wait"} =>
                    /\ proc'[d].state = proc[d].state /\ proc'[d].kstack = proc[d].kstack
                    /\ pgdir'[d] = pgdir[d]
                BY <1>2, <2>7, <4>1
            <4> HIDE DEF d
            <4> QED
                BY <1>2, <2>6, <2>7, <3>1, <3>4, <4>2, OthersCall DEF d
        <3> QED
            BY <3>2, <3>3, <3>4
    <2>10. Slots'
        <3>1. ASSUME NEW q \in Slot, proc'[q].state \in {"UNUSED", "EMBRYO"}
              PROVE  proc'[q].kstack = NoFrame /\ pgdir'[q] = NoSpace
            BY <1>2, <2>2, <2>7, <3>1 DEF Frames, Slots
        <3>2. \A q \in Slot : job[q].op = "fork" => job[q].child # c
            BY <2>1 DEF Frames, Calling
        <3>3. \A q, r \in Slot : q # r =>
                /\ job'[q].op = "fork" /\ job'[r].op = "fork" => job'[q].child # job'[r].child
                /\ job'[q].op = "wait" => job'[r].op # "wait"
            <4> TAKE q, r \in Slot
            <4>1. q # r => /\ job[q].op = "fork" /\ job[r].op = "fork" =>
                                job[q].child # job[r].child
                           /\ job[q].op = "wait" => job[r].op # "wait"
                BY DEF Frames, Slots
            <4> QED
                BY <2>4, <2>6, <3>2, <4>1
        <3> QED
            BY <3>1, <3>3 DEF Slots
    <2>11. EveryFrameOnce'
        <3>1. ASSUME NEW f \in Frame PROVE Holds(p, f)' = Holds(p, f)
            <4>1. InHand(Idle, f) = 0 /\ InHand(j, f) = 0
                BY <2>4, IdleHand, Nothing DEF InHand
            <4> QED
                BY <1>1, <1>2, <2>4, <2>6, <2>7, <4>1, IdleHand DEF Holds
        <3>2. \A q \in Slot \ {p} : proc'[q].kstack = proc[q].kstack /\ job'[q] = job[q]
                                    /\ pgdir'[q] = pgdir[q]
            BY <1>2, <2>6, <2>7
        <3>3. (Slot \ {p}) \cup {p} = Slot
            OBVIOUS
        <3>4. \A q \in {p} : \A f \in Frame : Holds(q, f)' = Holds(q, f)
            BY <3>1
        <3> QED
            BY <1>2, <3>2, <3>3, <3>4, OnlyOf DEF Frames
    <2> QED
        BY <1>2, <2>8, <2>9, <2>10, <2>11 DEF Frames, NoMemPanic
<1> QED
    BY <1>3, <1>4 DEF Fork

\* Two processes, one of which is the other's child, exchange frames.
LEMMA BothStep ==
    ASSUME Sane, Frames, NEW p \in Slot, NEW c \in Slot, p # c, Types', freelist' = freelist,
           panicked' = FALSE,
           \A q \in Slot \ {p, c} : proc'[q] = proc[q] /\ job'[q] = job[q] /\ pgdir'[q] = pgdir[q],
           \A q \in Slot \ {p, c} : job[q].op \in {"fork", "wait"} => job[q].child \notin {p, c},
           Calling(p)', Calling(c)', Slots',
           \A f \in Frame : Holds(p, f)' + Holds(c, f)' = Holds(p, f) + Holds(c, f)
    PROVE  Frames'
<1>1. ASSUME NEW q \in Slot PROVE Calling(q)'
    <2>1. Calling(q)
        BY DEF Frames
    <2>2. CASE q \notin {p, c}
        <3> DEFINE d == job[q].child
        <3>1. job[q].op \in {"fork", "wait"} => d \in Slot /\ d \notin {p, c}
            BY <2>1, <2>2 DEF Calling, Shape
        <3>2. job[q].op \in {"fork", "wait"} =>
                /\ proc'[d].state = proc[d].state /\ proc'[d].kstack = proc[d].kstack
                /\ pgdir'[d] = pgdir[d]
            BY <3>1
        <3> HIDE DEF d
        <3> QED
            BY <2>1, <2>2, <3>2, OthersCall DEF d
    <2>3. CASE q \in {p, c}
        BY <2>3
    <2> QED
        BY <2>2, <2>3
<1>2. EveryFrameOnce'
    <2>1. p \in Owner /\ c \in Owner /\ p # NoSlot /\ c # NoSlot
        BY DEF Sane, Owner, NoSlot
    <2>2. ASSUME NEW f \in Frame PROVE Has(p, f)' + Has(c, f)' = Has(p, f) + Has(c, f)
        BY <2>1 DEF Has
    <2>3. ASSUME NEW f \in Frame, NEW o \in Owner \ {p, c} PROVE Has(o, f)' = Has(o, f)
        BY DEF Has, Holds, Owner
    <2> QED
        BY <2>1, <2>2, <2>3, Moves DEF Frames
<1> QED
    BY <1>1, <1>2 DEF Frames, NoMemPanic

\* The child has a copy of everything.
LEMMA ForkedKeeps == ASSUME Sane, Frames, NEW p \in Slot, Forked(p) PROVE Frames'
<1>0. PICK c : c = job[p].child
    OBVIOUS
<1> DEFINE j == job[p]
           entry == [Unused EXCEPT !.state = "user", !.parent = p, !.sz = j.limit,
                                   !.kstack = j.kstack, !.guard = proc[p].guard]
<1>1. /\ j \in Job /\ Calling(p) /\ j.op = "fork" /\ j.at = "mem" /\ Freed(j) /\ ~More(p)
      /\ proc[p] \in Process /\ j.space \in Space /\ pgdir[p] \in Space
    BY DEF Frames, Types, Forked, At, Job
<1>2. /\ proc[p].state = "user" /\ j.mem = NoFrame /\ j.limit = proc[p].sz /\ j.limit \in Nat
      /\ j.page \in Nat /\ DOMAIN j.space.ptes = 0..(j.page - 1) /\ j.page <= PageUp(j.limit)
      /\ DOMAIN pgdir[p].ptes = Below(proc[p].sz)
    BY <1>1 DEF Calling, Shape, Built, Sized, Job
<1>3. /\ c \in Slot /\ c # p /\ proc[c].state = "EMBRYO" /\ proc[c].kstack = NoFrame
      /\ pgdir[c] = NoSpace /\ job[c] = Idle
    BY <1>0, <1>1, <1>2 DEF Calling, Shape, Frames, Slots
<1>4. DOMAIN j.space.ptes = Below(j.limit)
    <2>1. PageUp(j.limit) \in Nat /\ ~(j.page < PageUp(j.limit))
        BY <1>1, <1>2, PagesBelow DEF More
    <2>2. j.page = PageUp(j.limit)
        BY <1>2, <2>1
    <2> QED
        BY <1>2, <2>2 DEF Below
<1>5. /\ proc' = [proc EXCEPT ![p].ret = c, ![c] = entry]
      /\ pgdir' = [pgdir EXCEPT ![c] = j.space] /\ shadow' = [shadow EXCEPT ![c] = shadow[p]]
      /\ job' = [job EXCEPT ![p] = Idle] /\ UNCHANGED <<freelist, data, panicked>>
    BY <1>0 DEF Forked, Finish, NothingFreed
<1>6. /\ entry.state = "user" /\ entry.sz = j.limit /\ entry.kstack = j.kstack
      /\ entry \in Process
    <2>1. p \in Owner /\ proc[p].guard \in Int /\ j.kstack \in MaybeFrame /\ j.limit \in Nat
          /\ OK \in Value
        BY <1>1 DEF Owner, Process, Job, OK, Sane
    <2> HIDE DEF j
    <2> QED
        BY <2>1 DEF Unused, Process
<1> HIDE DEF entry, j
<1>7. /\ proc'[p].state = "user" /\ proc'[p].kstack = proc[p].kstack /\ proc'[p].sz = proc[p].sz
      /\ proc'[c] = entry /\ (\A q \in Slot \ {p, c} : proc'[q] = proc[q])
      /\ proc' \in [Slot -> Process]
    <2>1. c \in Value /\ proc \in [Slot -> Process]
        BY <1>3 DEF Sane, Frames, Types
    <2> QED
        BY <1>2, <1>3, <1>5, <1>6, <2>1 DEF Process
<1>8. /\ job'[p] = Idle /\ job'[c] = Idle /\ pgdir'[p] = pgdir[p] /\ pgdir'[c] = j.space
      /\ \A q \in Slot \ {p} : job'[q] = job[q]
      /\ \A q \in Slot \ {p, c} : pgdir'[q] = pgdir[q]
    BY <1>3, <1>5 DEF Frames, Types
<1>9. Types' /\ panicked' = FALSE
    <2>1. job' \in [Slot -> Job] /\ pgdir' \in [Slot -> Space] /\ shadow' \in [Slot -> Map(Value)]
        BY <1>1, <1>5, IdleHand DEF Frames, Types
    <2> QED
        BY <1>5, <1>7, <2>1 DEF Frames, Types, NoMemPanic
<1>10. Calling(p)' /\ Calling(c)'
    BY <1>2, <1>3, <1>4, <1>6, <1>7, <1>8, IdleCalls
<1>11. Slots'
    <2>1. ASSUME NEW q \in Slot, proc'[q].state \in {"UNUSED", "EMBRYO"}
          PROVE  proc'[q].kstack = NoFrame /\ pgdir'[q] = NoSpace
        <3>1. q \notin {p, c}
            BY <1>6, <1>7, <2>1
        <3> QED
            BY <1>7, <1>8, <2>1, <3>1 DEF Frames, Slots
    <2>2. \A q, r \in Slot : q # r =>
            /\ job'[q].op = "fork" /\ job'[r].op = "fork" => job'[q].child # job'[r].child
            /\ job'[q].op = "wait" => job'[r].op # "wait"
        BY <1>8, IdleHand DEF Frames, Slots
    <2> QED
        BY <2>1, <2>2 DEF Slots
<1>12. ASSUME NEW f \in Frame PROVE Holds(p, f)' + Holds(c, f)' = Holds(p, f) + Holds(c, f)
    <2>1. /\ InSpace(j.space, f) \in Nat /\ InSpace(pgdir[p], f) \in Nat
          /\ InSpace(NoSpace, f) = 0 /\ Hits(NoFrame, f) = 0 /\ InHand(Idle, f) = 0
        BY <1>1, InSpaceNat, Nothing, IdleHand
    <2>2. \A x : Hits(x, f) \in Nat
        BY DEF Hits
    <2>3. InHand(j, f) = Hits(j.kstack, f) + InSpace(j.space, f)
        BY <1>1, <1>2, <2>1, <2>2 DEF InHand, Freed
    <2>4. Holds(p, f) = Hits(proc[p].kstack, f) + (Hits(j.kstack, f) + InSpace(j.space, f))
                          + InSpace(pgdir[p], f)
        BY <1>1, <2>3 DEF Holds, j
    <2>5. Holds(c, f) = 0
        BY <1>3, <2>1, IdleHand DEF Holds
    <2>6. Holds(p, f)' = Hits(proc[p].kstack, f) + InSpace(pgdir[p], f)
        BY <1>7, <1>8, <2>1, <2>2, IdleHand DEF Holds
    <2>7. Holds(c, f)' = Hits(j.kstack, f) + InSpace(j.space, f)
        BY <1>6, <1>7, <1>8, <2>1, <2>2, IdleHand DEF Holds
    <2> QED
        BY <2>1, <2>2, <2>4, <2>5, <2>6, <2>7
<1>13. \A q \in Slot \ {p, c} : job[q].op \in {"fork", "wait"} => job[q].child \notin {p, c}
    <2> SUFFICES ASSUME NEW q \in Slot \ {p, c}, job[q].op \in {"fork", "wait"}
                 PROVE  job[q].child \notin {p, c}
        OBVIOUS
    <2>1. Calling(q)
        BY DEF Frames
    <2>2. job[q].op = "fork" => job[q].child # c
        BY <1>0, <1>1, <1>3 DEF Frames, Slots, j
    <2> QED
        BY <1>2, <1>3, <2>1, <2>2 DEF Calling
<1>14. \A q \in Slot \ {p, c} : proc'[q] = proc[q] /\ job'[q] = job[q] /\ pgdir'[q] = pgdir[q]
    BY <1>7, <1>8
<1> QED
    BY <1>3, <1>5, <1>9, <1>10, <1>11, <1>12, <1>13, <1>14, BothStep

\* A parent takes over what a zombie has.
LEMMA WaitKeeps == ASSUME Sane, Frames, NEW p \in Slot, InUser(p), Wait(p) PROVE Frames'
<1> DEFINE zombies == {q \in Children(p) : proc[q].state = "zombie"}
<1>0. PICK c : c = Min(zombies)
    OBVIOUS
<1> DEFINE j == [Idle EXCEPT !.op = "wait", !.at = "done", !.child = c, !.value = c,
                             !.first = proc[c].kstack, !.old = pgdir[c]]
<1>1. /\ job[p] = Idle /\ proc[p].state = "user" /\ proc[p] \in Process
      /\ DOMAIN pgdir[p].ptes \in {{}, Below(proc[p].sz)}
    BY Running
<1>2. UNCHANGED <<freelist, data, panicked>> /\ panicked' = FALSE
    BY DEF Wait, NothingFreed, Frames, NoMemPanic
<1>3. CASE proc' = Return(p, -1) /\ UNCHANGED <<pgdir, job, shadow>>
    <2>1. -1 \in Value /\ data' \in [Frame -> Value] /\ shadow' \in [Slot -> Map(Value)]
        BY <1>2, <1>3 DEF Sane, Frames, Types
    <2> QED
        BY <1>2, <1>3, <2>1, ReturnStep
<1>4. CASE /\ zombies # {} /\ Enter(p, j) /\ proc' = [proc EXCEPT ![c].kstack = NoFrame]
           /\ pgdir' = [pgdir EXCEPT ![c] = NoSpace] /\ shadow' = [shadow EXCEPT ![c] = Empty]
    <2>1. c \in Slot /\ proc[c].state = "zombie" /\ c # p
        <3>1. zombies \in SUBSET Nat
            BY DEF Sane, Children
        <3> HIDE DEF zombies
        <3>2. c \in zombies
            BY <1>0, <1>4, <3>1, Least
        <3> QED
            BY <1>1, <3>2 DEF zombies, Children
    <2> HIDE DEF zombies
    <2>2. job[c] = Idle /\ proc[c] \in Process /\ pgdir[c] \in Space /\ c \in Owner /\ c \in Int
        BY <2>1 DEF Frames, Calling, Shape, Types, Owner, Sane
    <2>3. j \in Job
        BY <2>2, IdleHand DEF Job, Process
    <2>4. /\ j.op = "wait" /\ j.at = "done" /\ j.space = NoSpace /\ j.mem = NoFrame
          /\ j.first = proc[c].kstack /\ j.old = pgdir[c]
          /\ j.last = NoFrame /\ j.child = c /\ j.kstack = NoFrame
        BY DEF Idle
    <2>5. job' = [job EXCEPT ![p] = j]
        BY <1>4 DEF Enter
    <2> HIDE DEF j
    <2>6. job'[p] = j /\ (\A q \in Slot \ {p} : job'[q] = job[q]) /\ job' \in [Slot -> Job]
        BY <2>3, <2>5 DEF Frames, Types
    <2>7. /\ proc' \in [Slot -> Process] /\ proc'[c].state = "zombie" /\ proc'[c].kstack = NoFrame
          /\ \A q \in Slot \ {c} : proc'[q] = proc[q]
        <3>1. proc \in [Slot -> Process] /\ NoFrame \in MaybeFrame
            BY DEF Frames, Types, MaybeFrame
        <3> QED
            BY <1>4, <2>1, <3>1 DEF Process
    <2>8. pgdir'[c] = NoSpace /\ \A q \in Slot \ {c} : pgdir'[q] = pgdir[q]
        BY <1>4, <2>1 DEF Frames, Types
    <2>9. Types'
        <3>1. pgdir' \in [Slot -> Space] /\ shadow' \in [Slot -> Map(Value)]
            BY <1>4, Nothing, EmptyMap DEF Frames, Types
        <3> QED
            BY <1>2, <2>6, <2>7, <3>1 DEF Frames, Types
    <2>10. Calling(c)'
        BY <2>1, <2>2, <2>6, <2>7, IdleCalls
    <2>11. Calling(p)'
        <3>1. Shape(j) /\ Built(j)
            BY <2>1, <2>4 DEF Shape, Built
        <3>2. Sized(j, proc'[p], pgdir'[p])
            BY <1>1, <2>1, <2>4, <2>7, <2>8 DEF Sized
        <3> QED
            BY <1>1, <2>1, <2>4, <2>6, <2>7, <2>8, <3>1, <3>2 DEF Calling
    <2>12. \A q \in Slot \ {p} : job[q].op # "wait"
        BY DEF Wait, PtableFree
    <2>13. Slots'
        <3>1. ASSUME NEW q \in Slot, proc'[q].state \in {"UNUSED", "EMBRYO"}
              PROVE  proc'[q].kstack = NoFrame /\ pgdir'[q] = NoSpace
            <4>1. q # c
                BY <2>7, <3>1
            <4> QED
                BY <2>7, <2>8, <3>1, <4>1 DEF Frames, Slots
        <3>2. \A q, r \in Slot : q # r =>
                /\ job'[q].op = "fork" /\ job'[r].op = "fork" => job'[q].child # job'[r].child
                /\ job'[q].op = "wait" => job'[r].op # "wait"
            BY <2>4, <2>6, <2>12 DEF Frames, Slots
        <3> QED
            BY <3>1, <3>2 DEF Slots
    <2>14. ASSUME NEW f \in Frame PROVE Holds(p, f)' + Holds(c, f)' = Holds(p, f) + Holds(c, f)
        <3>1. /\ InSpace(pgdir[c], f) \in Nat /\ InSpace(pgdir[p], f) \in Nat
              /\ InSpace(NoSpace, f) = 0 /\ Hits(NoFrame, f) = 0 /\ InHand(Idle, f) = 0
            BY <2>2, InSpaceNat, Nothing, IdleHand DEF Frames, Types
        <3>2. \A x : Hits(x, f) \in Nat
            BY DEF Hits
        <3>3. InHand(j, f) = Hits(proc[c].kstack, f) + InSpace(pgdir[c], f)
            BY <2>4, <3>1, <3>2 DEF InHand
        <3>4. Holds(p, f) = Hits(proc[p].kstack, f) + InSpace(pgdir[p], f)
            BY <1>1, <3>1, <3>2, IdleHand DEF Holds
        <3>5. Holds(c, f) = Hits(proc[c].kstack, f) + InSpace(pgdir[c], f)
            BY <2>2, <3>1, <3>2, IdleHand DEF Holds
        <3>6. Holds(c, f)' = 0
            BY <2>1, <2>2, <2>6, <2>7, <2>8, <3>1, IdleHand DEF Holds
        <3>7. Holds(p, f)' = Hits(proc[p].kstack, f)
                + (Hits(proc[c].kstack, f) + InSpace(pgdir[c], f)) + InSpace(pgdir[p], f)
            BY <2>1, <2>4, <2>6, <2>7, <2>8, <3>3 DEF Holds
        <3> QED
            BY <3>1, <3>2, <3>4, <3>5, <3>6, <3>7
    <2>15. \A q \in Slot \ {p, c} : job[q].op \in {"fork", "wait"} => job[q].child \notin {p, c}
        BY <1>1, <2>1, <2>12 DEF Frames, Calling
    <2>16. \A q \in Slot \ {p, c} : proc'[q] = proc[q] /\ job'[q] = job[q] /\ pgdir'[q] = pgdir[q]
        BY <2>6, <2>7, <2>8
    <2> QED
        BY <1>2, <2>1, <2>9, <2>10, <2>11, <2>13, <2>14, <2>15, <2>16, BothStep
<1> QED
    BY <1>0, <1>3, <1>4 DEF Wait
-----------------------------------------------------------------------------
(* The start *)

\* A frame that has one place.
LEMMA UsesOne ==
    ASSUME NEW fn, NEW x \in DOMAIN fn, NEW f, fn[x] = f, \A y \in DOMAIN fn : fn[y] = f => y = x
    PROVE  Uses(fn, f) = 1
<1>1. {y \in DOMAIN fn : fn[y] = f} = {x}
    OBVIOUS
<1> QED
    BY <1>1, FS_Singleton DEF Uses

\* Frames are taken in order: a directory, a kernel stack, the page tables of the kernel,
\* those of the image, its pages.
LEMMA Layout ==
    ASSUME Sane, NEW K, K = TableOf(PageOf(KERNBASE)), NEW T, T = TableOf(ImagePages - 1)
    PROVE  /\ K \in Nat /\ T \in Nat /\ T < K /\ ImagePages \in Nat /\ ImagePages > 0
           /\ KTables \in Nat /\ KTables > 0 /\ ImageTables = 0..T
           /\ \A t \in KernelTables : t \in Nat /\ K <= t /\ t <= K + KTables - 1
           /\ \A t \in Nat : K <= t /\ t <= K + KTables - 1 => t \in KernelTables
           /\ KernelTables \in SUBSET Nat /\ IsFiniteSet(KernelTables)
<1>1. /\ PGSIZE \in Nat \ {0} /\ PagesPerTable \in Nat \ {0}
      /\ KERNBASE \in Nat /\ KTables \in Nat \ {0}
    BY DEF Sane
<1>2. K \in Nat
    <2>1. PageOf(KERNBASE) \in Nat
        BY <1>1, Divided DEF PageOf
    <2> QED
        BY <1>1, <2>1, Divided DEF TableOf
<1>3. ImagePages \in Nat /\ ImagePages - 1 \in Nat
    BY DEF ImagePages, Sane
<1>4. T \in Nat
    BY <1>1, <1>3, Divided DEF TableOf
<1>5. T < K
    BY DEF Sane
<1>6. ImageTables = 0..T
    BY DEF ImageTables
<1>7. ASSUME NEW t \in KernelTables PROVE t \in Nat /\ K <= t /\ t <= K + KTables - 1
    <2>1. PICK i \in 0..(KTables - 1) : t = K + i
        BY DEF KernelTables
    <2> QED
        BY <1>1, <1>2, <2>1
<1>8. ASSUME NEW t \in Nat, K <= t, t <= K + KTables - 1 PROVE t \in KernelTables
    <2>1. t - K \in 0..(KTables - 1) /\ t = K + (t - K)
        BY <1>1, <1>2, <1>8
    <2> QED
        BY <2>1 DEF KernelTables
<1>9. IsFiniteSet(KernelTables)
    <2>1. KernelTables \subseteq K..(K + KTables - 1)
        BY <1>1, <1>2, <1>7
    <2>2. IsFiniteSet(K..(K + KTables - 1))
        <3>1. K + KTables - 1 \in Int
            BY <1>1, <1>2
        <3> QED
            BY <1>2, <3>1, FS_Interval
    <2> QED
        BY <2>1, <2>2, FS_Subset
<1> QED
    BY <1>1, <1>2, <1>3, <1>4, <1>5, <1>6, <1>7, <1>8, <1>9

\* A map that takes each value from `lo` to `hi` once.
Run(fn, lo, hi) ==
    /\ \A x \in DOMAIN fn : fn[x] \in Nat /\ lo <= fn[x] /\ fn[x] <= hi
    /\ \A x, y \in DOMAIN fn : fn[x] = fn[y] => x = y
    /\ \A g \in Nat : lo <= g /\ g <= hi => \E x \in DOMAIN fn : fn[x] = g

\* A function that numbers frames in a row uses each of them once.
LEMMA UsesRun ==
    ASSUME NEW fn, IsFiniteSet(DOMAIN fn), NEW lo, NEW hi, Run(fn, lo, hi), NEW f \in Nat
    PROVE  Uses(fn, f) = IF lo <= f /\ f <= hi THEN 1 ELSE 0
<1>1. CASE lo <= f /\ f <= hi
    <2>1. PICK x \in DOMAIN fn : fn[x] = f
        BY <1>1 DEF Run
    <2>2. \A y \in DOMAIN fn : fn[y] = f => y = x
        BY <2>1 DEF Run
    <2>3. Uses(fn, f) = 1
        BY <2>1, <2>2, UsesOne
    <2> QED
        BY <1>1, <2>3
<1>2. CASE ~(lo <= f /\ f <= hi)
    <2>1. \A x \in DOMAIN fn : fn[x] # f
        BY <1>2 DEF Run
    <2>2. Uses(fn, f) = 0
        BY <2>1, UsesNat
    <2> QED
        BY <1>2, <2>2
<1> QED
    BY <1>1, <1>2

\* The page tables of the kernel from frame 3 on, then those of the image; and its pages.
TablesFrom3(fn, D, K, T, k) ==
    /\ DOMAIN fn = D /\ D = {t \in Nat : t <= T \/ (K <= t /\ t <= K + k - 1)}
    /\ \A t \in D : fn[t] = IF t <= T THEN 3 + k + t ELSE 3 + t - K
PagesFrom(fn, base, n) == DOMAIN fn = 0..(n - 1) /\ \A i \in 0..(n - 1) : fn[i] = base + 1 + i

\* The page table pages of the first process are frames 3 and on, once each.
LEMMA FirstTables ==
    ASSUME NEW K \in Nat, NEW T \in Nat, T < K, NEW k \in Nat, k > 0, NEW D, IsFiniteSet(D),
           NEW fn, TablesFrom3(fn, D, K, T, k)
    PROVE  /\ \A t \in D : fn[t] \in Nat /\ 3 <= fn[t] /\ fn[t] <= 3 + k + T
           /\ \A f \in Nat : Uses(fn, f) = IF 3 <= f /\ f <= 3 + k + T THEN 1 ELSE 0
<1> USE DEF TablesFrom3
<1>1. \A t \in D : fn[t] \in Nat /\ 3 <= fn[t] /\ fn[t] <= 3 + k + T
    <2> SUFFICES ASSUME NEW t \in D PROVE fn[t] \in Nat /\ 3 <= fn[t] /\ fn[t] <= 3 + k + T
        OBVIOUS
    <2>1. t \in Nat /\ (t <= T \/ (K <= t /\ t <= K + k - 1))
          /\ fn[t] = IF t <= T THEN 3 + k + t ELSE 3 + t - K
        OBVIOUS
    <2> QED
        BY <2>1
<1>2. ASSUME NEW t \in D, NEW u \in D, fn[t] = fn[u] PROVE t = u
    <2>1. /\ t \in Nat /\ (t <= T \/ (K <= t /\ t <= K + k - 1))
          /\ fn[t] = IF t <= T THEN 3 + k + t ELSE 3 + t - K
        OBVIOUS
    <2>2. /\ u \in Nat /\ (u <= T \/ (K <= u /\ u <= K + k - 1))
          /\ fn[u] = IF u <= T THEN 3 + k + u ELSE 3 + u - K
        OBVIOUS
    <2>3. CASE t <= T /\ u <= T
        <3>1. fn[t] = 3 + k + t /\ fn[u] = 3 + k + u
            BY <2>1, <2>2, <2>3
        <3>2. 3 + k + t = 3 + k + u
            BY <1>2, <3>1
        <3> QED
            BY <2>1, <2>2, <3>2
    <2>4. CASE ~(t <= T) /\ ~(u <= T)
        <3>1. fn[t] = 3 + t - K /\ fn[u] = 3 + u - K
            BY <2>1, <2>2, <2>4
        <3>2. 3 + t - K = 3 + u - K
            BY <1>2, <3>1
        <3> QED
            BY <2>1, <2>2, <3>2
    <2>5. CASE (t <= T) # (u <= T)
        <3>1. fn[t] <= 2 + k <=> ~(t <= T)
            BY <2>1
        <3>2. fn[u] <= 2 + k <=> ~(u <= T)
            BY <2>2
        <3> QED
            BY <1>2, <2>5, <3>1, <3>2
    <2> QED
        BY <2>3, <2>4, <2>5
<1>3. ASSUME NEW g \in Nat, 3 <= g, g <= 3 + k + T PROVE \E t \in D : fn[t] = g
    <2>1. CASE g < 3 + k
        <3> DEFINE t == K + g - 3
        <3>1. t \in Nat /\ ~(t <= T) /\ K <= t /\ t <= K + k - 1 /\ 3 + t - K = g
            BY <1>3, <2>1
        <3> HIDE DEF t
        <3>2. t \in D
            BY <3>1
        <3>3. fn[t] = g
            BY <3>1, <3>2
        <3> QED
            BY <3>2, <3>3
    <2>2. CASE g >= 3 + k
        <3> DEFINE t == g - 3 - k
        <3>1. t \in Nat /\ t <= T /\ 3 + k + t = g
            BY <1>3, <2>2
        <3> HIDE DEF t
        <3>2. t \in D
            BY <3>1
        <3>3. fn[t] = g
            BY <3>1, <3>2
        <3> QED
            BY <3>2, <3>3
    <2> QED
        BY <2>1, <2>2
<1>4. ASSUME NEW f \in Nat PROVE Uses(fn, f) = IF 3 <= f /\ f <= 3 + k + T THEN 1 ELSE 0
    <2> DEFINE hi == 3 + k + T
    <2>1. \A g \in Nat : 3 <= g /\ g <= hi => \E t \in DOMAIN fn : fn[t] = g
        BY <1>3
    <2>2. \A t, u \in DOMAIN fn : fn[t] = fn[u] => t = u
        BY <1>2
    <2>3. \A t \in DOMAIN fn : fn[t] \in Nat /\ 3 <= fn[t] /\ fn[t] <= hi
        BY <1>1
    <2>4. IsFiniteSet(DOMAIN fn)
        OBVIOUS
    <2> HIDE DEF hi
    <2>5. Run(fn, 3, hi)
        BY <2>1, <2>2, <2>3 DEF Run
    <2>6. Uses(fn, f) = IF 3 <= f /\ f <= hi THEN 1 ELSE 0
        BY <2>4, <2>5, UsesRun
    <2> QED
        BY <2>6 DEF hi
<1> QED
    BY <1>1, <1>4

\* Consecutive pages in consecutive frames.
LEMMA FirstPages ==
    ASSUME NEW n \in Nat, NEW base \in Nat, NEW fn, PagesFrom(fn, base, n), NEW f \in Nat
    PROVE  Uses(fn, f) = IF base + 1 <= f /\ f <= base + n THEN 1 ELSE 0
<1> DEFINE lo == base + 1
           hi == base + n
<1> USE DEF PagesFrom
<1>1. IsFiniteSet(DOMAIN fn)
    BY FS_Interval
<1>2. \A i \in DOMAIN fn : fn[i] \in Nat /\ lo <= fn[i] /\ fn[i] <= hi
    OBVIOUS
<1>3. \A i, k \in DOMAIN fn : fn[i] = fn[k] => i = k
    OBVIOUS
<1>4. ASSUME NEW g \in Nat, base + 1 <= g, g <= base + n PROVE \E i \in DOMAIN fn : fn[i] = g
    <2>1. g - base - 1 \in 0..(n - 1)
        BY <1>4
    <2>2. fn[g - base - 1] = g
        BY <1>4, <2>1
    <2> QED
        BY <2>1, <2>2
<1>5. \A g \in Nat : lo <= g /\ g <= hi => \E i \in DOMAIN fn : fn[i] = g
    BY <1>4
<1> HIDE DEF lo, hi
<1>6. Run(fn, lo, hi)
    BY <1>2, <1>3, <1>5 DEF Run
<1>7. Uses(fn, f) = IF lo <= f /\ f <= hi THEN 1 ELSE 0
    BY <1>1, <1>6, UsesRun
<1> QED
    BY <1>7 DEF lo, hi

\* The address space and the stack of the first process: frames up to `used`.
LEMMA FirstSpace ==
    ASSUME Sane, Init, NEW used, used = 3 + KTables + TableOf(ImagePages - 1) + ImagePages
    PROVE  /\ used \in Nat /\ used <= NFrames /\ ImageSize \in Nat
           /\ pgdir[First] \in Space /\ DOMAIN pgdir[First].ptes = Below(ImageSize)
           /\ \A f \in Frame :
                Hits(2, f) + InSpace(pgdir[First], f) = IF f <= used THEN 1 ELSE 0
<1> DEFINE space == pgdir[First]
<1>0. PICK K, T, n, k : K = TableOf(PageOf(KERNBASE)) /\ T = TableOf(ImagePages - 1)
                        /\ n = ImagePages /\ k = KTables
    OBVIOUS
<1>1. /\ K \in Nat /\ T \in Nat /\ T < K /\ n \in Nat /\ n > 0 /\ k \in Nat /\ k > 0
      /\ ImageTables = 0..T /\ \A t \in KernelTables : t \in Nat /\ K <= t /\ t <= K + k - 1
    BY <1>0, Layout
<1>2. /\ KernelTables \in SUBSET Nat /\ IsFiniteSet(KernelTables)
      /\ \A t \in Nat : K <= t /\ t <= K + k - 1 => t \in KernelTables
    BY <1>0, Layout
<1>3. PICK base : base = 3 + k + T /\ base \in Nat
    BY <1>1
<1>4. used = base + n /\ used \in Nat /\ used <= NFrames /\ NFrames \in Nat
    <2>1. used = 3 + k + T + n
        BY <1>0
    <2>2. used <= NFrames /\ NFrames \in Nat
        BY DEF Sane
    <2> QED
        BY <1>1, <1>3, <2>1, <2>2
<1>5. /\ space.dir = 1
      /\ space.tables = [t \in KernelTables \cup 0..T |->
                            IF t \in 0..T THEN 2 + k + 1 + t ELSE 3 + t - K]
      /\ space.ptes = [i \in 0..(n - 1) |->
                         [frame |-> (2 + k) + T + 1 + 1 + i, user |-> i # Len(Image)]]
      /\ space = [dir |-> space.dir, tables |-> space.tables, ptes |-> space.ptes]
    BY <1>0, <1>1 DEF Init, Sane
<1> DEFINE D == {t \in Nat : t <= T \/ (K <= t /\ t <= K + k - 1)}
<1>6. KernelTables \cup 0..T = D
    <2>1. ASSUME NEW t PROVE t \in KernelTables \cup 0..T <=> t \in D
        <3>1. t \in 0..T <=> t \in Nat /\ t <= T
            BY <1>1
        <3>2. t \in KernelTables <=> t \in Nat /\ K <= t /\ t <= K + k - 1
            BY <1>1, <1>2
        <3> QED
            BY <3>1, <3>2
    <2> QED
        BY <2>1, Zenon
<1>7. IsFiniteSet(D) /\ D \in SUBSET Nat
    <2>1. IsFiniteSet(0..T)
        BY <1>1, FS_Interval
    <2>2. IsFiniteSet(KernelTables \cup 0..T)
        BY <1>2, <2>1, FS_Union
    <2> QED
        BY <1>6, <2>2
<1>8. /\ DOMAIN space.tables = D
      /\ \A t \in D : space.tables[t] = IF t <= T THEN 3 + k + t ELSE 3 + t - K
    <2>1. space.tables = [t \in D |-> IF t \in 0..T THEN 2 + k + 1 + t ELSE 3 + t - K]
        BY <1>5, <1>6
    <2>2. ASSUME NEW t \in D PROVE space.tables[t] = IF t <= T THEN 3 + k + t ELSE 3 + t - K
        <3>1. t \in Nat /\ space.tables[t] = IF t \in 0..T THEN 2 + k + 1 + t ELSE 3 + t - K
            BY <2>1
        <3>2. 2 + k + 1 + t = 3 + k + t /\ (t \in 0..T <=> t <= T)
            BY <1>1, <3>1
        <3> QED
            BY <3>1, <3>2
    <2> QED
        BY <2>1, <2>2
<1>9. /\ \A t \in D : space.tables[t] \in Nat /\ 3 <= space.tables[t] /\ space.tables[t] <= base
      /\ \A f \in Nat : Uses(space.tables, f) = IF 3 <= f /\ f <= base THEN 1 ELSE 0
    <2>1. TablesFrom3(space.tables, D, K, T, k)
        BY <1>8 DEF TablesFrom3
    <2> HIDE DEF D
    <2>2. /\ \A t \in D : /\ space.tables[t] \in Nat /\ 3 <= space.tables[t]
                          /\ space.tables[t] <= 3 + k + T
          /\ \A f \in Nat : Uses(space.tables, f) = IF 3 <= f /\ f <= 3 + k + T THEN 1 ELSE 0
        BY <1>1, <1>7, <2>1, FirstTables
    <2> QED
        BY <1>3, <2>2
<1>10. space.tables \in Map(Frame)
    <2>1. ASSUME NEW t \in D PROVE space.tables[t] \in Frame
        <3>1. space.tables[t] \in Nat /\ 3 <= space.tables[t] /\ space.tables[t] <= base
            BY <1>9
        <3> QED
            BY <1>1, <1>3, <1>4, <3>1 DEF Frame
    <2>2. space.tables \in [D -> Frame]
        BY <1>5, <1>6, <2>1
    <2> QED
        BY <1>7, <1>8, <2>2, Maps
<1> HIDE DEF D
<1>11. DOMAIN space.ptes = 0..(n - 1)
       /\ \A i \in 0..(n - 1) : space.ptes[i].frame = base + 1 + i /\ space.ptes[i] \in Pte
    <2>1. ASSUME NEW i \in 0..(n - 1)
          PROVE  space.ptes[i].frame = base + 1 + i /\ space.ptes[i] \in Pte
        <3>1. (2 + k) + T + 1 + 1 + i = base + 1 + i /\ base + 1 + i \in Frame
            BY <1>1, <1>3, <1>4 DEF Frame
        <3>2. space.ptes[i] = [frame |-> base + 1 + i, user |-> i # Len(Image)]
            BY <1>5, <3>1
        <3> QED
            BY <3>1, <3>2 DEF Pte
    <2> QED
        BY <1>5, <2>1
<1>12. space.ptes \in Map(Pte)
    <2>1. IsFiniteSet(0..(n - 1)) /\ 0..(n - 1) \in SUBSET Nat
        BY <1>1, FS_Interval
    <2>2. space.ptes \in [0..(n - 1) -> Pte]
        BY <1>5, <1>11
    <2> QED
        BY <1>11, <2>1, <2>2, Maps
<1>13. space \in Space
    <2>1. space.dir \in MaybeFrame
        BY <1>1, <1>3, <1>4, <1>5 DEF MaybeFrame, Frame
    <2> QED
        BY <1>5, <1>10, <1>12, <2>1 DEF Space
<1>14. ImageSize \in Nat /\ Below(ImageSize) = 0..(n - 1)
    BY <1>0, <1>1, PageUps DEF ImageSize, Below
<1>15. ASSUME NEW f \in Frame PROVE Hits(2, f) + InSpace(space, f) = IF f <= used THEN 1 ELSE 0
    <2>1. f \in Nat /\ f >= 1
        BY <1>4 DEF Frame
    <2>2. Uses(space.tables, f) = IF 3 <= f /\ f <= base THEN 1 ELSE 0
        BY <1>9, <2>1
    <2>3. Uses(FramesOf(space.ptes), f) = IF base + 1 <= f /\ f <= base + n THEN 1 ELSE 0
        <3>1. PagesFrom(FramesOf(space.ptes), base, n)
            BY <1>11 DEF FramesOf, PagesFrom
        <3> QED
            BY <1>1, <1>3, <2>1, <3>1, FirstPages
    <2>4. Hits(2, f) = (IF f = 2 THEN 1 ELSE 0) /\ Hits(space.dir, f) = IF f = 1 THEN 1 ELSE 0
        BY <1>5 DEF Hits
    <2>5. InSpace(space, f)
            = Hits(space.dir, f) + Uses(space.tables, f) + Uses(FramesOf(space.ptes), f)
        BY DEF InSpace
    <2> HIDE DEF space
    <2>6. PICK u, v, x, y : u = Hits(2, f) /\ v = Hits(space.dir, f) /\ x = Uses(space.tables, f)
                            /\ y = Uses(FramesOf(space.ptes), f)
        OBVIOUS
    <2>7. u + (v + x + y) = IF f <= base + n THEN 1 ELSE 0
        BY <1>1, <1>3, <2>1, <2>2, <2>3, <2>4, <2>6
    <2> QED
        BY <1>4, <2>5, <2>6, <2>7
<1> QED
    BY <1>4, <1>11, <1>13, <1>14, <1>15

\* The rest is free.
LEMMA FirstList ==
    ASSUME NEW N \in Nat, NEW used \in Nat, used <= N, N = NFrames, NEW list,
           list = [i \in 1..(N - used) |-> used + i]
    PROVE  /\ list \in Seq(Frame)
           /\ \A f \in Frame : Uses(list, f) = IF f <= used THEN 0 ELSE 1
<1>1. N - used \in Nat /\ DOMAIN list = 1..(N - used) /\ IsFiniteSet(DOMAIN list)
    BY FS_Interval
<1>2. \A i \in 1..(N - used) : list[i] = used + i /\ list[i] \in Nat /\ list[i] <= N /\ list[i] >= 1
    OBVIOUS
<1>3. list \in Seq(Frame)
    <2>1. \A i \in 1..(N - used) : used + i \in Frame
        BY <1>2 DEF Frame
    <2> QED
        BY <1>1, <2>1
<1>4. ASSUME NEW f \in Frame PROVE Uses(list, f) = IF f <= used THEN 0 ELSE 1
    <2>1. f \in Nat /\ f <= N
        BY DEF Frame
    <2>2. CASE f <= used
        <3>1. \A i \in DOMAIN list : list[i] # f
            BY <1>1, <1>2, <2>1, <2>2
        <3> QED
            BY <1>1, <2>2, <3>1, UsesNat
    <2>3. CASE ~(f <= used)
        <3>1. f - used \in DOMAIN list
            BY <1>1, <2>1, <2>3
        <3>2. list[f - used] = f
            BY <1>2, <2>1, <2>3, <3>1
        <3>3. \A i \in DOMAIN list : list[i] = f => i = f - used
            BY <1>1, <1>2, <2>1
        <3>4. PICK x : x = f - used
            OBVIOUS
        <3>5. Uses(list, f) = 1
            BY <3>1, <3>2, <3>3, <3>4, UsesOne
        <3> QED
            BY <2>3, <3>5
    <2> QED
        BY <2>2, <2>3
<1> QED
    BY <1>3, <1>4

\* It starts well.
LEMMA InitKeeps == ASSUME Sane, Init PROVE Frames
<1>0. PICK used : used = 3 + KTables + TableOf(ImagePages - 1) + ImagePages
    OBVIOUS
<1>1. /\ used \in Nat /\ used <= NFrames /\ NFrames \in Nat /\ ImageSize \in Nat
      /\ pgdir[First] \in Space /\ DOMAIN pgdir[First].ptes = Below(ImageSize)
      /\ \A f \in Frame : Hits(2, f) + InSpace(pgdir[First], f) = IF f <= used THEN 1 ELSE 0
    BY <1>0, FirstSpace DEF Sane
<1>2. freelist \in Seq(Frame) /\ \A f \in Frame : Uses(freelist, f) = IF f <= used THEN 0 ELSE 1
    <2>1. PICK T, n, k : T = TableOf(ImagePages - 1) /\ n = ImagePages /\ k = KTables
        OBVIOUS
    <2>2. T \in Nat /\ n \in Nat /\ k \in Nat
        BY <2>1, Layout
    <2>3. (2 + k) + T + 1 + n = used
        BY <1>0, <2>1, <2>2
    <2>4. freelist = [i \in 1..(NFrames - used) |-> used + i]
        BY <2>1, <2>3 DEF Init
    <2> QED
        BY <1>1, <2>4, FirstList
<1>3. \A p \in Slot : p # First => pgdir[p] = NoSpace /\ proc[p] = Unused
    BY DEF Init
<1>4. /\ First \in Slot /\ Slot \in SUBSET (Nat \ {0}) /\ \A p \in Slot : job[p] = Idle
      /\ proc[First].state = "user" /\ proc[First].sz = ImageSize /\ proc[First].kstack = 2
    BY DEF Init, Sane, Unused
<1>5. Types
    <2>1. \A p \in Slot : pgdir[p] \in Space /\ job[p] \in Job
        BY <1>1, <1>3, <1>4, Nothing, IdleHand
    <2>2. Unused \in Process
        BY DEF Unused, Process, MaybeFrame, Owner, NoGuard, OK, Sane
    <2>3. Len(Image) \in Int
        BY DEF Sane
    <2>4. 2 \in MaybeFrame
        <3>1. TableOf(ImagePages - 1) \in Nat /\ ImagePages \in Nat /\ KTables \in Nat
            BY Layout
        <3>2. PICK T, n, k : T = TableOf(ImagePages - 1) /\ n = ImagePages /\ k = KTables
            OBVIOUS
        <3>3. 2 <= NFrames
            BY <1>0, <1>1, <3>1, <3>2
        <3> QED
            BY <1>1, <3>3 DEF MaybeFrame, Frame
    <2>5. proc \in [Slot -> Process]
        <3>1. proc = [p \in Slot |-> IF p # First THEN Unused ELSE
                        [Unused EXCEPT !.state = "user", !.sz = ImageSize, !.kstack = 2,
                                       !.guard = Len(Image)]]
            BY DEF Init
        <3>2. [Unused EXCEPT !.state = "user", !.sz = ImageSize, !.kstack = 2,
                             !.guard = Len(Image)] \in Process
            BY <1>1, <2>2, <2>3, <2>4 DEF Process
        <3> QED
            BY <2>2, <3>1, <3>2
    <2>6. ImageData \in [0..(ImagePages - 1) -> Value]
        <3>1. \A i \in 0..(ImagePages - 1) : i < Len(Image) => Image[i + 1] \in Value
            BY DEF Sane, ImagePages
        <3> QED
            BY <3>1 DEF ImageData, Sane
    <2>7. ImageData \in Map(Value) /\ ImagePages \in Nat
        <3>1. ImagePages \in Nat
            BY Layout
        <3>2. IsFiniteSet(0..(ImagePages - 1)) /\ 0..(ImagePages - 1) \in SUBSET Nat
            BY <3>1, FS_Interval
        <3> QED
            BY <2>6, <3>1, <3>2, Maps
    <2>8. shadow \in [Slot -> Map(Value)]
        BY <2>7, EmptyMap DEF Init
    <2>9. data \in [Frame -> Value]
        <3>1. PICK base, n : base = 2 + KTables + TableOf(ImagePages - 1) + 1 /\ n = ImagePages
            OBVIOUS
        <3>2. base \in Nat /\ n \in Nat
            <4>1. TableOf(ImagePages - 1) \in Nat /\ KTables \in Nat /\ ImagePages \in Nat
                BY Layout
            <4> QED
                BY <3>1, <4>1
        <3>3. data = [f \in Frame |-> IF f \in (base + 1)..(base + n)
                                      THEN ImageData[f - base - 1] ELSE "junk"]
            BY <3>1 DEF Init
        <3>4. ASSUME NEW f \in (base + 1)..(base + n) PROVE ImageData[f - base - 1] \in Value
            <4>1. f - base - 1 \in 0..(n - 1)
                BY <3>2, <3>4
            <4> QED
                BY <2>6, <3>1, <4>1
        <3>5. "junk" \in Value
            BY DEF Sane
        <3> QED
            BY <3>3, <3>4, <3>5
    <2>10. pgdir \in [Slot -> Space] /\ job \in [Slot -> Job] /\ panicked \in BOOLEAN
        BY <2>1 DEF Init
    <2> QED
        BY <1>2, <2>5, <2>8, <2>9, <2>10 DEF Types
<1>6. ASSUME NEW p \in Slot PROVE Calling(p)
    <2>1. Shape(Idle) /\ Built(Idle) /\ Idle.op = "none"
        BY DEF Shape, Built, Idle
    <2>2. job[p] = Idle
        BY <1>4
    <2>3. ASSUME proc[p].state = "user" PROVE Sized(Idle, proc[p], pgdir[p])
        <3>1. p = First
            BY <1>3, <2>3 DEF Unused
        <3> QED
            BY <1>1, <1>4, <2>1, <3>1 DEF Sized
    <2> QED
        BY <2>1, <2>2, <2>3 DEF Calling
<1>7. Slots
    <2>1. Idle.op = "none"
        BY DEF Idle
    <2>2. ASSUME NEW p \in Slot, proc[p].state \in {"UNUSED", "EMBRYO"}
          PROVE  proc[p].kstack = NoFrame /\ pgdir[p] = NoSpace
        <3>1. p # First
            BY <1>4, <2>2
        <3> QED
            BY <1>3, <3>1 DEF Unused
    <2> QED
        BY <1>4, <2>1, <2>2 DEF Slots
<1>8. EveryFrameOnce
    <2> SUFFICES ASSUME NEW f \in Frame
                 PROVE  \E owner \in Owner :
                          Has(owner, f) = 1 /\ \A other \in Owner \ {owner} : Has(other, f) = 0
        BY DEF EveryFrameOnce
    <2>1. InHand(Idle, f) = 0 /\ Idle.op = "none" /\ Hits(NoFrame, f) = 0 /\ InSpace(NoSpace, f) = 0
        BY IdleHand, Nothing
    <2>2. Has(NoSlot, f) = IF f <= used THEN 0 ELSE 1
        BY <1>2 DEF Has
    <2>3. Has(First, f) = IF f <= used THEN 1 ELSE 0
        <3>1. First # NoSlot
            BY <1>4 DEF NoSlot
        <3>2. Holds(First, f) = Hits(2, f) + 0 + InSpace(pgdir[First], f)
            BY <1>4, <2>1 DEF Holds
        <3>3. InSpace(pgdir[First], f) \in Nat /\ Hits(2, f) \in Nat
            BY <1>1, InSpaceNat DEF Hits
        <3> QED
            BY <1>1, <3>1, <3>2, <3>3 DEF Has
    <2>4. ASSUME NEW p \in Slot, p # First PROVE Has(p, f) = 0
        <3>1. p # NoSlot /\ job[p] = Idle /\ pgdir[p] = NoSpace /\ proc[p].kstack = NoFrame
            BY <1>3, <1>4, <2>4 DEF NoSlot, Unused
        <3> QED
            BY <2>1, <3>1 DEF Has, Holds
    <2>5. First # NoSlot /\ First \in Owner /\ NoSlot \in Owner /\ Owner = Slot \cup {NoSlot}
        BY <1>4 DEF NoSlot, Owner
    <2>6. CASE f <= used
        <3>1. Has(First, f) = 1 /\ \A other \in Owner \ {First} : Has(other, f) = 0
            BY <2>2, <2>3, <2>4, <2>5, <2>6
        <3> QED
            BY <2>5, <3>1
    <2>7. CASE ~(f <= used)
        <3>1. Has(NoSlot, f) = 1 /\ \A other \in Owner \ {NoSlot} : Has(other, f) = 0
            BY <2>2, <2>3, <2>4, <2>5, <2>7
        <3> QED
            BY <2>5, <3>1
    <2> QED
        BY <2>6, <2>7
<1> QED
    BY <1>5, <1>6, <1>7, <1>8 DEF Frames, NoMemPanic, Init

\* Every step in the kernel.
LEMMA KernelKeeps == ASSUME Sane, Frames, NEW p \in Slot, InKernel(p) PROVE Frames'
<1>1. CASE FreeFirst(p) \/ FreePage(p) \/ FreeTable(p) \/ FreeDir(p) \/ FreeLast(p)
    BY <1>1, FreeFirstKeeps, FreePageKeeps, FreeTableKeeps, FreeDirKeeps, FreeLastKeeps
<1>2. CASE Fail(p) \/ Resized(p) \/ KernelStack(p) \/ Setupkvm(p)
    BY <1>2, FailKeeps, ResizedKeeps, KernelStackKeeps, SetupkvmKeeps
<1>3. CASE AllocPage(p) \/ MapPage(p) \/ Grown(p) \/ Forked(p) \/ Loaded(p) \/ Done(p)
    BY <1>3, AllocPageKeeps, MapPageKeeps, GrownKeeps, ForkedKeeps, LoadedKeeps, DoneKeeps
<1> QED
    BY <1>1, <1>2, <1>3 DEF InKernel
-----------------------------------------------------------------------------
(* The programs of the tests *)

\* Calls without a child's program, and with one that has no children.
Simple ==
    (UNION {{SbrkOf(n), LoadOf(n), StoreOf(n), ExecOf(n)} : n \in Int})
      \cup {FetchOf(a) : a \in Nat} \cup {WaitOf, ExitOf, KillNext, Await, Sit, Oops}
Instructions(calls) == {Do(c) : c \in calls} \cup {Want(v, c) : v \in Value, c \in calls}
Child == Seq(Instructions(Simple))
Forks == {ForkOf(s) : s \in Child}
Script == Seq(Instructions(Simple \cup Forks)) \cup {Anything}

\* What the constants of the tests stand for.
Testing == Sane /\ Tests \subseteq DOMAIN Test /\ BIG \in Nat /\ "own" \in Value

\* Each call of a program is a call.
LEMMA CallOf ==
    ASSUME NEW S, NEW s \in Seq(Instructions(S)), NEW i \in DOMAIN s
    PROVE  s[i].call \in S
<1>1. s[i] \in Instructions(S)
    OBVIOUS
<1> QED
    BY <1>1 DEF Instructions, Do, Want

\* An instruction is one, and programs can be put together.
LEMMA IsInstruction ==
    ASSUME NEW S
    PROVE  /\ \A c \in S : Do(c) \in Instructions(S)
           /\ \A c \in S, v \in Value : Want(v, c) \in Instructions(S)
           /\ \A s, t \in Seq(Instructions(S)) : s \o t \in Seq(Instructions(S))
<1>1. \A s, t \in Seq(Instructions(S)) : s \o t \in Seq(Instructions(S))
    OBVIOUS
<1>2. \A c \in S : Do(c) \in Instructions(S)
    BY DEF Instructions
<1>3. \A c \in S, v \in Value : Want(v, c) \in Instructions(S)
    BY DEF Instructions
<1> QED
    BY <1>1, <1>2, <1>3

\* The calls the tests make.
LEMMA CallsAre ==
    /\ \A n \in Int : SbrkOf(n) \in Simple /\ LoadOf(n) \in Simple /\ StoreOf(n) \in Simple
                      /\ ExecOf(n) \in Simple
    /\ \A a \in Nat : FetchOf(a) \in Simple
    /\ {WaitOf, ExitOf, KillNext, Await, Sit, Oops} \subseteq Simple
    /\ \A s \in Child : ForkOf(s) \in Forks
BY DEF Simple, Forks

\* A program for a child can be one of its own.
LEMMA ChildIsScript == \A s \in Child : s \in Seq(Instructions(Simple \cup Forks)) /\ s \in Script
<1>1. Instructions(Simple) \subseteq Instructions(Simple \cup Forks)
    BY DEF Instructions
<1> HIDE DEF Instructions
<1>2. ASSUME NEW s \in Seq(Instructions(Simple)) PROVE s \in Seq(Instructions(Simple \cup Forks))
    BY <1>1, SeqMonotonic
<1> QED
    BY <1>2 DEF Child, Script

\* What a call may ask for.
LEMMA CallTypes ==
    ASSUME NEW c \in Simple \cup Forks
    PROVE  /\ c.op \in {"sbrk", "exec"} => c.n \in Int
           /\ c.op = "fetch" => c.n \in Nat
           /\ c.op = "fork" => c \in Forks /\ c.child \in Child
           /\ c.op # "any"
<1>1. CASE c \in Forks
    BY <1>1 DEF Forks, ForkOf
<1>2. CASE \E n \in Int : c \in {SbrkOf(n), LoadOf(n), StoreOf(n), ExecOf(n)}
    BY <1>2 DEF SbrkOf, LoadOf, StoreOf, ExecOf
<1>3. CASE \E a \in Nat : c = FetchOf(a)
    BY <1>3 DEF FetchOf
<1>4. CASE c \in {WaitOf, ExitOf, KillNext, Await, Sit, Oops}
    BY <1>4 DEF WaitOf, ExitOf, KillNext, Await, Sit, Oops
<1> QED
    BY <1>1, <1>2, <1>3, <1>4 DEF Simple

\* The first process has pages.
LEMMA FirstSize == ASSUME Sane PROVE ImageSize \in Nat /\ ImageSize - 1 \in Nat
<1>1. ImagePages \in Nat /\ ImagePages > 0 /\ PGSIZE \in Nat \ {0}
    BY Layout DEF Sane
<1>2. PGSIZE * 1 <= PGSIZE * ImagePages /\ PGSIZE * ImagePages \in Nat
    BY <1>1, Times
<1> QED
    BY <1>1, <1>2 DEF ImageSize

\* Processes that make any calls make these.
LEMMA AnyCalls == ASSUME Testing, NEW p \in Slot PROVE AnyCall(p) \subseteq Simple \cup Forks
<1>1. ImageSize \in Nat /\ ImageSize - 1 \in Nat /\ BIG \in Nat /\ PGSIZE \in Nat
    BY FirstSize DEF Testing, Sane
<1>2. \A n \in {PGSIZE + 1, -1, -2 * PGSIZE, -BIG, -ImageSize} : n \in Int
    BY <1>1
<1>3. \A n \in Int : SbrkOf(n) \in Simple
    BY CallsAre
<1>4. StoreOf(ImageSize) \in Simple /\ FetchOf(ImageSize - 1) \in Simple /\ ExecOf(1) \in Simple
      /\ WaitOf \in Simple /\ ExitOf \in Simple
    BY <1>1, CallsAre
<1>5. ForkOf(<<>>) \in Forks
    <2>1. <<>> \in Child
        BY DEF Child
    <2> QED
        BY <2>1, CallsAre
<1> QED
    BY <1>2, <1>3, <1>4, <1>5 DEF AnyCall

\* Tests that have no children.
LEMMA ChildTests ==
    ASSUME Testing
    PROVE  /\ Growing(3) \in Child /\ \A a \in Int : Downsize(a) \in Child
           /\ sbrktest_big \in Child /\ bsstest \in Child
           /\ \A a \in Int : <<Do(LoadOf(a)), Do(Oops)>> \in Child /\ Grower \in Child
           /\ <<Do(ExitOf)>> \in Child /\ <<Want(OK, ExecOf(1)), Do(ExitOf)>> \in Child
<1> DEFINE J == Instructions(Simple)
           S == Seq(J)
<1>1. ImageSize \in Int /\ PGSIZE \in Int /\ BIG \in Int
    BY FirstSize DEF Testing, Sane
<1>2. /\ \A n \in Int : SbrkOf(n) \in Simple /\ LoadOf(n) \in Simple /\ StoreOf(n) \in Simple
                        /\ ExecOf(n) \in Simple
      /\ ExitOf \in Simple /\ Oops \in Simple /\ Sit \in Simple
    BY CallsAre
<1>3. /\ \A c \in Simple : Do(c) \in J
      /\ \A c \in Simple, v \in Value : Want(v, c) \in J
      /\ \A s, t \in S : s \o t \in S
    BY IsInstruction
<1>4. \A n \in Int : n \in Value
    BY DEF Testing, Sane
<1>5. "zero" \in Value
    BY DEF Testing, Sane
<1> HIDE DEF J
<1>6. S = Child
    BY DEF J, Child
<1>7. ASSUME NEW x \in J PROVE <<x>> \in S
    OBVIOUS
<1>8. ASSUME NEW x \in J, NEW y \in J PROVE <<x, y>> \in S
    OBVIOUS
<1>9. \A v, n \in Int : Want(v, SbrkOf(n)) \in J /\ Do(SbrkOf(n)) \in J /\ Do(StoreOf(n)) \in J
                       /\ Do(LoadOf(n)) \in J /\ Want("zero", LoadOf(n)) \in J
                       /\ Want(v, ExecOf(n)) \in J
    BY <1>2, <1>3, <1>4, <1>5
<1>10. Growing(3) \in S
    <2>1. \A i \in 1..3 : Want(ImageSize + i - 1, SbrkOf(1)) \in J
        BY <1>1, <1>9
    <2> QED
        BY <2>1 DEF Growing
<1>11. \A a \in Int : Downsize(a) \in S
    BY <1>1, <1>7, <1>9 DEF Downsize
<1>12. sbrktest_big \in S
    <2> DEFINE x1 == Want(ImageSize, SbrkOf(BIG - ImageSize))
               x2 == Do(StoreOf(BIG - 1))
               x3 == Want(BIG, SbrkOf(-PGSIZE))
               x4 == Want(BIG - PGSIZE, SbrkOf(0))
               x5 == Want(BIG - PGSIZE, SbrkOf(PGSIZE))
               x6 == Want(BIG, SbrkOf(0))
               x7 == Want("zero", LoadOf(BIG - 1))
    <2>1. x1 \in J /\ x2 \in J /\ x3 \in J /\ x4 \in J /\ x5 \in J /\ x6 \in J /\ x7 \in J
        BY <1>1, <1>9
    <2>2. sbrktest_big = <<x1, x2, x3, x4, x5, x6, x7>> \o Downsize(BIG)
        BY DEF sbrktest_big
    <2> HIDE DEF x1, x2, x3, x4, x5, x6, x7
    <2>3. <<x1, x2, x3, x4, x5, x6, x7>> \in S
        BY <2>1
    <2> QED
        BY <1>1, <1>3, <1>11, <2>2, <2>3
<1>13. bsstest \in S
    <2>1. DOMAIN Image = 1..Len(Image) /\ Len(Image) \in Nat
        BY DEF Testing, Sane
    <2>2. \A i \in 1..Len(Image) : (i - 1) * PGSIZE \in Int
        BY <1>1, <2>1
    <2>3. \A i \in 1..Len(Image) :
            Want("zero", LoadOf((i - 1) * PGSIZE)) \in J /\ Do(LoadOf((i - 1) * PGSIZE)) \in J
        BY <1>9, <2>2
    <2>4. bsstest = [i \in 1..Len(Image) |->
                       IF Image[i] = "zero" THEN Want("zero", LoadOf((i - 1) * PGSIZE))
                       ELSE Do(LoadOf((i - 1) * PGSIZE))]
        BY <2>1 DEF bsstest
    <2>5. bsstest \in [1..Len(Image) -> J]
        BY <2>3, <2>4
    <2> QED
        BY <2>1, <2>5, SeqDef
<1>14. ASSUME NEW a \in Int PROVE <<Do(LoadOf(a)), Do(Oops)>> \in S
    BY <1>2, <1>3, <1>8, <1>9
<1>15. Grower \in S
    <2>1. Do(Sit) \in J /\ Do(SbrkOf(BIG - ImageSize)) \in J
        BY <1>1, <1>2, <1>3, <1>9
    <2> QED
        BY <1>8, <2>1 DEF Grower
<1>16. <<Do(ExitOf)>> \in S /\ <<Want(OK, ExecOf(1)), Do(ExitOf)>> \in S
    <2>1. Do(ExitOf) \in J /\ Want(OK, ExecOf(1)) \in J
        BY <1>2, <1>3, <1>9 DEF OK
    <2> QED
        BY <1>7, <1>8, <2>1
<1> QED
    BY <1>6, <1>10, <1>11, <1>12, <1>13, <1>14, <1>15, <1>16

\* Every test is made of these calls.
LEMMA TestsAre == ASSUME Testing, NEW t \in DOMAIN Test PROVE Test[t] \in Script
<1> DEFINE A == Simple \cup Forks
           J == Instructions(A)
           S == Seq(J)
<1>1. ImageSize \in Int /\ ImageSize \in Nat /\ PGSIZE \in Int /\ BIG \in Int /\ KERNBASE \in Int
    BY FirstSize DEF Testing, Sane
<1>2. \A n \in Int : /\ SbrkOf(n) \in A /\ LoadOf(n) \in A
                     /\ ExecOf(n) \in Simple /\ SbrkOf(n) \in Simple
    BY CallsAre
<1>3. FetchOf(ImageSize) \in A /\ FetchOf(ImageSize) \in Simple /\ FetchOf(0) \in Simple
      /\ WaitOf \in A /\ KillNext \in A /\ Await \in A /\ ExitOf \in Simple
    BY <1>1, CallsAre
<1>4. /\ \A c \in A : Do(c) \in J
      /\ \A c \in A, v \in Value : Want(v, c) \in J
      /\ \A r, s \in S : r \o s \in S
    BY IsInstruction
<1>5. \A n \in Int : n \in Value
    BY DEF Testing, Sane
<1>6. \A s \in Child : s \in S /\ ForkOf(s) \in A
    BY CallsAre, ChildIsScript
<1>7. \A s \in Child : Do(ForkOf(s)) \in J
    BY <1>4, <1>6
<1>8. /\ Do(WaitOf) \in J /\ Do(KillNext) \in J /\ Do(Await) \in J
      /\ \A v \in Int : Want(v, WaitOf) \in J
    BY <1>3, <1>4, <1>5
<1>9. \A v, n \in Int : Want(v, SbrkOf(n)) \in J
    BY <1>2, <1>4, <1>5
<1>10. /\ \A c \in Simple : Do(c) \in Instructions(Simple)
       /\ \A c \in Simple, v \in Int : Want(v, c) \in Instructions(Simple)
       /\ \A v, n \in Int : /\ Want(v, SbrkOf(n)) \in Instructions(Simple)
                           /\ Want(v, ExecOf(n)) \in Instructions(Simple)
    BY <1>2, <1>5, IsInstruction
<1> HIDE DEF A, J
<1>11. sbrktest_small \in S
    <2> DEFINE c1 == Want(ImageSize + 3, SbrkOf(1))
               c2 == Want(ImageSize + 4, SbrkOf(1))
               c3 == Do(ExitOf)
               k1 == Do(ForkOf(<<c1, c2, c3>>))
               k2 == Do(WaitOf)
    <2>1. c1 \in Instructions(Simple) /\ c2 \in Instructions(Simple) /\ c3 \in Instructions(Simple)
          /\ c1 \in J /\ c2 \in J /\ k2 \in J
        <3>1. ImageSize + 3 \in Int /\ ImageSize + 4 \in Int
            BY <1>1
        <3>2. c1 \in Instructions(Simple) /\ c2 \in Instructions(Simple) /\ c1 \in J /\ c2 \in J
            BY <1>9, <1>10, <3>1
        <3> QED
            BY <1>3, <1>8, <1>10, <3>2
    <2> HIDE DEF c1, c2, c3
    <2>2. <<c1, c2, c3>> \in Child
        BY <2>1 DEF Child
    <2>3. k1 \in J
        BY <1>7, <2>2
    <2> HIDE DEF k1, k2
    <2>4. <<k1, c1, c2, k2>> \in S
        BY <2>1, <2>3
    <2>5. Growing(3) \in S /\ Downsize(ImageSize + 5) \in S
        BY <1>1, <1>6, ChildTests
    <2>6. sbrktest_small = Growing(3) \o <<k1, c1, c2, k2>> \o Downsize(ImageSize + 5)
        BY DEF sbrktest_small, k1, k2, c1, c2, c3
    <2>7. Growing(3) \o <<k1, c1, c2, k2>> \in S
        BY <1>4, <2>4, <2>5
    <2> QED
        BY <1>4, <2>5, <2>6, <2>7
<1>12. sbrktest_big \in S /\ bsstest \in S
    BY <1>6, ChildTests
<1>13. sbrktest_kernel \in S
    <2>1. <<Do(LoadOf(KERNBASE)), Do(Oops)>> \in Child
        BY <1>1, ChildTests
    <2>2. Do(ForkOf(<<Do(LoadOf(KERNBASE)), Do(Oops)>>)) \in J
        BY <1>7, <2>1
    <2> QED
        BY <1>8, <2>2 DEF sbrktest_kernel
<1>14. sbrktest_full \in S
    <2> DEFINE k1 == Do(ForkOf(Grower))
               k2 == Do(Await)
               k3 == Want(ImageSize, SbrkOf(PGSIZE))
               k4 == Do(KillNext)
               k5 == Do(WaitOf)
    <2>1. k1 \in J
        BY <1>1, <1>7, ChildTests
    <2>2. k2 \in J /\ k3 \in J /\ k4 \in J /\ k5 \in J
        BY <1>1, <1>8, <1>9
    <2>3. sbrktest_full
            = <<k1, k2, k1, k2, k3, k4, k5, k4, k5>> \o Downsize(ImageSize + PGSIZE)
        BY DEF sbrktest_full
    <2> HIDE DEF k1, k2, k3, k4, k5
    <2>4. <<k1, k2, k1, k2, k3, k4, k5, k4, k5>> \in S
        BY <2>1, <2>2
    <2>5. Downsize(ImageSize + PGSIZE) \in S
        BY <1>1, <1>6, ChildTests
    <2> QED
        BY <1>4, <2>3, <2>4, <2>5
<1>15. validatetest \in S
    <2> DEFINE c1 == Want(OK, FetchOf(0))
               c2 == Want(-1, FetchOf(ImageSize))
               c3 == Do(ExitOf)
               k1 == Do(ForkOf(<<c1, c2, c3>>))
               k2 == Do(KillNext)
               k3 == Do(WaitOf)
    <2>1. c1 \in Instructions(Simple) /\ c2 \in Instructions(Simple) /\ c3 \in Instructions(Simple)
          /\ c2 \in J /\ k2 \in J /\ k3 \in J
        <3>1. OK \in Int /\ -1 \in Int /\ -1 \in Value
            BY <1>5 DEF OK
        <3>2. c1 \in Instructions(Simple) /\ c2 \in Instructions(Simple) /\ c2 \in J
            BY <1>3, <1>4, <1>10, <3>1
        <3> QED
            BY <1>3, <1>8, <1>10, <3>2
    <2> HIDE DEF c1, c2, c3
    <2>2. <<c1, c2, c3>> \in Child
        BY <2>1 DEF Child
    <2>3. k1 \in J
        BY <1>7, <2>2
    <2> HIDE DEF k1, k2, k3
    <2>4. <<k1, k2, k3, c2>> \in S
        BY <2>1, <2>3
    <2> QED
        BY <2>4 DEF validatetest, k1, k2, k3, c1, c2, c3
<1>16. bigargtest \in S
    <2> DEFINE c1 == Want(-1, ExecOf(2 * PGSIZE))
               c2 == Want(ImageSize, SbrkOf(0))
               c3 == Do(ExitOf)
               k1 == Do(ForkOf(<<c1, c2, c3>>))
               k2 == Do(WaitOf)
    <2>1. c1 \in Instructions(Simple) /\ c2 \in Instructions(Simple) /\ c3 \in Instructions(Simple)
          /\ k2 \in J
        BY <1>1, <1>3, <1>8, <1>10
    <2> HIDE DEF c1, c2, c3
    <2>2. <<c1, c2, c3>> \in Child
        BY <2>1 DEF Child
    <2>3. k1 \in J
        BY <1>7, <2>2
    <2> HIDE DEF k1, k2
    <2>4. <<k1, k2>> \in S
        BY <2>1, <2>3
    <2> QED
        BY <2>4 DEF bigargtest, k1, k2, c1, c2, c3
<1>17. exectest \in S
    <2>1. Do(ForkOf(<<Want(OK, ExecOf(1)), Do(ExitOf)>>)) \in J
        BY <1>7, ChildTests
    <2> QED
        BY <1>8, <2>1 DEF exectest
<1>18. mem \in S
    <2> DEFINE c1 == Do(SbrkOf(5))
               c3 == Do(ExitOf)
               k1 == Do(ForkOf(<<c1, c1, c1, c1, c3>>))
               k2 == Do(WaitOf)
    <2>1. c1 \in Instructions(Simple) /\ c3 \in Instructions(Simple) /\ k2 \in J
        BY <1>2, <1>3, <1>8, <1>10
    <2> HIDE DEF c1, c3
    <2>2. <<c1, c1, c1, c1, c3>> \in Child
        BY <2>1 DEF Child
    <2>3. k1 \in J
        BY <1>7, <2>2
    <2> HIDE DEF k1, k2
    <2>4. <<k1, k2>> \in S
        BY <2>1, <2>3
    <2> QED
        BY <2>4 DEF mem, k1, k2, c1, c3
<1>19. forktest \in S
    <2> DEFINE n == Cardinality(Slot)
               k1 == Do(ForkOf(<<Do(ExitOf)>>))
               k2 == Do(WaitOf)
               k3 == Want(-1, WaitOf)
    <2>1. n \in Nat
        BY FS_CardinalityType DEF Testing, Sane
    <2>2. k1 \in J /\ k2 \in J /\ k3 \in J
        BY <1>7, <1>8, ChildTests
    <2>3. forktest = [i \in 1..n |-> k1] \o [i \in 1..n |-> k2] \o <<k3>>
        BY DEF forktest
    <2> HIDE DEF n, k1, k2, k3
    <2>4. [i \in 1..n |-> k1] \in S /\ [i \in 1..n |-> k2] \in S /\ <<k3>> \in S
        BY <2>1, <2>2
    <2>5. [i \in 1..n |-> k1] \o [i \in 1..n |-> k2] \in S
        BY <1>4, <2>4
    <2> QED
        BY <1>4, <2>3, <2>4, <2>5
<1>20. S \subseteq Script /\ Anything \in Script
    BY DEF Script, A, J
<1> HIDE DEF S
<1> QED
    BY <1>11, <1>12, <1>13, <1>14, <1>15, <1>16, <1>17, <1>18, <1>19, <1>20 DEF Test

\* Whoever forks is at such a call.
Forking ==
    \A p \in Slot : job[p].op = "fork" /\ ~Random(p) =>
        pc[p] \in DOMAIN script[p] /\ script[p][pc[p]].call \in Forks

TestsIInv == Frames /\ script \in [Slot -> Script] /\ pc \in [Slot -> Int] /\ Forking

\* A call that is made.
LEMMA CallMade ==
    ASSUME Testing, TestsIInv, NEW p \in Slot, NEW c \in Calls(p)
    PROVE  /\ InUser(p) /\ CanRun(p) /\ ~panicked /\ c \in Simple \cup Forks
           /\ ~Random(p) => pc[p] \in DOMAIN script[p] /\ script[p][pc[p]].call = c
<1>1. InUser(p) /\ CanRun(p) /\ ~panicked
    BY DEF Calls
<1>2. CASE Random(p)
    BY <1>2, AnyCalls DEF Calls
<1>3. CASE ~Random(p)
    <2>1. pc[p] \in DOMAIN script[p] /\ script[p][pc[p]].call = c
        BY <1>3 DEF Calls
    <2>2. script[p] \in Seq(Instructions(Simple \cup Forks))
        BY <1>3 DEF TestsIInv, Script, Random
    <2>3. c \in Simple \cup Forks
        BY <2>1, <2>2, CallOf
    <2> QED
        BY <1>1, <2>1, <2>3
<1> QED
    BY <1>1, <1>2, <1>3

\* Nothing happens.
LEMMA FramesStay == ASSUME Frames, UNCHANGED mvars PROVE Frames'
<1>1. UNCHANGED <<freelist, data, proc, pgdir, job, shadow, panicked>>
    BY DEF mvars
<1>2. Types' /\ Slots' /\ NoMemPanic'
    BY <1>1 DEF Frames, Types, Slots, NoMemPanic
<1>3. \A p \in Slot : Calling(p)'
    BY <1>1 DEF Frames, Calling
<1>4. \A f \in Frame, o \in Owner : Has(o, f)' = Has(o, f)
    BY <1>1 DEF Has, Holds
<1> QED
    BY <1>2, <1>3, <1>4, Stays DEF Frames

\* It keeps memory as it has to be.
LEMMA CallKeeps ==
    ASSUME Testing, TestsIInv, NEW p \in Slot, NEW c \in Calls(p), Call(p, c)
    PROVE  Frames'
<1>1. InUser(p) /\ CanRun(p) /\ c \in Simple \cup Forks /\ Sane /\ Frames
    BY CallMade DEF TestsIInv, Testing
<1>2. /\ c.op \in {"sbrk", "exec"} => c.n \in Int
      /\ c.op = "fetch" => c.n \in Nat
    BY <1>1, CallTypes
<1>3. CASE c.op = "sbrk" /\ Sbrk(p, c.n)
    BY <1>1, <1>2, <1>3, SbrkKeeps
<1>4. CASE c.op = "load" /\ Load(p, c.n)
    BY <1>1, <1>4, LoadKeeps
<1>5. CASE c.op = "store" /\ Store(p, c.n, "own")
    BY <1>1, <1>5, StoreKeeps DEF Testing
<1>6. CASE c.op = "fetch" /\ Fetch(p, c.n)
    BY <1>1, <1>2, <1>6, FetchKeeps
<1>7. CASE c.op = "exec" /\ Exec(p, c.n)
    BY <1>1, <1>2, <1>7, ExecKeeps
<1>8. CASE Wait(p) \/ Exit(p) \/ Fork(p)
    BY <1>1, <1>8, WaitKeeps, ExitKeeps, ForkKeeps
<1>9. CASE Kill(p, Head(pids[p]))
    BY <1>1, <1>9, KillKeeps
<1>10. CASE UNCHANGED mvars
    BY <1>1, <1>10, FramesStay
<1> QED
    BY <1>3, <1>4, <1>5, <1>6, <1>7, <1>8, <1>9, <1>10 DEF Call

\* Only a fork begins one.
LEMMA CallForks ==
    ASSUME Testing, TestsIInv, NEW p \in Slot, NEW c \in Calls(p), Call(p, c)
    PROVE  /\ script' = script /\ \A q \in Slot \ {p} : job'[q] = job[q] /\ pc'[q] = pc[q]
           /\ pc' \in [Slot -> Int]
           /\ job'[p].op = "fork" => c.op = "fork" /\ pc'[p] = pc[p]
<1>1. InUser(p) /\ job \in [Slot -> Job] /\ pc \in [Slot -> Int] /\ job[p].op = "none"
    BY CallMade DEF TestsIInv, Frames, Types, InUser
<1>2. script' = script
    BY DEF Call, Called
<1>3. \E d \in Int : pc' = [pc EXCEPT ![p] = @ + d]
    <2>1. CASE UNCHANGED pc
        <3>1. pc' = [pc EXCEPT ![p] = @ + 0] /\ 0 \in Int
            BY <1>1, <2>1
        <3> QED
            BY <3>1, Zenon
    <2> QED
        BY <2>1 DEF Call, ToNext
<1>4. pc' \in [Slot -> Int] /\ \A q \in Slot \ {p} : pc'[q] = pc[q]
    BY <1>1, <1>3
<1>5. CASE c.op = "fork"
    <2>1. Fork(p) /\ pc' = [pc EXCEPT ![p] = @ + 0]
        BY <1>5 DEF Call, ToNext
    <2>2. pc'[p] = pc[p]
        BY <1>1, <2>1
    <2>3. \A q \in Slot \ {p} : job'[q] = job[q]
        BY <1>1, <2>1 DEF Fork, Enter
    <2> QED
        BY <1>2, <1>4, <1>5, <2>2, <2>3
<1>6. CASE c.op # "fork"
    <2>1. \E j : job' = [job EXCEPT ![p] = j] /\ j.op # "fork"
        <3>1. job = [job EXCEPT ![p] = job[p]]
            BY <1>1
        <3>2. Idle.op = "none"
            BY DEF Idle
        <3>3. CASE UNCHANGED job
            BY <1>1, <3>1, <3>3
        <3>4. CASE \E n : Sbrk(p, n)
            <4>1. PICK n : Sbrk(p, n)
                BY <3>4
            <4>2. \/ UNCHANGED job
                  \/ \E z : Enter(p, JobToGrow(p, z)) \/ Enter(p, JobToShrink(p, z))
                BY <4>1 DEF Sbrk
            <4>3. \A z : JobToGrow(p, z).op = "sbrk" /\ JobToShrink(p, z).op = "sbrk"
                BY DEF JobToGrow, JobToShrink, Idle
            <4> QED
                BY <3>3, <4>2, <4>3 DEF Enter
        <3>5. CASE \E n : Exec(p, n)
            <4>1. PICK n : Exec(p, n)
                BY <3>5
            <4> DEFINE j == [Idle EXCEPT !.op = "exec", !.at = "dir", !.limit = ImageSize,
                                         !.value = n]
            <4>2. job' = [job EXCEPT ![p] = j] /\ j.op = "exec"
                BY <4>1 DEF Exec, Enter, Idle
            <4> HIDE DEF j
            <4> QED
                BY <4>2
        <3>6. CASE Wait(p)
            <4>1. PICK c1 : c1 = Min({q \in Children(p) : proc[q].state = "zombie"})
                OBVIOUS
            <4> DEFINE j == [Idle EXCEPT !.op = "wait", !.at = "done", !.child = c1, !.value = c1,
                                         !.first = proc[c1].kstack, !.old = pgdir[c1]]
            <4>2. (UNCHANGED job \/ job' = [job EXCEPT ![p] = j]) /\ j.op = "wait"
                BY <3>6, <4>1 DEF Wait, Enter, Idle
            <4> HIDE DEF j
            <4> QED
                BY <3>3, <4>2
        <3> QED
            BY <1>6, <3>3, <3>4, <3>5, <3>6
               DEF Call, Load, Store, Fetch, Exit, Kill, mvars
    <2> QED
        BY <1>1, <1>2, <1>4, <1>6, <2>1
<1> QED
    BY <1>5, <1>6

\* A step in the kernel ends a call, or goes on with it.
LEMMA KernelForks ==
    ASSUME Frames, NEW p \in Slot, InKernel(p)
    PROVE  /\ \A q \in Slot \ {p} : job'[q] = job[q]
           /\ job'[p].op \in {job[p].op, "none"}
<1>1. job \in [Slot -> Job] /\ job[p] \in Job
    BY DEF Frames, Types
<1>2. ASSUME NEW k, job' = [job EXCEPT ![p] = k], k.op \in {job[p].op, "none"}
      PROVE  /\ \A q \in Slot \ {p} : job'[q] = job[q]
             /\ job'[p].op \in {job[p].op, "none"}
    BY <1>1, <1>2
<1>3. Idle.op = "none" /\ Bad(job[p]).op = job[p].op
    BY <1>1 DEF Idle, Bad, Job
<1>4. ASSUME NEW got, NEW contents, NEW without, Kalloc(p, got, contents, without),
             \A f \in Frame : got[f].op = job[p].op, without.op = job[p].op
      PROVE  \E k : job' = [job EXCEPT ![p] = k] /\ k.op \in {job[p].op, "none"}
    <2>1. freelist # <<>> => Head(freelist) \in Frame
        BY DEF Frames, Types
    <2> QED
        BY <1>4, <2>1 DEF Kalloc
<1>5. CASE FreeFirst(p) \/ FreeLast(p)
    <2>1. [job[p] EXCEPT !.first = NoFrame].op = job[p].op
          /\ [job[p] EXCEPT !.last = NoFrame].op = job[p].op
        BY <1>1 DEF Job
    <2> QED
        BY <1>2, <1>5, <2>1 DEF FreeFirst, FreeLast, Kfree
<1>6. CASE FreePage(p) \/ FreeTable(p) \/ FreeDir(p)
    <2>1. \E s : job' = [job EXCEPT ![p] = [job[p] EXCEPT !.old = s]]
        BY <1>1, <1>6 DEF FreePage, FreeTable, FreeDir, Kfree, Job, Space
    <2>2. \A s : [job[p] EXCEPT !.old = s].op = job[p].op
        BY <1>1 DEF Job
    <2> QED
        BY <1>2, <2>1, <2>2
<1>7. CASE Fail(p) \/ Resized(p) \/ Done(p) \/ Forked(p)
    BY <1>2, <1>3, <1>7 DEF Fail, Resized, Done, Forked, Finish
<1>8. CASE KernelStack(p)
    <2> DEFINE got == [f \in Frame |-> [job[p] EXCEPT !.kstack = f, !.at = "dir"]]
    <2>1. Kalloc(p, got, "kstack", Bad(job[p])) /\ \A f \in Frame : got[f].op = job[p].op
        BY <1>1, <1>8 DEF KernelStack, Job
    <2> HIDE DEF got
    <2> QED
        BY <1>2, <1>3, <1>4, <2>1
<1>9. CASE Setupkvm(p)
    <2> DEFINE missing == KernelTables \ DOMAIN job[p].space.tables
               got1 == [f \in Frame |-> [job[p] EXCEPT !.space.dir = f]]
               got2 == [f \in Frame |-> [job[p] EXCEPT !.space.tables = With(@, Min(missing), f),
                                           !.at = IF missing = {Min(missing)}
                                                  THEN "mem" ELSE "dir"]]
    <2>1. \E got \in {got1, got2} : Kalloc(p, got, "table", Bad(job[p]))
        BY <1>9 DEF Setupkvm
    <2>2. \A f \in Frame : got1[f].op = job[p].op /\ got2[f].op = job[p].op
        BY <1>1 DEF Job
    <2> HIDE DEF got1, got2
    <2> QED
        BY <1>2, <1>3, <1>4, <2>1, <2>2
<1>10. Short(job[p], p).op = job[p].op
    <2>1. Undo(job[p], proc[p].sz).op = job[p].op
        BY <1>1 DEF Undo, Job
    <2> QED
        BY <1>3, <2>1 DEF Short
<1>11. CASE AllocPage(p)
    <2> DEFINE got == [f \in Frame |-> [job[p] EXCEPT !.mem = f, !.at = "map"]]
    <2>1. UNCHANGED job \/ Kalloc(p, got, Contents(p, job[p]), Short(job[p], p))
        BY <1>11 DEF AllocPage
    <2>2. \A f \in Frame : got[f].op = job[p].op
        BY <1>1 DEF Job
    <2>3. job = [job EXCEPT ![p] = job[p]]
        BY <1>1
    <2> HIDE DEF got
    <2>4. CASE UNCHANGED job
        BY <1>2, <2>3, <2>4
    <2>5. CASE Kalloc(p, got, Contents(p, job[p]), Short(job[p], p))
        BY <1>2, <1>4, <1>10, <2>2, <2>5
    <2> QED
        BY <2>1, <2>4, <2>5
<1>12. CASE MapPage(p)
    <2> DEFINE t == TableOf(job[p].page)
               got == [f \in Frame |-> [job[p] EXCEPT !.space.tables = With(@, t, f)]]
               done == [job[p] EXCEPT !.at = "mem", !.mem = NoFrame, !.page = @ + 1,
                          !.space.ptes = With(@, job[p].page,
                                              [frame |-> job[p].mem, user |-> UserBit(p, job[p])])]
    <2>1. job' = [job EXCEPT ![p] = done] \/ Kalloc(p, got, "table", Short(job[p], p))
        BY <1>12 DEF MapPage
    <2>2. done.op = job[p].op /\ \A f \in Frame : got[f].op = job[p].op
        BY <1>1 DEF Job
    <2> HIDE DEF got, done
    <2>3. CASE job' = [job EXCEPT ![p] = done]
        BY <1>2, <2>2, <2>3
    <2>4. CASE Kalloc(p, got, "table", Short(job[p], p))
        BY <1>2, <1>4, <1>10, <2>2, <2>4
    <2> QED
        BY <2>1, <2>3, <2>4
<1>13. CASE Grown(p)
    <2>1. [job[p] EXCEPT !.at = "resized"].op = job[p].op
        BY <1>1 DEF Job
    <2>2. job' = [job EXCEPT ![p] = [job[p] EXCEPT !.at = "resized"]]
        BY <1>1, <1>13 DEF Grown
    <2> QED
        BY <1>2, <2>1, <2>2
<1>14. CASE Loaded(p)
    <2> DEFINE j == [Idle EXCEPT !.op = "exec", !.at = "done", !.old = pgdir[p]]
    <2>1. job' = [job EXCEPT ![p] = Bad(job[p])] \/ job' = [job EXCEPT ![p] = j]
        BY <1>14 DEF Loaded, Enter
    <2>2. j.op = "exec" /\ job[p].op = "exec"
        BY <1>14 DEF Loaded, Idle
    <2> HIDE DEF j
    <2> QED
        BY <1>2, <1>3, <2>1, <2>2
<1> QED
    BY <1>5, <1>6, <1>7, <1>8, <1>9, <1>11, <1>12, <1>13, <1>14 DEF InKernel

\* The tests begin.
LEMMA TestsBegin == ASSUME Testing, TestInit PROVE TestsIInv
<1>1. Frames
    BY InitKeeps DEF TestInit, Testing
<1>2. script \in [Slot -> Script] /\ pc \in [Slot -> Int]
    <2>1. PICK t \in Tests : script = [p \in Slot |-> Test[t]]
        BY DEF TestInit
    <2>2. Test[t] \in Script
        BY TestsAre DEF Testing
    <2> QED
        BY <2>1, <2>2 DEF TestInit
<1>3. Forking
    BY DEF TestInit, Init, Idle, Forking
<1> QED
    BY <1>1, <1>2, <1>3 DEF TestsIInv

\* A call that a process makes.
LEMMA CallKeepsTests ==
    ASSUME Testing, TestsIInv, NEW p \in Slot, NEW c \in Calls(p), Call(p, c)
    PROVE  TestsIInv'
<1>1. Frames' /\ script' = script /\ pc' \in [Slot -> Int]
    BY CallKeeps, CallForks
<1>2. ASSUME NEW q \in Slot, job'[q].op = "fork", ~Random(q)'
      PROVE  pc'[q] \in DOMAIN script'[q] /\ script'[q][pc'[q]].call \in Forks
    <2>1. ~Random(q)
        BY <1>1, <1>2 DEF Random
    <2>2. CASE q = p
        <3>1. c.op = "fork" /\ pc'[q] = pc[q]
            BY <1>2, <2>2, CallForks
        <3>2. c \in Simple \cup Forks /\ pc[q] \in DOMAIN script[q] /\ script[q][pc[q]].call = c
            BY <2>1, <2>2, CallMade
        <3>3. c \in Forks
            BY <3>1, <3>2, CallTypes
        <3> QED
            BY <1>1, <3>1, <3>2, <3>3
    <2>3. CASE q # p
        <3>1. job[q].op = "fork" /\ pc'[q] = pc[q]
            BY <1>2, <2>3, CallForks
        <3> QED
            BY <1>1, <2>1, <3>1 DEF TestsIInv, Forking
    <2> QED
        BY <2>2, <2>3
<1>3. Forking'
    BY <1>2 DEF Forking
<1> QED
    BY <1>1, <1>3 DEF TestsIInv

\* A call returns to the test.
LEMMA ReturnedKeepsTests ==
    ASSUME Testing, TestsIInv, NEW p \in Slot, Returned(p)
    PROVE  TestsIInv'
<1>1. UNCHANGED mvars /\ script' = script /\ job' = job
      /\ pc' = [pc EXCEPT ![p] = @ + 1] /\ job[p].op = "none"
    BY DEF Returned, ToNext, InUser, mvars
<1>2. Frames'
    BY <1>1, FramesStay DEF TestsIInv
<1>3. pc' \in [Slot -> Int] /\ \A q \in Slot \ {p} : pc'[q] = pc[q]
    BY <1>1 DEF TestsIInv
<1>4. Forking'
    BY <1>1, <1>3 DEF TestsIInv, Forking, Random
<1> QED
    BY <1>1, <1>2, <1>3, <1>4 DEF TestsIInv

\* A process is killed.
LEMMA DiesKeepsTests ==
    ASSUME Testing, TestsIInv, NEW p \in Slot, Dies(p)
    PROVE  TestsIInv'
<1>1. InUser(p) /\ Exit(p) /\ UNCHANGED <<script, pc, job>>
    BY DEF Dies, Exit
<1>2. Frames'
    BY <1>1, ExitKeeps DEF TestsIInv, Testing
<1> QED
    BY <1>1, <1>2 DEF TestsIInv, Forking, Random

\* A step in the kernel, in which fork() may give a child its program.
LEMMA KernelKeepsTests ==
    ASSUME Testing, TestsIInv, NEW p \in Slot, Kernel(p)
    PROVE  TestsIInv'
<1>1. Frames /\ Frames' /\ InKernel(p)
    BY KernelKeeps DEF Kernel, TestsIInv, Testing
<1>2. \A q \in Slot : job'[q].op = "fork" => job[q].op = "fork"
    BY <1>1, KernelForks
<1> DEFINE child == job[p].child
           born == child # NoSlot /\ proc[child].state = "EMBRYO" /\ proc'[child].state = "user"
<1>3. CASE ~born
    <2>1. script' = script /\ pc' = pc
        BY <1>3 DEF Kernel
    <2> QED
        BY <1>1, <1>2, <2>1 DEF TestsIInv, Forking, Random
<1>4. CASE born
    <2>1. child \in Slot /\ job[p].op = "fork"
        <3>1. Calling(p) /\ child \in Owner
            BY <1>1 DEF Frames, Types, Job
        <3>2. job[p].op \in {"fork", "wait"}
            BY <1>1, <1>4, <3>1 DEF Calling, Shape, Frames, Types, Job, Idle
        <3>3. job[p].op = "wait" => proc[child].state = "zombie"
            BY <3>1 DEF Calling
        <3> QED
            BY <1>4, <3>1, <3>2, <3>3 DEF Owner
    <2>2. job[child].op # "fork"
        BY <1>1, <1>4, <2>1 DEF Frames, Calling
    <2>3. PICK s : /\ script' = [script EXCEPT ![child] = s]
                   /\ s = IF Random(p) THEN Anything ELSE script[p][pc[p]].call.child
        BY <1>4 DEF Kernel
    <2>4. s \in Script
        <3>1. ~Random(p) => script[p][pc[p]].call \in Forks
            BY <2>1 DEF TestsIInv, Forking
        <3>2. \A c \in Forks : c.child \in Child
            BY DEF Forks, ForkOf
        <3>3. Anything \in Script
            BY DEF Script
        <3> QED
            BY <2>3, <3>1, <3>2, <3>3, ChildIsScript
    <2>5. pc' = [pc EXCEPT ![child] = IF Random(p) THEN @ ELSE 1]
        BY <1>4 DEF Kernel
    <2> HIDE DEF child, born
    <2>6. script' \in [Slot -> Script] /\ \A q \in Slot \ {child} : script'[q] = script[q]
        BY <2>1, <2>3, <2>4 DEF TestsIInv
    <2>7. pc' \in [Slot -> Int] /\ \A q \in Slot \ {child} : pc'[q] = pc[q]
        BY <2>1, <2>5 DEF TestsIInv
    <2>8. Forking'
        BY <1>2, <2>2, <2>6, <2>7 DEF TestsIInv, Forking, Random
    <2> QED
        BY <1>1, <2>6, <2>7, <2>8 DEF TestsIInv
<1> QED
    BY <1>3, <1>4

\* Whatever the tests do.
LEMMA TestsGoOn == ASSUME Testing, TestsIInv, [TestNext]_vars PROVE TestsIInv'
<1>1. ASSUME NEW p \in Slot, NEW c \in Calls(p), Call(p, c) PROVE TestsIInv'
    BY <1>1, CallKeepsTests
<1>2. ASSUME NEW p \in Slot, Returned(p) \/ Kernel(p) \/ Dies(p) PROVE TestsIInv'
    BY <1>2, ReturnedKeepsTests, KernelKeepsTests, DiesKeepsTests
<1>3. CASE UNCHANGED vars
    <2>1. UNCHANGED mvars /\ UNCHANGED <<script, pc, job>>
        BY <1>3 DEF vars, mvars
    <2> QED
        BY <2>1, FramesStay DEF TestsIInv, Forking, Random
<1> QED
    BY <1>1, <1>2, <1>3 DEF TestNext
-----------------------------------------------------------------------------
(* What the pages contain *)

\* What page i should be once a call is over, from what it is now.
MeantValue(op, sh, i) ==
    IF op = "exec" THEN ImageData[i] ELSE IF i \in DOMAIN sh THEN sh[i] ELSE "zero"
MeantUser(op, pt, i) ==
    IF op = "exec" THEN i # Len(Image) ELSE IF i \in DOMAIN pt THEN pt[i].user ELSE TRUE

\* The pages of a process.  Those that sbrk() takes away may be gone already.
Own(j, entry, pt, sh, d) ==
    /\ DOMAIN sh = DOMAIN pt /\ DOMAIN pt \subseteq Below(entry.sz)
    /\ j.op # "sbrk" => \A i \in DOMAIN pt : d[pt[i].frame] = sh[i]
    /\ entry.guard # NoGuard => entry.guard \in DOMAIN pt /\ ~pt[entry.guard].user

\* The pages that its call has made.
Made(j, pt, sh, d) ==
    /\ \A i \in DOMAIN j.space.ptes :
         /\ d[j.space.ptes[i].frame] = MeantValue(j.op, sh, i)
         /\ j.space.ptes[i].user = MeantUser(j.op, pt, i)
    /\ j.at = "map" => d[j.mem] = MeantValue(j.op, sh, j.page)

Good(p) ==
    proc[p].state = "user" =>
        Own(job[p], proc[p], pgdir[p].ptes, shadow[p], data)
          /\ Made(job[p], pgdir[p].ptes, shadow[p], data)

Filled == \A p \in Slot : Good(p)

\* A frame with none of these pages.
Unseen(j, pt, f) ==
    /\ j.mem # f /\ \A i \in DOMAIN j.space.ptes : j.space.ptes[i].frame # f
    /\ j.op # "sbrk" => \A i \in DOMAIN pt : pt[i].frame # f

\* The pages of a space are in memory.
LEMMA PageFrames ==
    ASSUME NEW space \in Space
    PROVE  \A i \in DOMAIN space.ptes :
             i \in Nat /\ space.ptes[i] \in Pte /\ space.ptes[i].frame \in Frame
<1>1. space.ptes \in Map(Pte)
    BY DEF Space
<1>2. \A i \in DOMAIN space.ptes : space.ptes[i] \in Pte
    BY <1>1, Framed
<1>3. DOMAIN space.ptes \in SUBSET Nat
    BY <1>1, Maps
<1> QED
    BY <1>2, <1>3 DEF Pte

\* No page of a space is in a frame that it does not use.
LEMMA NotInSpace ==
    ASSUME NEW space \in Space, NEW f, InSpace(space, f) = 0
    PROVE  \A i \in DOMAIN space.ptes : space.ptes[i].frame # f /\ space.ptes[i].frame \in Frame
<1>1. space.ptes \in Map(Pte)
    BY DEF Space
<1>2. FramesOf(space.ptes) \in Map(Frame) /\ DOMAIN FramesOf(space.ptes) = DOMAIN space.ptes
      /\ \A i \in DOMAIN space.ptes : FramesOf(space.ptes)[i] = space.ptes[i].frame
    BY <1>1, Framed
<1>3. Uses(FramesOf(space.ptes), f) = 0
    <2>1. /\ Hits(space.dir, f) \in Nat /\ Uses(space.tables, f) \in Nat
          /\ Uses(FramesOf(space.ptes), f) \in Nat
        BY InSpaceNat
    <2> QED
        BY <2>1 DEF InSpace
<1>4. \A i \in DOMAIN FramesOf(space.ptes) : FramesOf(space.ptes)[i] # f
    BY <1>2, <1>3, Maps, UsesNat
<1>5. \A i \in DOMAIN space.ptes : space.ptes[i].frame \in Frame
    BY PageFrames
<1> QED
    BY <1>2, <1>4, <1>5

\* What a process does not hold is not behind its pages.
LEMMA NotHeld ==
    ASSUME NEW j \in Job, NEW space \in Space, NEW x, NEW f,
           Hits(x, f) + InHand(j, f) + (IF j.op = "sbrk" THEN 0 ELSE InSpace(space, f)) = 0
    PROVE  Unseen(j, space.ptes, f)
<1>1. j.space \in Space /\ j.old \in Space
    BY DEF Job
<1>2. InSpace(space, f) \in Nat /\ InSpace(j.space, f) \in Nat /\ InSpace(j.old, f) \in Nat
      /\ InHand(j, f) \in Nat
    BY <1>1, InSpaceNat, InHandNat
<1>3. \A y : Hits(y, f) \in Nat
    BY DEF Hits
<1>4. InHand(j, f) = 0 /\ (j.op # "sbrk" => InSpace(space, f) = 0)
    BY <1>2, <1>3
<1>5. Hits(j.mem, f) = 0 /\ InSpace(j.space, f) = 0
    BY <1>2, <1>3, <1>4 DEF InHand
<1>6. j.mem # f
    BY <1>5 DEF Hits
<1> QED
    BY <1>1, <1>4, <1>5, <1>6, NotInSpace DEF Unseen

\* A free frame is behind no page, before and after a step.
LEMMA FreeUnseen ==
    ASSUME Sane, NEW p \in Slot, NEW f \in Frame
    PROVE  /\ Frames /\ Uses(freelist, f) # 0 => Unseen(job[p], pgdir[p].ptes, f)
           /\ Frames' /\ Uses(freelist', f) # 0 => Unseen(job'[p], pgdir'[p].ptes, f)
<1>1. p \in Owner /\ NoSlot \in Owner /\ p # NoSlot
    BY DEF Owner, Sane, NoSlot
<1>2. ASSUME Frames, Uses(freelist, f) # 0 PROVE Unseen(job[p], pgdir[p].ptes, f)
    <2>1. job[p] \in Job /\ pgdir[p] \in Space
        BY <1>2 DEF Frames, Types
    <2>2. Has(p, f) = 0 /\ Has(p, f) = Holds(p, f)
        BY <1>1, <1>2 DEF Frames, EveryFrameOnce, Has
    <2> QED
        BY <2>1, <2>2, NotHeld DEF Holds
<1>3. ASSUME Frames', Uses(freelist', f) # 0 PROVE Unseen(job'[p], pgdir'[p].ptes, f)
    <2>1. job'[p] \in Job /\ pgdir'[p] \in Space
        BY <1>3 DEF Frames, Types
    <2>2. Has(p, f)' = 0 /\ Has(p, f)' = Holds(p, f)'
        BY <1>1, <1>3 DEF Frames, EveryFrameOnce, Has, Owner, Frame
    <2> QED
        BY <2>1, <2>2, NotHeld DEF Holds
<1> QED
    BY <1>2, <1>3

\* A frame on the list is used by it.
LEMMA ListUses == ASSUME NEW s \in Seq(Frame), s # <<>> PROVE Uses(s, Head(s)) # 0
<1>1. DOMAIN s = 1..Len(s) /\ 1 \in DOMAIN s /\ s[1] = Head(s) /\ IsFiniteSet(DOMAIN s)
    <2>1. Len(s) \in Nat /\ Len(s) # 0 /\ DOMAIN s = 1..Len(s) /\ Head(s) = s[1]
        OBVIOUS
    <2> QED
        BY <2>1, FS_Interval
<1> QED
    BY <1>1, UsesNat

\* Contents that change behind none of the pages.
LEMMA OwnStays ==
    ASSUME NEW j, NEW entry, NEW space \in Space, NEW sh, NEW d, NEW d2, NEW f,
           \A g \in Frame : g # f => d2[g] = d[g], Unseen(j, space.ptes, f),
           Own(j, entry, space.ptes, sh, d)
    PROVE  Own(j, entry, space.ptes, sh, d2)
<1>1. \A i \in DOMAIN space.ptes : space.ptes[i].frame \in Frame
    BY PageFrames
<1> QED
    BY <1>1 DEF Own, Unseen

\* A frame that a call has nothing to do with may change.
LEMMA MadeStays ==
    ASSUME NEW j \in Job, NEW pt, NEW sh, NEW d, NEW d2, NEW f, j.at = "map" => j.mem \in Frame,
           \A g \in Frame : g # f => d2[g] = d[g], Unseen(j, pt, f), Made(j, pt, sh, d)
    PROVE  Made(j, pt, sh, d2)
<1>1. \A i \in DOMAIN j.space.ptes : j.space.ptes[i].frame \in Frame
    <2>1. j.space \in Space
        BY DEF Job
    <2> QED
        BY <2>1, PageFrames
<1> QED
    BY <1>1 DEF Made, Unseen

\* Nothing is behind a page but a frame.
LEMMA NoneUnseen == ASSUME Frames, NEW q \in Slot PROVE Unseen(job[q], pgdir[q].ptes, -1)
<1>1. job[q] \in Job /\ pgdir[q] \in Space /\ job[q].space \in Space /\ job[q].mem \in MaybeFrame
    BY DEF Frames, Types, Job
<1>2. \A f \in MaybeFrame : f # -1
    BY DEF MaybeFrame, Frame, NoFrame
<1>3. \A f \in Frame : f # -1
    BY DEF Frame
<1> QED
    BY <1>1, <1>2, <1>3, PageFrames DEF Unseen

\* A process that a step does not concern.
LEMMA OtherGood ==
    ASSUME Frames, Filled, NEW q \in Slot, job'[q] = job[q], pgdir'[q] = pgdir[q],
           shadow'[q] = shadow[q],
           proc'[q].state = "user" => proc[q].state = "user" /\ proc'[q].sz = proc[q].sz
                                        /\ proc'[q].guard = proc[q].guard,
           NEW f, \A g \in Frame : g # f => data'[g] = data[g], Unseen(job[q], pgdir[q].ptes, f)
    PROVE  Good(q)'
<1> SUFFICES ASSUME proc'[q].state = "user"
             PROVE  /\ Own(job[q], proc'[q], pgdir[q].ptes, shadow[q], data')
                    /\ Made(job[q], pgdir[q].ptes, shadow[q], data')
    BY DEF Good
<1>1. /\ Own(job[q], proc[q], pgdir[q].ptes, shadow[q], data)
      /\ Made(job[q], pgdir[q].ptes, shadow[q], data)
    BY DEF Filled, Good
<1>2. job[q] \in Job /\ pgdir[q] \in Space /\ (job[q].at = "map" => job[q].mem \in Frame)
    BY DEF Frames, Types, Calling, Shape, Job, MaybeFrame
<1>3. Own(job[q], proc[q], pgdir[q].ptes, shadow[q], data')
    BY <1>1, <1>2, OwnStays
<1>4. Own(job[q], proc'[q], pgdir[q].ptes, shadow[q], data')
    BY <1>3 DEF Own
<1>5. Made(job[q], pgdir[q].ptes, shadow[q], data')
    BY <1>1, <1>2, MadeStays
<1> QED
    BY <1>4, <1>5

\* A step in the middle of a call.
LEMMA CallFills ==
    ASSUME Frames, Filled, NEW p \in Slot, NEW k, job' = [job EXCEPT ![p] = k], k.op = job[p].op,
           UNCHANGED <<proc, pgdir, shadow>>,
           NEW f, \A g \in Frame : g # f => data'[g] = data[g],
           \A q \in Slot : Unseen(job[q], pgdir[q].ptes, f),
           Made(k, pgdir[p].ptes, shadow[p], data')
    PROVE  Filled'
<1>1. job \in [Slot -> Job] /\ pgdir[p] \in Space
    BY DEF Frames, Types
<1>2. ASSUME NEW q \in Slot, q # p PROVE Good(q)'
    BY <1>1, <1>2, OtherGood
<1>3. Good(p)'
    <2> SUFFICES ASSUME proc[p].state = "user"
                 PROVE  Own(k, proc[p], pgdir[p].ptes, shadow[p], data')
        BY <1>1 DEF Good
    <2>1. Own(job[p], proc[p], pgdir[p].ptes, shadow[p], data)
        BY DEF Filled, Good
    <2>2. Own(job[p], proc[p], pgdir[p].ptes, shadow[p], data')
        BY <1>1, <2>1, OwnStays
    <2> QED
        BY <2>2 DEF Own
<1> QED
    BY <1>2, <1>3 DEF Filled

\* The same without a change to any page.
LEMMA QuietCallFills ==
    ASSUME Frames, Filled, NEW p \in Slot, NEW k, job' = [job EXCEPT ![p] = k], k.op = job[p].op,
           UNCHANGED <<proc, pgdir, shadow, data>>, Made(k, pgdir[p].ptes, shadow[p], data)
    PROVE  Filled'
<1>1. \A q \in Slot : Unseen(job[q], pgdir[q].ptes, -1)
    BY NoneUnseen
<1>2. \A g \in Frame : g # -1 => data'[g] = data[g]
    OBVIOUS
<1> QED
    BY <1>1, <1>2, CallFills

\* What Made depends on.
LEMMA MadeSame ==
    ASSUME NEW j, NEW k, NEW pt, NEW sh, NEW d, Made(j, pt, sh, d), k.op = j.op,
           k.space.ptes = j.space.ptes, k.at = "map" => j.at = "map",
           k.mem = j.mem, k.page = j.page
    PROVE  Made(k, pt, sh, d)
BY DEF Made

\* Nothing has been made.
LEMMA NothingMade ==
    ASSUME NEW k, k.space.ptes = Empty, k.at # "map", NEW pt, NEW sh, NEW d
    PROVE  Made(k, pt, sh, d)
BY EmptyMap DEF Made

\* kfree()
LEMMA KfreeFills ==
    ASSUME Sane, Frames, Frames', Filled, NEW p \in Slot, NEW frame \in Frame, NEW rest,
           Kfree(p, frame, rest), proc[p].state = "user",
           rest.op = job[p].op, rest.at = job[p].at, rest.space = job[p].space,
           rest.mem = job[p].mem, rest.page = job[p].page
    PROVE  Filled'
<1>1. /\ job \in [Slot -> Job] /\ pgdir \in [Slot -> Space] /\ data \in [Frame -> Value]
      /\ freelist \in Seq(Frame)
    BY DEF Frames, Types
<1>2. /\ freelist' = <<frame>> \o freelist /\ job' = [job EXCEPT ![p] = rest]
      /\ UNCHANGED <<proc, pgdir, shadow>>
      /\ \A g \in Frame : g # frame => data'[g] = data[g]
    BY <1>1 DEF Kfree
<1>3. Uses(freelist', frame) # 0
    <2>1. freelist' \in Seq(Frame) /\ freelist' # <<>> /\ Head(freelist') = frame
        BY <1>1, <1>2
    <2>2. Uses(freelist', Head(freelist')) # 0
        BY <2>1, ListUses
    <2> QED
        BY <2>1, <2>2
<1>4. ASSUME NEW q \in Slot PROVE Unseen(job[q], pgdir[q].ptes, frame)
    <2>1. Unseen(job'[q], pgdir'[q].ptes, frame)
        BY <1>3, FreeUnseen
    <2>2. CASE q = p
        BY <1>1, <1>2, <2>1, <2>2 DEF Unseen
    <2>3. CASE q # p
        BY <1>1, <1>2, <2>1, <2>3
    <2> QED
        BY <2>2, <2>3
<1>5. Made(rest, pgdir[p].ptes, shadow[p], data')
    <2>1. Made(job[p], pgdir[p].ptes, shadow[p], data) /\ job[p] \in Job
        BY <1>1 DEF Filled, Good
    <2>2. job[p].at = "map" => job[p].mem \in Frame
        BY DEF Frames, Types, Calling, Shape, Job, MaybeFrame
    <2>3. Made(job[p], pgdir[p].ptes, shadow[p], data')
        BY <1>2, <1>4, <2>1, <2>2, MadeStays
    <2> QED
        BY <2>3, MadeSame
<1> QED
    BY <1>2, <1>4, <1>5, CallFills

\* The steps of kfree().
LEMMA FreeFills ==
    ASSUME Sane, Frames, Filled, NEW p \in Slot,
           FreeFirst(p) \/ FreePage(p) \/ FreeTable(p) \/ FreeDir(p) \/ FreeLast(p)
    PROVE  Filled'
<1> DEFINE j == job[p]
           i == Min(DOMAIN j.old.ptes)
           t == Min(DOMAIN j.old.tables)
<1>1. j \in Job /\ j.old \in Space
    BY DEF Frames, Types, Job
<1>2. Frames'
    BY FreeFirstKeeps, FreePageKeeps, FreeTableKeeps, FreeDirKeeps, FreeLastKeeps
<1>3. proc[p].state = "user"
    <2>1. ~Freed(j)
        BY <1>1, Nothing, EmptyMap
           DEF FreeFirst, FreePage, FreeTable, FreeDir, FreeLast, Freed, TablesLeft
    <2>2. Freed(Idle)
        BY DEF Freed, Idle
    <2> QED
        BY <2>1, <2>2 DEF Frames, Calling, Shape
<1>4. ASSUME NEW frame \in Frame, NEW rest, Kfree(p, frame, rest),
             rest.op = j.op, rest.at = j.at, rest.space = j.space, rest.mem = j.mem,
             rest.page = j.page
      PROVE  Filled'
    BY <1>2, <1>3, <1>4, KfreeFills
<1>5. ASSUME NEW x
      PROVE  LET ways == {[j EXCEPT !.first = x], [j EXCEPT !.old = x], [j EXCEPT !.last = x]} IN
             \A rest \in ways :
               /\ rest.op = j.op /\ rest.at = j.at /\ rest.space = j.space /\ rest.mem = j.mem
               /\ rest.page = j.page
    BY <1>1 DEF Job
<1>6. CASE FreeFirst(p)
    <2>1. Kfree(p, j.first, [j EXCEPT !.first = NoFrame]) /\ j.first \in Frame
        BY <1>1, <1>6 DEF FreeFirst, Job, MaybeFrame
    <2> QED
        BY <1>4, <1>5, <2>1
<1>7. CASE FreeLast(p)
    <2>1. Kfree(p, j.last, [j EXCEPT !.last = NoFrame]) /\ j.last \in Frame
        BY <1>1, <1>7 DEF FreeLast, Job, MaybeFrame
    <2> QED
        BY <1>4, <1>5, <2>1
<1>8. CASE FreeDir(p)
    <2>1. Kfree(p, j.old.dir, [j EXCEPT !.old = NoSpace]) /\ j.old.dir \in Frame
        BY <1>1, <1>8 DEF FreeDir, Space, MaybeFrame
    <2> QED
        BY <1>4, <1>5, <2>1
<1>9. CASE FreePage(p)
    <2> DEFINE less == [j.old EXCEPT !.ptes = Restrict(@, DOMAIN @ \ {i})]
    <2>1. DOMAIN j.old.ptes # {} /\ Kfree(p, j.old.ptes[i].frame, [j EXCEPT !.old = less])
        BY <1>1, <1>9 DEF FreePage, Job
    <2>2. i \in DOMAIN j.old.ptes
        BY <1>1, <2>1, Least, Maps DEF Space
    <2>3. j.old.ptes[i].frame \in Frame
        BY <1>1, <2>2, PageFrames
    <2> HIDE DEF less, j, i
    <2> QED
        BY <1>4, <1>5, <2>1, <2>3
<1>10. CASE FreeTable(p)
    <2> DEFINE less == [j.old EXCEPT !.tables = Restrict(@, DOMAIN @ \ {t})]
    <2>1. DOMAIN j.old.tables # {} /\ Kfree(p, j.old.tables[t], [j EXCEPT !.old = less])
        BY <1>1, <1>10 DEF FreeTable, TablesLeft, Job
    <2>2. t \in DOMAIN j.old.tables
        BY <1>1, <2>1, Least, Maps DEF Space
    <2>3. j.old.tables[t] \in Frame
        BY <1>1, <2>2, Maps DEF Space
    <2> HIDE DEF less, j, t
    <2> QED
        BY <1>4, <1>5, <2>1, <2>3
<1> QED
    BY <1>6, <1>7, <1>8, <1>9, <1>10

\* kalloc() in the middle of a call.
LEMMA KallocGives ==
    ASSUME Sane, Frames, NEW p \in Slot, NEW got, NEW contents, NEW without,
           Kalloc(p, got, contents, without)
    PROVE  \/ job' = [job EXCEPT ![p] = without] /\ data' = data
           \/ \E g \in Frame :
                /\ job' = [job EXCEPT ![p] = got[g]] /\ data'[g] = contents
                /\ \A f \in Frame : f # g => data'[f] = data[f]
                /\ \A q \in Slot : Unseen(job[q], pgdir[q].ptes, g)
<1>1. freelist \in Seq(Frame) /\ data \in [Frame -> Value]
    BY DEF Frames, Types
<1>2. CASE freelist = <<>>
    BY <1>2 DEF Kalloc
<1>3. CASE freelist # <<>>
    <2>1. PICK g \in Frame : g = Head(freelist) /\ Uses(freelist, g) # 0
        BY <1>1, <1>3, ListUses
    <2>2. job' = [job EXCEPT ![p] = got[g]] /\ data' = [data EXCEPT ![g] = contents]
        BY <1>3, <2>1 DEF Kalloc
    <2>3. \A q \in Slot : Unseen(job[q], pgdir[q].ptes, g)
        BY <2>1, FreeUnseen
    <2> QED
        BY <1>1, <2>2, <2>3
<1> QED
    BY <1>2, <1>3

\* A frame for something else than a page.
LEMMA TableFills ==
    ASSUME Sane, Frames, Filled, NEW p \in Slot, NEW got, NEW contents, NEW without,
           Kalloc(p, got, contents, without), UNCHANGED <<proc, pgdir, shadow>>,
           proc[p].state = "user",
           without.op = job[p].op, Made(without, pgdir[p].ptes, shadow[p], data),
           \A g \in Frame : /\ got[g].op = job[p].op /\ got[g].space.ptes = job[p].space.ptes
                            /\ got[g].at = "map" => job[p].at = "map"
                            /\ got[g].mem = job[p].mem /\ got[g].page = job[p].page
    PROVE  Filled'
<1>1. CASE job' = [job EXCEPT ![p] = without] /\ data' = data
    BY <1>1, QuietCallFills
<1>2. CASE ~(job' = [job EXCEPT ![p] = without] /\ data' = data)
    <2>1. PICK g \in Frame :
            /\ job' = [job EXCEPT ![p] = got[g]] /\ data'[g] = contents
            /\ \A f \in Frame : f # g => data'[f] = data[f]
            /\ \A q \in Slot : Unseen(job[q], pgdir[q].ptes, g)
        BY <1>2, KallocGives
    <2>2. Made(job[p], pgdir[p].ptes, shadow[p], data) /\ job[p] \in Job
        BY DEF Filled, Good, Frames, Types
    <2>3. job[p].at = "map" => job[p].mem \in Frame
        BY DEF Frames, Types, Calling, Shape, Job, MaybeFrame
    <2>4. Made(job[p], pgdir[p].ptes, shadow[p], data')
        BY <2>1, <2>2, <2>3, MadeStays
    <2>5. Made(got[g], pgdir[p].ptes, shadow[p], data')
        BY <2>4, MadeSame
    <2> QED
        BY <2>1, <2>5, CallFills
<1> QED
    BY <1>1, <1>2

\* The pages that deallocuvm() leaves are what they were.
LEMMA KeptPages ==
    ASSUME NEW space \in Space, NEW a, NEW b
    PROVE  \A i \in DOMAIN Kept(space, a, b).ptes :
             i \in DOMAIN space.ptes /\ Kept(space, a, b).ptes[i] = space.ptes[i]
<1> DEFINE pt == space.ptes
           E == DOMAIN pt \ Leaving(space, a, b)
<1>1. Kept(space, a, b).ptes = Restrict(pt, E) /\ pt \in Map(Pte) /\ E \subseteq DOMAIN pt
    BY DEF Kept, Space
<1> HIDE DEF pt, E
<1>2. DOMAIN Restrict(pt, E) = E /\ \A x \in E : Restrict(pt, E)[x] = pt[x]
    BY <1>1, RestrictMap
<1> QED
    BY <1>1, <1>2 DEF pt

\* A call that fails has nothing left to show, but for sbrk(), which has what it had.
LEMMA BadMade ==
    ASSUME NEW j \in Job, NEW pt, NEW sh, NEW d
    PROVE  Bad(j).op = j.op /\ Made(Bad(j), pt, sh, d)
<1>1. Bad(j).op = j.op /\ Bad(j).at = "fail" /\ Bad(j).space = NoSpace
    BY DEF Bad, Job
<1> QED
    BY <1>1, Nothing, NothingMade

\* A call that finds no frame keeps only what was there before it.
LEMMA ShortMade ==
    ASSUME NEW j \in Job, NEW p, NEW pt, NEW sh, NEW d, Made(j, pt, sh, d)
    PROVE  Short(j, p).op = j.op /\ Made(Short(j, p), pt, sh, d)
<1>1. CASE j.op = "sbrk"
    <2> DEFINE keep == Kept(j.space, j.limit, proc[p].sz)
               u == Undo(j, proc[p].sz)
    <2>1. u.op = j.op /\ u.at = "resized" /\ u.space = keep
        BY DEF Undo, Job
    <2>2. \A i \in DOMAIN keep.ptes : i \in DOMAIN j.space.ptes /\ keep.ptes[i] = j.space.ptes[i]
        BY KeptPages DEF Job
    <2> HIDE DEF keep, u
    <2>3. Made(u, pt, sh, d)
        BY <2>1, <2>2 DEF Made
    <2> QED
        BY <1>1, <2>1, <2>3 DEF Short, u
<1>2. CASE j.op # "sbrk"
    BY <1>2, BadMade DEF Short
<1> QED
    BY <1>1, <1>2

\* A call that is somewhere is one of a process.
LEMMA Somewhere ==
    ASSUME Frames, NEW p \in Slot, job[p].at # "none"
    PROVE  job[p] \in Job /\ job[p].op # "none" /\ proc[p].state = "user"
<1>1. job[p] \in Job /\ Calling(p)
    BY DEF Frames, Types
<1>2. job[p].op # "none"
    BY <1>1, IdleHand DEF Calling, Shape
<1> QED
    BY <1>1, <1>2 DEF Calling

\* The kernel stack, and the kernel's part of an address space.
LEMMA KernelStackFills == ASSUME Sane, Frames, Filled, NEW p \in Slot, KernelStack(p) PROVE Filled'
<1> DEFINE j == job[p]
           got == [f \in Frame |-> [j EXCEPT !.kstack = f, !.at = "dir"]]
<1>1. j.at = "kstack" /\ j \in Job /\ proc[p].state = "user"
    BY Somewhere DEF KernelStack, At
<1>2. Kalloc(p, got, "kstack", Bad(j)) /\ UNCHANGED <<proc, pgdir, shadow>>
    BY DEF KernelStack
<1>3. Bad(j).op = j.op /\ Made(Bad(j), pgdir[p].ptes, shadow[p], data)
    BY <1>1, BadMade
<1>4. \A g \in Frame : /\ got[g].op = j.op /\ got[g].space.ptes = j.space.ptes
                       /\ got[g].at = "map" => j.at = "map"
                       /\ got[g].mem = j.mem /\ got[g].page = j.page
    BY <1>1 DEF Job
<1> HIDE DEF got
<1> QED
    BY <1>1, <1>2, <1>3, <1>4, TableFills

\* setupkvm() takes free frames for the directory and its tables.
LEMMA SetupkvmFills == ASSUME Sane, Frames, Filled, NEW p \in Slot, Setupkvm(p) PROVE Filled'
<1> DEFINE j == job[p]
           missing == KernelTables \ DOMAIN j.space.tables
           got1 == [f \in Frame |-> [j EXCEPT !.space.dir = f]]
           got2 == [f \in Frame |-> [j EXCEPT !.space.tables = With(@, Min(missing), f),
                                       !.at = IF missing = {Min(missing)} THEN "mem" ELSE "dir"]]
<1>1. j.at = "dir" /\ j \in Job /\ j.space \in Space /\ proc[p].state = "user"
    BY Somewhere DEF Setupkvm, At, Job
<1>2. PICK got \in {got1, got2} :
        Kalloc(p, got, "table", Bad(j)) /\ UNCHANGED <<proc, pgdir, shadow>>
    BY DEF Setupkvm
<1>3. Bad(j).op = j.op /\ Made(Bad(j), pgdir[p].ptes, shadow[p], data)
    BY <1>1, BadMade
<1>4. \A g \in Frame : /\ got1[g].op = j.op /\ got1[g].space.ptes = j.space.ptes
                       /\ got1[g].at = "dir" /\ got1[g].mem = j.mem /\ got1[g].page = j.page
    BY <1>1 DEF Job, Space
<1>5. \A g \in Frame : /\ got2[g].op = j.op /\ got2[g].space.ptes = j.space.ptes
                       /\ got2[g].at # "map" /\ got2[g].mem = j.mem /\ got2[g].page = j.page
    BY <1>1 DEF Job, Space
<1> HIDE DEF got1, got2
<1>6. \A g \in Frame : /\ got[g].op = j.op /\ got[g].space.ptes = j.space.ptes
                       /\ got[g].at = "map" => j.at = "map"
                       /\ got[g].mem = j.mem /\ got[g].page = j.page
    BY <1>2, <1>4, <1>5
<1> QED
    BY <1>1, <1>2, <1>3, <1>6, TableFills

\* The contents and the access of a new page.
LEMMA PageMeant ==
    ASSUME Sane, Frames, Filled, NEW p \in Slot, job[p].at \in {"mem", "map"},
           job[p].page < PageUp(job[p].limit)
    PROVE  /\ Contents(p, job[p]) = MeantValue(job[p].op, shadow[p], job[p].page)
           /\ UserBit(p, job[p]) = MeantUser(job[p].op, pgdir[p].ptes, job[p].page)
<1> DEFINE j == job[p]
<1>1. j \in Job /\ Calling(p) /\ proc[p].state = "user" /\ proc[p].sz \in Nat
      /\ Own(j, proc[p], pgdir[p].ptes, shadow[p], data)
    BY Somewhere DEF Frames, Types, Process, Filled, Good
<1>2. j.op \in {"sbrk", "fork", "exec"} /\ j.page \in Nat
    BY <1>1 DEF Calling, Shape, Idle, Job
<1>3. DOMAIN shadow[p] = DOMAIN pgdir[p].ptes
    BY <1>1 DEF Own
<1>4. CASE j.op = "fork"
    <2>1. j.page \in DOMAIN pgdir[p].ptes
        BY <1>4, PageThere
    <2>2. data[pgdir[p].ptes[j.page].frame] = shadow[p][j.page]
        BY <1>1, <1>4, <2>1 DEF Own
    <2> QED
        BY <1>3, <1>4, <2>1, <2>2 DEF Contents, UserBit, MeantValue, MeantUser
<1>5. CASE j.op = "exec"
    BY <1>5 DEF Contents, UserBit, MeantValue, MeantUser
<1>6. CASE j.op = "sbrk"
    <2>1. PageUp(proc[p].sz) <= j.page /\ PageUp(proc[p].sz) \in Nat
        BY <1>1, <1>6, PagesBelow DEF Calling, Sized
    <2>2. j.page \notin DOMAIN pgdir[p].ptes
        BY <1>1, <1>2, <2>1 DEF Own, Below
    <2> QED
        BY <1>3, <1>6, <2>2 DEF Contents, UserBit, MeantValue, MeantUser
<1> QED
    BY <1>2, <1>4, <1>5, <1>6

\* A frame for a page.
LEMMA AllocPageFills == ASSUME Sane, Frames, Filled, NEW p \in Slot, AllocPage(p) PROVE Filled'
<1> DEFINE j == job[p]
           pt == pgdir[p].ptes
           sh == shadow[p]
           got == [f \in Frame |-> [j EXCEPT !.mem = f, !.at = "map"]]
<1>1. j.at = "mem" /\ j \in Job /\ proc[p].state = "user" /\ More(p) /\ Calling(p)
    BY Somewhere DEF AllocPage, At, Frames
<1>2. j.page < PageUp(j.limit)
    BY <1>1, PagesBelow DEF More, Job
<1>3. UNCHANGED <<proc, pgdir, shadow>> /\ Made(j, pt, sh, data)
    BY <1>1 DEF AllocPage, Filled, Good
<1>4. CASE CopyPanics(p)
    <2>1. job' = [job EXCEPT ![p] = j] /\ data' = data
        BY <1>4 DEF AllocPage, NothingFreed, Frames, Types
    <2> QED
        BY <1>3, <2>1, QuietCallFills
<1>5. CASE ~CopyPanics(p)
    <2>1. Kalloc(p, got, Contents(p, j), Short(j, p))
        BY <1>5 DEF AllocPage
    <2> HIDE DEF got
    <2>2. CASE job' = [job EXCEPT ![p] = Short(j, p)] /\ data' = data
        BY <1>1, <1>3, <2>2, ShortMade, QuietCallFills
    <2>3. CASE ~(job' = [job EXCEPT ![p] = Short(j, p)] /\ data' = data)
        <3>1. PICK g \in Frame :
                /\ job' = [job EXCEPT ![p] = got[g]] /\ data'[g] = Contents(p, j)
                /\ \A f \in Frame : f # g => data'[f] = data[f]
                /\ \A q \in Slot : Unseen(job[q], pgdir[q].ptes, g)
            BY <2>1, <2>3, KallocGives
        <3> DEFINE k == got[g]
        <3>2. /\ k.op = j.op /\ k.space = j.space /\ k.mem = g /\ k.at = "map" /\ k.page = j.page
            BY <1>1 DEF Job, got
        <3> HIDE DEF k
        <3>3. Made(j, pt, sh, data')
            BY <1>1, <1>3, <3>1, MadeStays
        <3>4. data'[g] = MeantValue(j.op, sh, j.page)
            BY <1>1, <1>2, <3>1, PageMeant
        <3>5. Made(k, pt, sh, data')
            BY <3>2, <3>3, <3>4 DEF Made
        <3> QED
            BY <1>3, <3>1, <3>2, <3>5, CallFills DEF k
    <2> QED
        BY <2>2, <2>3
<1> QED
    BY <1>4, <1>5

\* mappages()
LEMMA MapPageFills == ASSUME Sane, Frames, Filled, NEW p \in Slot, MapPage(p) PROVE Filled'
<1> DEFINE j == job[p]
           pt == pgdir[p].ptes
           sh == shadow[p]
           t == TableOf(j.page)
<1>1. j.at = "map" /\ j \in Job /\ j.space \in Space /\ proc[p].state = "user" /\ Calling(p)
    BY Somewhere DEF MapPage, At, Frames, Job
<1>2. j.page < PageUp(j.limit)
    BY <1>1 DEF Calling, Built
<1>3. UNCHANGED <<proc, pgdir, shadow>> /\ Made(j, pt, sh, data)
    BY <1>1 DEF MapPage, Filled, Good
<1>4. CASE t \in DOMAIN j.space.tables
    <2> DEFINE e == [frame |-> j.mem, user |-> UserBit(p, j)]
               all == With(j.space.ptes, j.page, e)
               k == [j EXCEPT !.at = "mem", !.mem = NoFrame, !.page = @ + 1, !.space.ptes = all]
    <2>1. job' = [job EXCEPT ![p] = k] /\ data' = data
        BY <1>1, <1>4, Zenon DEF MapPage, NothingFreed, Job, Space
    <2>2. k.op = j.op /\ k.space.ptes = all /\ k.at = "mem"
        BY <1>1 DEF Job, Space
    <2>3. /\ DOMAIN all = DOMAIN j.space.ptes \cup {j.page} /\ all[j.page] = e
          /\ \A i \in DOMAIN j.space.ptes : i # j.page => all[i] = j.space.ptes[i]
        BY DEF With
    <2>4. e.frame = j.mem /\ data[j.mem] = MeantValue(j.op, sh, j.page)
        BY <1>1, <1>3 DEF Made
    <2>5. e.user = MeantUser(j.op, pt, j.page)
        BY <1>1, <1>2, PageMeant
    <2> HIDE DEF e, all, k
    <2>6. Made(k, pt, sh, data)
        BY <1>3, <2>2, <2>3, <2>4, <2>5 DEF Made
    <2> QED
        BY <1>3, <2>1, <2>2, <2>6, QuietCallFills
<1>5. CASE t \notin DOMAIN j.space.tables
    <2> DEFINE got == [f \in Frame |-> [j EXCEPT !.space.tables = With(@, t, f)]]
    <2>1. Kalloc(p, got, "table", Short(j, p))
        BY <1>5 DEF MapPage
    <2>2. \A g \in Frame : /\ got[g].op = j.op /\ got[g].space.ptes = j.space.ptes
                           /\ got[g].at = "map" => j.at = "map"
                           /\ got[g].mem = j.mem /\ got[g].page = j.page
        BY <1>1 DEF Job, Space
    <2>3. Short(j, p).op = j.op /\ Made(Short(j, p), pt, sh, data)
        BY <1>1, <1>3, ShortMade
    <2> HIDE DEF got
    <2> QED
        BY <1>1, <1>3, <2>1, <2>2, <2>3, TableFills
<1> QED
    BY <1>4, <1>5

\* The end of the loop.
LEMMA GrownFills == ASSUME Sane, Frames, Filled, NEW p \in Slot, Grown(p) PROVE Filled'
<1> DEFINE k == [job[p] EXCEPT !.at = "resized"]
<1>1. job[p] \in Job /\ proc[p].state = "user" /\ job \in [Slot -> Job]
    BY Somewhere DEF Grown, At, Frames, Types
<1>2. job' = [job EXCEPT ![p] = k] /\ UNCHANGED <<proc, pgdir, shadow, data>>
    BY <1>1 DEF Grown, NothingFreed
<1>3. k.op = job[p].op /\ k.space = job[p].space /\ k.at # "map"
    BY <1>1 DEF Job
<1>4. Made(job[p], pgdir[p].ptes, shadow[p], data)
    BY <1>1 DEF Filled, Good
<1> HIDE DEF k
<1>5. Made(k, pgdir[p].ptes, shadow[p], data)
    BY <1>3, <1>4 DEF Made
<1> QED
    BY <1>2, <1>3, <1>5, QuietCallFills

\* A process whose memory a step leaves alone; it may enter or leave a call.
Alone(q) ==
    proc'[q].state = "user" =>
        /\ proc[q].state = "user" /\ proc'[q].sz = proc[q].sz /\ proc'[q].guard = proc[q].guard
        /\ pgdir'[q] = pgdir[q] /\ shadow'[q] = shadow[q]
        /\ \/ job'[q] = job[q]
           \/ /\ job[q].op # "sbrk" /\ job'[q].op # "sbrk"
              /\ job'[q].space.ptes = Empty /\ job'[q].at # "map"

\* A process that a step leaves alone keeps its contents.
LEMMA AloneGood == ASSUME Filled, UNCHANGED data, NEW q \in Slot, Alone(q) PROVE Good(q)'
<1> SUFFICES ASSUME proc'[q].state = "user"
             PROVE  /\ Own(job'[q], proc'[q], pgdir[q].ptes, shadow[q], data)
                    /\ Made(job'[q], pgdir[q].ptes, shadow[q], data)
    BY DEF Alone, Good
<1>1. /\ Own(job[q], proc[q], pgdir[q].ptes, shadow[q], data)
      /\ Made(job[q], pgdir[q].ptes, shadow[q], data)
    BY DEF Filled, Good, Alone
<1>2. proc'[q].sz = proc[q].sz /\ proc'[q].guard = proc[q].guard
    BY DEF Alone
<1>3. CASE job'[q] = job[q]
    BY <1>1, <1>2, <1>3 DEF Own
<1>4. CASE /\ job[q].op # "sbrk" /\ job'[q].op # "sbrk"
           /\ job'[q].space.ptes = Empty /\ job'[q].at # "map"
    BY <1>1, <1>2, <1>4, NothingMade DEF Own
<1> QED
    BY <1>3, <1>4 DEF Alone

\* Entering and leaving a call that has made nothing.
LEMMA EnterLeave ==
    ASSUME Filled, UNCHANGED data, NEW p \in Slot, job \in [Slot -> Job],
           NEW k, job' = [job EXCEPT ![p] = k], k.op # "sbrk", k.at # "map", k.space = NoSpace,
           job[p].op # "sbrk",
           \A q \in Slot : proc'[q].state = "user" =>
             /\ proc[q].state = "user" /\ proc'[q].sz = proc[q].sz
             /\ proc'[q].guard = proc[q].guard
             /\ pgdir'[q] = pgdir[q] /\ shadow'[q] = shadow[q]
    PROVE  Filled'
<1>1. ASSUME NEW q \in Slot PROVE Alone(q)
    BY Nothing DEF Alone
<1> QED
    BY <1>1, AloneGood DEF Filled

\* A call fails, or returns.
LEMMA FailFills == ASSUME Sane, Frames, Filled, NEW p \in Slot, Fail(p) \/ Done(p) PROVE Filled'
<1>1. job \in [Slot -> Job] /\ proc \in [Slot -> Process] /\ job[p].at \in {"fail", "done"}
      /\ Calling(p)
    BY DEF Frames, Types, Fail, Done, At
<1>2. job[p].op # "sbrk" /\ proc[p].state = "user"
    BY <1>1, Somewhere DEF Calling, Shape
<1>3. /\ job' = [job EXCEPT ![p] = Idle] /\ UNCHANGED <<data, pgdir, shadow>>
      /\ \E v : proc' = [q \in Slot |-> IF q = p THEN [proc[p] EXCEPT !.ret = v]
                                        ELSE IF q = job[p].child THEN Unused ELSE proc[q]]
    BY DEF Fail, Done, Finish, NothingFreed
<1>4. Idle.op = "none" /\ Idle.at = "none" /\ Idle.space = NoSpace /\ Unused.state = "UNUSED"
    BY DEF Idle, Unused
<1>5. ASSUME NEW q \in Slot, proc'[q].state = "user"
      PROVE  /\ proc[q].state = "user" /\ proc'[q].sz = proc[q].sz /\ proc'[q].guard = proc[q].guard
             /\ pgdir'[q] = pgdir[q] /\ shadow'[q] = shadow[q]
    <2>1. PICK v : proc'[q] = IF q = p THEN [proc[p] EXCEPT !.ret = v]
                              ELSE IF q = job[p].child THEN Unused ELSE proc[q]
        BY <1>3
    <2>2. CASE q = p
        BY <1>1, <1>2, <1>3, <2>1, <2>2 DEF Process
    <2>3. CASE q # p
        BY <1>3, <1>4, <1>5, <2>1, <2>3
    <2> QED
        BY <2>2, <2>3
<1> QED
    BY <1>1, <1>2, <1>3, <1>4, <1>5, EnterLeave

\* Steps that change no page, and no call: only what is known of a process.
LEMMA ProcessFills ==
    ASSUME Filled, UNCHANGED <<data, job>>,
           \A q \in Slot : proc'[q].state = "user" =>
             /\ proc[q].state = "user" /\ proc'[q].sz = proc[q].sz
             /\ proc'[q].guard = proc[q].guard
             /\ pgdir'[q] = pgdir[q] /\ shadow'[q] = shadow[q]
    PROVE  Filled'
<1>1. ASSUME NEW q \in Slot PROVE Alone(q)
    BY DEF Alone
<1> QED
    BY <1>1, AloneGood DEF Filled

\* A call that returns at once.
LEMMA ReturnFills ==
    ASSUME Frames, Filled, NEW p \in Slot, NEW v, proc' = Return(p, v),
           UNCHANGED <<data, job, pgdir, shadow>>
    PROVE  Filled'
<1>1. proc \in [Slot -> Process]
    BY DEF Frames, Types
<1>2. ASSUME NEW q \in Slot
      PROVE  proc'[q].state = proc[q].state /\ proc'[q].sz = proc[q].sz
             /\ proc'[q].guard = proc[q].guard
    BY <1>1 DEF Return, Process
<1> QED
    BY <1>2, ProcessFills

\* exit()
LEMMA ExitFills == ASSUME Frames, Filled, NEW p \in Slot, Exit(p) PROVE Filled'
<1>1. proc \in [Slot -> Process]
    BY DEF Frames, Types
<1>2. ASSUME NEW q \in Slot
      PROVE  /\ proc'[q].state \in {proc[q].state, "zombie"} /\ proc'[q].sz = proc[q].sz
             /\ proc'[q].guard = proc[q].guard
    BY <1>1 DEF Exit, Process
<1>3. UNCHANGED <<data, job, pgdir, shadow>>
    BY DEF Exit, NothingFreed
<1> QED
    BY <1>2, <1>3, ProcessFills

\* kill()
LEMMA KillFills == ASSUME Frames, Filled, NEW p \in Slot, NEW r, Kill(p, r) PROVE Filled'
<1>1. proc \in [Slot -> Process]
    BY DEF Frames, Types
<1>2. ASSUME NEW q \in Slot
      PROVE  proc'[q].state = proc[q].state /\ proc'[q].sz = proc[q].sz
             /\ proc'[q].guard = proc[q].guard
    BY <1>1 DEF Kill, Process
<1>3. UNCHANGED <<data, job, pgdir, shadow>>
    BY DEF Kill, NothingFreed
<1> QED
    BY <1>2, <1>3, ProcessFills

\* A load, and the fetching of an argument.
LEMMA LoadFills ==
    ASSUME Frames, Filled, NEW p \in Slot, NEW a, Load(p, a) \/ Fetch(p, a)
    PROVE  Filled'
<1>1. CASE Fetch(p, a)
    <2>1. proc' = Return(p, IF a >= proc[p].sz THEN -1 ELSE OK)
          /\ UNCHANGED <<data, job, pgdir, shadow>>
        BY <1>1 DEF Fetch, NothingFreed
    <2> QED
        BY <2>1, ReturnFills
<1>2. CASE Load(p, a) /\ Accessible(p, a)
    <2>1. proc' = Return(p, data[pgdir[p].ptes[PageOf(a)].frame])
          /\ UNCHANGED <<data, job, pgdir, shadow>>
        BY <1>2 DEF Load, NothingFreed
    <2> QED
        BY <2>1, ReturnFills
<1>3. CASE Load(p, a) /\ ~Accessible(p, a)
    BY <1>3, ExitFills DEF Load
<1> QED
    BY <1>1, <1>2, <1>3

\* wait(), fork() and exec() begin.
LEMMA WaitFills == ASSUME Sane, Frames, Filled, NEW p \in Slot, InUser(p), Wait(p) PROVE Filled'
<1> DEFINE zombies == {q \in Children(p) : proc[q].state = "zombie"}
<1>0. PICK c : c = Min(zombies)
    OBVIOUS
<1> DEFINE j == [Idle EXCEPT !.op = "wait", !.at = "done", !.child = c, !.value = c,
                             !.first = proc[c].kstack, !.old = pgdir[c]]
<1>1. job \in [Slot -> Job] /\ proc \in [Slot -> Process] /\ job[p].op = "none"
      /\ pgdir \in [Slot -> Space] /\ shadow \in [Slot -> Map(Value)] /\ data' = data
    BY DEF Frames, Types, InUser, Wait, NothingFreed
<1>2. CASE proc' = Return(p, -1) /\ UNCHANGED <<pgdir, job, shadow>>
    BY <1>1, <1>2, ReturnFills
<1>3. CASE /\ zombies # {} /\ Enter(p, j) /\ proc' = [proc EXCEPT ![c].kstack = NoFrame]
           /\ pgdir' = [pgdir EXCEPT ![c] = NoSpace] /\ shadow' = [shadow EXCEPT ![c] = Empty]
    <2>1. proc[c].state = "zombie" /\ c \in Slot
        <3>1. zombies \in SUBSET Nat
            BY DEF Sane, Children
        <3> HIDE DEF zombies
        <3>2. c \in zombies
            BY <1>0, <1>3, <3>1, Least
        <3> QED
            BY <3>2 DEF zombies, Children
    <2>2. j.op = "wait" /\ j.at = "done" /\ j.space = NoSpace
        BY DEF Idle
    <2>3. job' = [job EXCEPT ![p] = j]
        BY <1>3 DEF Enter
    <2> HIDE DEF j, zombies
    <2>4. ASSUME NEW q \in Slot, proc'[q].state = "user"
          PROVE  /\ proc[q].state = "user" /\ proc'[q].sz = proc[q].sz
                 /\ proc'[q].guard = proc[q].guard
                 /\ pgdir'[q] = pgdir[q] /\ shadow'[q] = shadow[q]
        <3>1. proc'[c].state = "zombie"
            BY <1>1, <1>3, <2>1 DEF Process
        <3>2. q # c
            BY <2>4, <3>1
        <3> QED
            BY <1>1, <1>3, <2>4, <3>2
    <2> QED
        BY <1>1, <2>2, <2>3, <2>4, EnterLeave
<1> QED
    BY <1>0, <1>2, <1>3 DEF Wait

\* fork() starts with an empty space for the child.
LEMMA ForkFills == ASSUME Frames, Filled, NEW p \in Slot, InUser(p), Fork(p) PROVE Filled'
<1> DEFINE c == Min({q \in Slot : proc[q].state = "UNUSED"})
           j == [Idle EXCEPT !.op = "fork", !.at = "kstack", !.child = c, !.limit = proc[p].sz]
<1>1. job \in [Slot -> Job] /\ proc \in [Slot -> Process] /\ job[p].op = "none"
      /\ UNCHANGED <<data, pgdir, shadow>>
    BY DEF Frames, Types, InUser, Fork, NothingFreed
<1>2. CASE proc' = Return(p, -1) /\ UNCHANGED job
    BY <1>1, <1>2, ReturnFills
<1>3. CASE proc' = [proc EXCEPT ![c].state = "EMBRYO"] /\ job' = [job EXCEPT ![p] = j]
    <2>1. j.op = "fork" /\ j.at = "kstack" /\ j.space = NoSpace
        BY DEF Idle
    <2> HIDE DEF c, j
    <2>2. ASSUME NEW q \in Slot, proc'[q].state = "user"
          PROVE  /\ proc[q].state = "user" /\ proc'[q].sz = proc[q].sz
                 /\ proc'[q].guard = proc[q].guard
                 /\ pgdir'[q] = pgdir[q] /\ shadow'[q] = shadow[q]
        BY <1>1, <1>3, <2>2 DEF Process
    <2> QED
        BY <1>1, <1>3, <2>1, <2>2, EnterLeave
<1> QED
    BY <1>2, <1>3 DEF Fork, Enter

\* exec() starts with an empty space.
LEMMA ExecFills ==
    ASSUME Frames, Filled, NEW p \in Slot, InUser(p), NEW args, Exec(p, args)
    PROVE  Filled'
<1> DEFINE j == [Idle EXCEPT !.op = "exec", !.at = "dir", !.limit = ImageSize, !.value = args]
<1>1. job \in [Slot -> Job] /\ job[p].op = "none" /\ UNCHANGED <<data, proc, pgdir, shadow>>
      /\ job' = [job EXCEPT ![p] = j]
    BY DEF Frames, Types, InUser, Exec, Enter, NothingFreed
<1>2. j.op = "exec" /\ j.at = "dir" /\ j.space = NoSpace
    BY DEF Idle
<1> HIDE DEF j
<1> QED
    BY <1>1, <1>2, EnterLeave

\* exec() commits to the new image, or fails.
LEMMA LoadedFills == ASSUME Sane, Frames, Filled, NEW p \in Slot, Loaded(p) PROVE Filled'
<1> DEFINE j == job[p]
           k == [Idle EXCEPT !.op = "exec", !.at = "done", !.old = pgdir[p]]
<1>1. /\ j \in Job /\ j.op = "exec" /\ j.at = "mem" /\ ~More(p) /\ proc[p].state = "user"
      /\ Calling(p) /\ job \in [Slot -> Job] /\ proc \in [Slot -> Process]
      /\ pgdir \in [Slot -> Space] /\ shadow \in [Slot -> Map(Value)] /\ data' = data
    BY Somewhere DEF Frames, Types, Loaded, At, NothingFreed
<1>2. Made(j, pgdir[p].ptes, shadow[p], data)
    BY <1>1 DEF Filled, Good
<1>3. CASE job' = [job EXCEPT ![p] = Bad(j)] /\ UNCHANGED <<proc, pgdir, shadow>>
    BY <1>1, <1>3, BadMade, QuietCallFills
<1>4. CASE /\ pgdir' = [pgdir EXCEPT ![p] = j.space]
           /\ proc' = [proc EXCEPT ![p].sz = j.limit, ![p].guard = Len(Image)]
           /\ shadow' = [shadow EXCEPT ![p] = ImageData] /\ job' = [job EXCEPT ![p] = k]
    <2>1. k.op = "exec" /\ k.at = "done" /\ k.space = NoSpace
        BY DEF Idle
    <2>2. Len(Image) \in Nat /\ ImagePages = Len(Image) + 2 /\ ImagePages \in Nat
        BY DEF Sane, ImagePages
    <2>3. DOMAIN j.space.ptes = 0..(ImagePages - 1) /\ Below(j.limit) = 0..(ImagePages - 1)
        <3>1. j.page \in Nat /\ DOMAIN j.space.ptes = 0..(j.page - 1) /\ j.page <= PageUp(j.limit)
              /\ j.limit = ImageSize /\ j.limit \in Nat
            BY <1>1 DEF Calling, Built, Sized, Job
        <3>2. PageUp(j.limit) = ImagePages
            BY <2>2, <3>1, PageUps DEF ImageSize
        <3>3. ~(j.page < PageUp(j.limit))
            BY <1>1, <3>1, PagesBelow DEF More
        <3>4. j.page = ImagePages
            BY <2>2, <3>1, <3>2, <3>3
        <3> QED
            BY <3>1, <3>2, <3>4 DEF Below
    <2>4. DOMAIN ImageData = 0..(ImagePages - 1)
        BY DEF ImageData
    <2> HIDE DEF k
    <2>5. proc'[p].sz = j.limit /\ proc'[p].guard = Len(Image) /\ pgdir'[p] = j.space
          /\ shadow'[p] = ImageData /\ job'[p] = k
        BY <1>1, <1>4 DEF Process
    <2>6. Own(k, proc'[p], j.space.ptes, ImageData, data)
        <3>1. \A i \in DOMAIN j.space.ptes : data[j.space.ptes[i].frame] = ImageData[i]
            BY <1>1, <1>2 DEF Made, MeantValue
        <3>2. Len(Image) \in 0..(ImagePages - 1)
            BY <2>2
        <3>3. ~j.space.ptes[Len(Image)].user
            <4>1. j.space.ptes[Len(Image)].user = MeantUser(j.op, pgdir[p].ptes, Len(Image))
                BY <1>2, <2>3, <3>2 DEF Made
            <4> QED
                BY <1>1, <4>1 DEF MeantUser
        <3> QED
            BY <2>3, <2>4, <2>5, <3>1, <3>2, <3>3 DEF Own
    <2>7. Good(p)'
        BY <1>1, <2>1, <2>5, <2>6, Nothing, NothingMade DEF Good
    <2>8. ASSUME NEW q \in Slot, q # p PROVE Good(q)'
        BY <1>1, <1>4, <2>8, NoneUnseen, OtherGood
    <2> QED
        BY <2>7, <2>8 DEF Filled
<1> QED
    BY <1>3, <1>4 DEF Loaded, Enter

\* A page of a process is one page, and of that process only.
LEMMA OwnedOnce ==
    ASSUME Sane, Frames, NEW p \in Slot, InUser(p), NEW i \in DOMAIN pgdir[p].ptes
    PROVE  LET g == pgdir[p].ptes[i].frame IN
           /\ g \in Frame
           /\ \A x \in DOMAIN pgdir[p].ptes : pgdir[p].ptes[x].frame = g => x = i
           /\ \A q \in Slot \ {p} : Unseen(job[q], pgdir[q].ptes, g)
<1> DEFINE g == pgdir[p].ptes[i].frame
           fr == FramesOf(pgdir[p].ptes)
<1>1. pgdir[p] \in Space /\ job[p] = Idle /\ job[p] \in Job
    BY Running DEF Frames, Types
<1>2. g \in Frame
    BY <1>1, PageFrames
<1>3. fr \in Map(Frame) /\ DOMAIN fr = DOMAIN pgdir[p].ptes
      /\ \A x \in DOMAIN fr : fr[x] = pgdir[p].ptes[x].frame
    BY <1>1, Framed DEF Space
<1>4. IsFiniteSet(DOMAIN fr)
    BY <1>3, Maps
<1>5. Uses(fr, g) \in Nat /\ Uses(fr, g) # 0
    BY <1>3, <1>4, UsesNat
<1>6. Has(p, g) \in Nat /\ Uses(fr, g) <= Has(p, g)
    <2>1. Hits(pgdir[p].dir, g) \in Nat /\ Uses(pgdir[p].tables, g) \in Nat
        BY <1>1, InSpaceNat
    <2>2. InSpace(pgdir[p], g) \in Nat /\ Uses(fr, g) <= InSpace(pgdir[p], g)
        BY <1>5, <2>1 DEF InSpace
    <2>3. InHand(job[p], g) \in Nat /\ Hits(proc[p].kstack, g) \in Nat
        BY <1>1, InHandNat DEF Hits
    <2>4. Has(p, g) = Hits(proc[p].kstack, g) + InHand(job[p], g) + InSpace(pgdir[p], g)
        BY <1>1, IdleHand DEF Has, Holds, Sane, NoSlot
    <2> HIDE DEF fr, g
    <2> QED
        BY <1>5, <2>2, <2>3, <2>4
<1>7. p \in Owner
    BY DEF Owner
<1>8. PICK owner \in Owner : Has(owner, g) = 1 /\ \A other \in Owner \ {owner} : Has(other, g) = 0
    BY <1>2 DEF Frames, EveryFrameOnce
<1>9. owner = p /\ Uses(fr, g) <= 1
    <2>1. Has(p, g) # 0
        BY <1>5, <1>6
    <2>2. owner = p
        BY <1>7, <1>8, <2>1
    <2> QED
        BY <1>5, <1>6, <1>8, <2>2
<1>10. ASSUME NEW x \in DOMAIN pgdir[p].ptes, pgdir[p].ptes[x].frame = g PROVE x = i
    <2>1. x \in DOMAIN fr /\ i \in DOMAIN fr /\ fr[x] = g /\ fr[i] = g
        BY <1>3, <1>10
    <2> HIDE DEF fr, g
    <2> QED
        BY <1>4, <1>9, <2>1, UsesOnce
<1>11. ASSUME NEW q \in Slot, q # p PROVE Unseen(job[q], pgdir[q].ptes, g)
    <2>1. q \in Owner /\ q # NoSlot /\ job[q] \in Job /\ pgdir[q] \in Space
        BY DEF Owner, Sane, NoSlot, Frames, Types
    <2>2. Has(q, g) = 0 /\ Has(q, g) = Holds(q, g)
        BY <1>8, <1>9, <1>11, <2>1 DEF Has
    <2> HIDE DEF g
    <2> QED
        BY <2>1, <2>2, NotHeld DEF Holds
<1> QED
    BY <1>2, <1>10, <1>11

\* A store goes to one page of one process.
LEMMA StoreFills ==
    ASSUME Sane, Frames, Filled, NEW p \in Slot, InUser(p), NEW a, NEW value, Store(p, a, value)
    PROVE  Filled'
<1>1. CASE Accessible(p, a)
    <2> DEFINE i == PageOf(a)
               pt == pgdir[p].ptes
               g == pt[i].frame
    <2>1. i \in DOMAIN pt /\ pt = pgdir[p].ptes
        BY <1>1 DEF Accessible
    <2>2. /\ g \in Frame /\ \A x \in DOMAIN pt : pt[x].frame = g => x = i
          /\ \A q \in Slot \ {p} : Unseen(job[q], pgdir[q].ptes, g)
        BY <2>1, OwnedOnce
    <2>3. /\ data' = [data EXCEPT ![g] = value] /\ shadow' = [shadow EXCEPT ![p][i] = value]
          /\ proc' = Return(p, OK) /\ UNCHANGED <<pgdir, job>>
        BY <1>1 DEF Store
    <2>4. data \in [Frame -> Value] /\ shadow \in [Slot -> Map(Value)] /\ proc \in [Slot -> Process]
          /\ job[p] = Idle /\ pgdir[p] \in Space /\ proc[p].state = "user"
        BY Running DEF Frames, Types
    <2>5. \A x \in DOMAIN pt : pt[x].frame \in Frame
        BY <2>4, PageFrames
    <2>6. Own(job[p], proc[p], pt, shadow[p], data)
        BY <2>4 DEF Filled, Good
    <2>7. \A q \in Slot : /\ proc'[q].state = proc[q].state /\ proc'[q].sz = proc[q].sz
                          /\ proc'[q].guard = proc[q].guard
        BY <2>3, <2>4 DEF Return, Process
    <2>8. shadow'[p] = [shadow[p] EXCEPT ![i] = value]
          /\ \A q \in Slot \ {p} : shadow'[q] = shadow[q]
        BY <2>3, <2>4
    <2>9. data'[g] = value /\ \A f \in Frame : f # g => data'[f] = data[f]
        BY <2>2, <2>3, <2>4
    <2> HIDE DEF i, g, pt
    <2>10. DOMAIN shadow'[p] = DOMAIN shadow[p] /\ DOMAIN shadow[p] = DOMAIN pt
           /\ \A x \in DOMAIN pt : data[pt[x].frame] = shadow[p][x]
        BY <2>4, <2>6, <2>8, IdleHand DEF Own
    <2>11. ASSUME NEW x \in DOMAIN pt PROVE data'[pt[x].frame] = shadow'[p][x]
        <3>1. CASE x = i
            BY <2>1, <2>8, <2>9, <2>10, <3>1 DEF g
        <3>2. CASE x # i
            BY <2>1, <2>2, <2>5, <2>8, <2>9, <2>10, <3>2
        <3> QED
            BY <3>1, <3>2
    <2>12. Good(p)'
        <3>1. Own(Idle, proc'[p], pt, shadow'[p], data')
            BY <2>4, <2>6, <2>7, <2>10, <2>11 DEF Own
        <3>2. Made(Idle, pt, shadow'[p], data')
            BY NothingMade, Nothing, IdleHand DEF Idle
        <3> QED
            BY <2>1, <2>3, <2>4, <3>1, <3>2 DEF Good
    <2>13. ASSUME NEW q \in Slot, q # p PROVE Good(q)'
        BY <2>2, <2>3, <2>7, <2>8, <2>9, <2>13, OtherGood
    <2> QED
        BY <2>12, <2>13 DEF Filled
<1>2. CASE ~Accessible(p, a)
    BY <1>2, ExitFills DEF Store
<1> QED
    BY <1>1, <1>2

\* growproc() begins.
LEMMA SbrkFills ==
    ASSUME Sane, Frames, Filled, NEW p \in Slot, InUser(p), NEW n, Sbrk(p, n)
    PROVE  Filled'
<1> DEFINE pt == pgdir[p].ptes
           sh == shadow[p]
<1>1. /\ job \in [Slot -> Job] /\ job[p] = Idle /\ job[p].op = "none" /\ proc[p].state = "user"
      /\ pgdir[p] \in Space /\ UNCHANGED <<data, pgdir, shadow>>
    BY Running, IdleHand DEF Frames, Types, Sbrk, NothingFreed
<1>2. Own(job[p], proc[p], pt, sh, data)
    BY <1>1 DEF Filled, Good
<1>3. ASSUME NEW k, job' = [job EXCEPT ![p] = k], k.op = "sbrk", k.at # "map", UNCHANGED proc,
             \A i \in DOMAIN k.space.ptes : i \in DOMAIN pt /\ k.space.ptes[i] = pt[i]
      PROVE  Filled'
    <2>1. Made(k, pt, sh, data)
        BY <1>1, <1>2, <1>3 DEF Made, Own, MeantValue, MeantUser
    <2>2. Own(k, proc[p], pt, sh, data)
        BY <1>2, <1>3 DEF Own
    <2>3. Good(p)'
        BY <1>1, <1>3, <2>1, <2>2 DEF Good
    <2>4. ASSUME NEW q \in Slot, q # p PROVE Good(q)'
        BY <1>1, <1>3, <2>4, NoneUnseen, OtherGood
    <2> QED
        BY <2>3, <2>4 DEF Filled
<1>4. CASE \E v : proc' = Return(p, v) /\ UNCHANGED job
    BY <1>1, <1>4, ReturnFills
<1>5. CASE \E z : Enter(p, JobToGrow(p, z)) /\ UNCHANGED proc
    <2>1. PICK z : Enter(p, JobToGrow(p, z)) /\ UNCHANGED proc
        BY <1>5
    <2> DEFINE k == JobToGrow(p, z)
    <2>2. k.op = "sbrk" /\ k.at = "mem" /\ k.space = pgdir[p] /\ job' = [job EXCEPT ![p] = k]
        BY <2>1 DEF JobToGrow, Idle, Enter
    <2> HIDE DEF k
    <2> QED
        BY <1>3, <2>1, <2>2
<1>6. CASE \E z : Enter(p, JobToShrink(p, z)) /\ UNCHANGED proc
    <2>1. PICK z : Enter(p, JobToShrink(p, z)) /\ UNCHANGED proc
        BY <1>6
    <2> DEFINE k == JobToShrink(p, z)
               keep == Kept(pgdir[p], proc[p].sz, ShrinkFrom(z))
    <2>2. k.op = "sbrk" /\ k.at = "resized" /\ k.space = keep /\ job' = [job EXCEPT ![p] = k]
        BY <2>1 DEF JobToShrink, Idle, Enter
    <2>3. \A i \in DOMAIN keep.ptes : i \in DOMAIN pt /\ keep.ptes[i] = pt[i]
        BY <1>1, KeptPages
    <2> HIDE DEF k, keep
    <2> QED
        BY <1>3, <2>1, <2>2, <2>3
<1> QED
    BY <1>4, <1>5, <1>6 DEF Sbrk

\* growproc() ends.
LEMMA ResizedFills == ASSUME Sane, Frames, Filled, NEW p \in Slot, Resized(p) PROVE Filled'
<1> DEFINE j == job[p]
           pt == j.space.ptes
           old == pgdir[p].ptes
           sh == shadow[p]
           sh2 == [i \in DOMAIN pt |-> IF i \in DOMAIN sh THEN sh[i] ELSE "zero"]
           guard2 == IF proc[p].guard \in DOMAIN pt THEN proc[p].guard ELSE NoGuard
<1>1. /\ j \in Job /\ Calling(p) /\ j.op = "sbrk" /\ j.at = "resized" /\ proc[p].state = "user"
      /\ job \in [Slot -> Job] /\ proc \in [Slot -> Process] /\ j.space \in Space
      /\ pgdir \in [Slot -> Space] /\ shadow \in [Slot -> Map(Value)]
    BY Somewhere DEF Frames, Types, Resized, At, Job
<1>2. Own(j, proc[p], old, sh, data) /\ Made(j, old, sh, data)
    BY <1>1 DEF Filled, Good
<1>3. /\ job' = [job EXCEPT ![p] = Idle] /\ pgdir' = [pgdir EXCEPT ![p] = j.space] /\ data' = data
      /\ \A q \in Slot \ {p} : proc'[q] = proc[q] /\ shadow'[q] = shadow[q]
    BY <1>1 DEF Resized, Finish, NothingFreed
<1>4. shadow'[p] = sh2
    BY <1>1 DEF Resized
<1>5. /\ proc'[p].state = "user" /\ proc'[p].guard = guard2
      /\ proc'[p].sz = IF j.value = -1 THEN proc[p].sz ELSE j.limit
    BY <1>1 DEF Resized, Process
<1>6. DOMAIN pt \subseteq Below(proc'[p].sz)
    BY <1>1, <1>5 DEF Calling, Sized
<1>7. \A i \in DOMAIN pt : data[pt[i].frame] = sh2[i]
    <2>1. \A i \in DOMAIN pt : data[pt[i].frame] = MeantValue(j.op, sh, i)
        BY <1>2 DEF Made
    <2> QED
        BY <1>1, <2>1 DEF MeantValue
<1>8. guard2 # NoGuard => guard2 \in DOMAIN pt /\ ~pt[guard2].user
    <2> SUFFICES ASSUME guard2 # NoGuard PROVE guard2 \in DOMAIN pt /\ ~pt[guard2].user
        OBVIOUS
    <2>1. guard2 = proc[p].guard /\ guard2 \in DOMAIN pt
        OBVIOUS
    <2> HIDE DEF guard2
    <2>2. guard2 \in DOMAIN old /\ ~old[guard2].user
        BY <1>2, <2>1 DEF Own
    <2>3. pt[guard2].user = MeantUser(j.op, old, guard2)
        BY <1>2, <2>1 DEF Made
    <2>4. MeantUser(j.op, old, guard2) = old[guard2].user
        BY <1>1, <2>2 DEF MeantUser
    <2> QED
        BY <2>1, <2>2, <2>3, <2>4
<1>9. DOMAIN sh2 = DOMAIN pt
    OBVIOUS
<1> HIDE DEF sh2, guard2
<1>10. Good(p)'
    <2>1. Own(Idle, proc'[p], pt, sh2, data)
        BY <1>5, <1>6, <1>7, <1>8, <1>9 DEF Own
    <2>2. Made(Idle, pt, sh2, data)
        BY NothingMade, Nothing, IdleHand DEF Idle
    <2> QED
        BY <1>1, <1>3, <1>4, <2>1, <2>2 DEF Good
<1>11. ASSUME NEW q \in Slot, q # p PROVE Good(q)'
    BY <1>1, <1>3, <1>11, NoneUnseen, OtherGood
<1> QED
    BY <1>10, <1>11 DEF Filled

\* fork() gives the child its memory.
LEMMA ForkedFills == ASSUME Sane, Frames, Filled, NEW p \in Slot, Forked(p) PROVE Filled'
<1>0. PICK c : c = job[p].child
    OBVIOUS
<1> DEFINE j == job[p]
           pt == j.space.ptes
           old == pgdir[p].ptes
           sh == shadow[p]
           entry == [Unused EXCEPT !.state = "user", !.parent = p, !.sz = j.limit,
                                   !.kstack = j.kstack, !.guard = proc[p].guard]
<1>1. /\ j \in Job /\ Calling(p) /\ j.op = "fork" /\ j.at = "mem" /\ ~More(p)
      /\ proc[p].state = "user" /\ job \in [Slot -> Job] /\ proc \in [Slot -> Process]
      /\ j.space \in Space /\ pgdir \in [Slot -> Space] /\ shadow \in [Slot -> Map(Value)]
    BY Somewhere DEF Frames, Types, Forked, At, Job
<1>2. Own(j, proc[p], old, sh, data) /\ Made(j, old, sh, data)
    BY <1>1 DEF Filled, Good
<1>3. c \in Slot /\ c # p /\ job[c] = Idle
    BY <1>0, <1>1 DEF Calling, Shape, Frames
<1>4. DOMAIN pt = Below(j.limit) /\ DOMAIN old = DOMAIN pt
    <2>1. j.limit = proc[p].sz /\ j.limit \in Nat /\ j.page \in Nat /\ j.page <= PageUp(j.limit)
          /\ DOMAIN pt = 0..(j.page - 1) /\ DOMAIN old = Below(proc[p].sz)
        BY <1>1 DEF Calling, Built, Sized, Job
    <2>2. PageUp(j.limit) \in Nat /\ ~(j.page < PageUp(j.limit))
        BY <1>1, <2>1, PagesBelow DEF More
    <2>3. j.page = PageUp(j.limit)
        BY <2>1, <2>2
    <2> QED
        BY <2>1, <2>3 DEF Below
<1>5. /\ proc' = [proc EXCEPT ![p].ret = c, ![c] = entry]
      /\ pgdir' = [pgdir EXCEPT ![c] = j.space] /\ shadow' = [shadow EXCEPT ![c] = shadow[p]]
      /\ job' = [job EXCEPT ![p] = Idle] /\ data' = data
    BY <1>0 DEF Forked, Finish, NothingFreed
<1>6. entry.state = "user" /\ entry.sz = j.limit /\ entry.guard = proc[p].guard
    BY DEF Unused
<1> HIDE DEF entry
<1>7. /\ proc'[c] = entry /\ pgdir'[c] = j.space /\ shadow'[c] = sh /\ job'[c] = Idle
      /\ job'[p] = Idle /\ pgdir'[p] = pgdir[p] /\ shadow'[p] = shadow[p]
      /\ proc'[p].state = "user" /\ proc'[p].sz = proc[p].sz /\ proc'[p].guard = proc[p].guard
    BY <1>1, <1>3, <1>5 DEF Process
<1>8. \A i \in DOMAIN pt : /\ data[pt[i].frame] = sh[i] /\ pt[i].user = old[i].user
    <2>1. DOMAIN sh = DOMAIN old
        BY <1>2 DEF Own
    <2>2. \A i \in DOMAIN pt : /\ data[pt[i].frame] = MeantValue(j.op, sh, i)
                               /\ pt[i].user = MeantUser(j.op, old, i)
        BY <1>2 DEF Made
    <2>3. \A i \in DOMAIN pt : /\ MeantValue(j.op, sh, i) = sh[i]
                             /\ MeantUser(j.op, old, i) = old[i].user
        BY <1>1, <1>4, <2>1 DEF MeantValue, MeantUser
    <2> QED
        BY <2>2, <2>3
<1> HIDE DEF pt, old, sh, j
<1>9. Good(c)'
    <2>1. Own(Idle, entry, pt, sh, data)
        BY <1>2, <1>4, <1>6, <1>8 DEF Own
    <2>2. Made(Idle, pt, sh, data)
        BY NothingMade, Nothing, IdleHand DEF Idle
    <2> QED
        BY <1>5, <1>6, <1>7, <2>1, <2>2 DEF Good, pt
<1>10. Good(p)'
    <2>1. Own(Idle, proc'[p], old, sh, data)
        BY <1>1, <1>2, <1>7 DEF Own
    <2>2. Made(Idle, old, sh, data)
        BY NothingMade, Nothing, IdleHand DEF Idle
    <2> QED
        BY <1>5, <1>7, <2>1, <2>2 DEF Good, old, sh
<1>11. ASSUME NEW q \in Slot, q # p, q # c PROVE Good(q)'
    BY <1>1, <1>3, <1>5, <1>11, NoneUnseen, OtherGood
<1> QED
    BY <1>9, <1>10, <1>11 DEF Filled

\* Any step in the kernel.
LEMMA KernelFills == ASSUME Sane, Frames, Filled, NEW p \in Slot, InKernel(p) PROVE Filled'
<1>1. CASE FreeFirst(p) \/ FreePage(p) \/ FreeTable(p) \/ FreeDir(p) \/ FreeLast(p)
    BY <1>1, FreeFills
<1>2. CASE Fail(p) \/ Resized(p) \/ KernelStack(p) \/ Setupkvm(p)
    BY <1>2, FailFills, ResizedFills, KernelStackFills, SetupkvmFills
<1>3. CASE AllocPage(p) \/ MapPage(p) \/ Grown(p) \/ Forked(p) \/ Loaded(p) \/ Done(p)
    BY <1>3, AllocPageFills, MapPageFills, GrownFills, ForkedFills, LoadedFills, FailFills
<1> QED
    BY <1>1, <1>2, <1>3 DEF InKernel

\* The first process has what exec() loaded.
LEMMA InitFills == ASSUME Sane, Init PROVE Filled
<1>1. PICK base, n : n = ImagePages /\ base = (2 + KTables) + TableOf(n - 1) + 1
    OBVIOUS
<1>2. n \in Nat /\ n = Len(Image) + 2 /\ Len(Image) \in Nat /\ base \in Nat /\ base + n <= NFrames
    <2>1. TableOf(ImagePages - 1) \in Nat /\ ImagePages \in Nat
        BY Layout
    <2> QED
        BY <1>1, <2>1 DEF Sane, ImagePages
<1> SUFFICES ASSUME NEW p \in Slot, proc[p].state = "user"
             PROVE  /\ Own(job[p], proc[p], pgdir[p].ptes, shadow[p], data)
                    /\ Made(job[p], pgdir[p].ptes, shadow[p], data)
    BY DEF Filled, Good
<1>3. p = First
    BY DEF Init, Unused
<1>4. /\ job[p] = Idle /\ shadow[p] = ImageData
      /\ proc[p] = [Unused EXCEPT !.state = "user", !.sz = ImageSize, !.kstack = 2,
                                  !.guard = Len(Image)]
      /\ pgdir[p].ptes = [i \in 0..(n - 1) |-> [frame |-> base + 1 + i, user |-> i # Len(Image)]]
    BY <1>1, <1>3 DEF Init
<1>5. data = [f \in Frame |-> IF f \in (base + 1)..(base + n) THEN ImageData[f - base - 1]
                              ELSE "junk"]
    BY <1>1 DEF Init
<1>6. proc[p].sz = ImageSize /\ proc[p].guard = Len(Image)
    BY <1>4 DEF Unused
<1>7. DOMAIN ImageData = 0..(n - 1) /\ Below(ImageSize) = 0..(n - 1)
    <2>1. PageUp(ImageSize) = n
        BY <1>1, <1>2, PageUps DEF ImageSize
    <2> QED
        BY <1>1, <2>1 DEF ImageData, Below
<1>8. ASSUME NEW i \in 0..(n - 1) PROVE data[pgdir[p].ptes[i].frame] = ImageData[i]
    <2>1. pgdir[p].ptes[i].frame = base + 1 + i
        BY <1>4
    <2>2. base + 1 + i \in Frame /\ base + 1 + i \in (base + 1)..(base + n)
          /\ (base + 1 + i) - base - 1 = i
        BY <1>2 DEF Frame, Sane
    <2> QED
        BY <1>5, <2>1, <2>2
<1>9. Len(Image) \in 0..(n - 1) /\ ~pgdir[p].ptes[Len(Image)].user
    <2>1. Len(Image) \in 0..(n - 1)
        BY <1>2
    <2>2. PICK b \in BOOLEAN : b = (Len(Image) # Len(Image))
        OBVIOUS
    <2>3. pgdir[p].ptes[Len(Image)] = [frame |-> base + 1 + Len(Image), user |-> b]
        BY <1>4, <2>1, <2>2, Zenon
    <2>4. pgdir[p].ptes[Len(Image)].user = b
        BY <2>3
    <2> QED
        BY <2>1, <2>2, <2>4
<1>10. Own(job[p], proc[p], pgdir[p].ptes, shadow[p], data)
    BY <1>4, <1>6, <1>7, <1>8, <1>9 DEF Own
<1>11. Made(Idle, pgdir[p].ptes, shadow[p], data)
    BY NothingMade, Nothing, IdleHand DEF Idle
<1> QED
    BY <1>4, <1>10, <1>11
-----------------------------------------------------------------------------
(* Theorems *)

\* Memory and the tests together.
MemoryIInv == TestsIInv /\ Filled

\* A call of a test.
LEMMA CallStepFills ==
    ASSUME Testing, MemoryIInv, NEW p \in Slot, NEW c \in Calls(p), Call(p, c)
    PROVE  Filled'
<1>1. Sane /\ Frames /\ Filled /\ TestsIInv
    BY DEF Testing, MemoryIInv, TestsIInv
<1>2. InUser(p)
    BY <1>1, CallMade
<1>3. CASE UNCHANGED mvars
    <2>1. UNCHANGED <<data, proc, pgdir, job, shadow>>
        BY <1>3 DEF mvars
    <2> QED
        BY <1>1, <2>1, ProcessFills
<1>4. CASE \E n : Sbrk(p, n) \/ Load(p, n) \/ Fetch(p, n) \/ Exec(p, n)
    BY <1>1, <1>2, <1>4, SbrkFills, LoadFills, ExecFills
<1>5. CASE \E a, v : Store(p, a, v)
    BY <1>1, <1>2, <1>5, StoreFills
<1>6. CASE Wait(p) \/ Exit(p) \/ Fork(p)
    BY <1>1, <1>2, <1>6, WaitFills, ExitFills, ForkFills
<1>7. CASE \E q : Kill(p, q)
    BY <1>1, <1>7, KillFills
<1> QED
    BY <1>3, <1>4, <1>5, <1>6, <1>7 DEF Call

\* It is an inductive invariant of the tests.
LEMMA MemoryStart == ASSUME Testing, TestInit PROVE MemoryIInv
BY TestsBegin, InitFills DEF MemoryIInv, TestInit, Testing

\* Every step of the tests keeps the invariant.
LEMMA MemoryStep == ASSUME Testing, MemoryIInv, [TestNext]_vars PROVE MemoryIInv'
<1>1. Sane /\ Frames /\ Filled /\ TestsIInv /\ TestsIInv'
    BY TestsGoOn DEF Testing, MemoryIInv, TestsIInv
<1>2. CASE UNCHANGED mvars
    <2>1. UNCHANGED <<data, proc, pgdir, job, shadow>>
        BY <1>2 DEF mvars
    <2> QED
        BY <1>1, <2>1, ProcessFills DEF MemoryIInv
<1>3. ASSUME NEW p \in Slot, NEW c \in Calls(p), Call(p, c) PROVE Filled'
    BY <1>3, CallStepFills
<1>4. ASSUME NEW p \in Slot, Kernel(p) PROVE Filled'
    BY <1>1, <1>4, KernelFills DEF Kernel
<1>5. ASSUME NEW p \in Slot, Dies(p) PROVE Filled'
    BY <1>1, <1>5, ExitFills DEF Dies
<1> QED
    BY <1>1, <1>2, <1>3, <1>4, <1>5 DEF TestNext, vars, Returned, MemoryIInv

\* What a process in user mode has.
LEMMA MemoryHolds ==
    ASSUME Testing, MemoryIInv
    PROVE  EveryFrameOnce /\ PrivateMemory /\ SizeIsMapped /\ GuardStays /\ NoMemPanic
<1>1. Sane /\ Frames /\ Filled
    BY DEF Testing, MemoryIInv, TestsIInv
<1>2. EveryFrameOnce /\ NoMemPanic
    BY <1>1 DEF Frames
<1>3. ASSUME NEW p \in Slot, InUser(p)
      PROVE  job[p].op = "none" /\ Own(job[p], proc[p], pgdir[p].ptes, shadow[p], data)
    BY <1>1, <1>3 DEF InUser, Filled, Good
<1>4. PrivateMemory
    BY <1>3 DEF PrivateMemory, Own
<1>5. SizeIsMapped
    BY <1>1, Running DEF SizeIsMapped, Below
<1>6. GuardStays
    <2> SUFFICES ASSUME NEW p \in Slot, InUser(p), proc[p].guard # NoGuard
                 PROVE  ~Accessible(p, proc[p].guard * PGSIZE)
        BY DEF GuardStays
    <2>1. proc[p].guard \in DOMAIN pgdir[p].ptes /\ ~pgdir[p].ptes[proc[p].guard].user
        BY <1>3 DEF Own
    <2>2. pgdir[p] \in Space
        BY <1>1 DEF Frames, Types
    <2>3. proc[p].guard \in Nat
        BY <2>1, <2>2, PageFrames
    <2>4. PageOf(proc[p].guard * PGSIZE) = proc[p].guard
        BY <1>1, <2>3, PageUps
    <2> QED
        BY <2>1, <2>4 DEF Accessible
<1> QED
    BY <1>2, <1>4, <1>5, <1>6

\* No page of physical memory is lost or in use twice: in the middle of any call of any
\* processes, whichever of their kalloc()s fails, and in every test of usertests.c about
\* memory.
THEOREM NoFrameIsLost == ASSUME Testing PROVE Spec => []EveryFrameOnce
<1>1. TestInit => MemoryIInv
    BY MemoryStart
<1>2. MemoryIInv /\ [TestNext]_vars => MemoryIInv'
    BY MemoryStep
<1>3. MemoryIInv => EveryFrameOnce
    BY MemoryHolds
<1> QED
    BY <1>1, <1>2, <1>3, PTL DEF Spec

\* A process in user mode finds in its memory what it, its parent or exec() put there,
\* and zero in new pages; it has exactly the pages below its size and none of those that
\* exec() made inaccessible.  The panics of copyuvm() are never met.
THEOREM MemoryIsPrivate ==
    ASSUME Testing
    PROVE  Spec => [](PrivateMemory /\ SizeIsMapped /\ GuardStays /\ NoMemPanic)
<1>1. TestInit => MemoryIInv
    BY MemoryStart
<1>2. MemoryIInv /\ [TestNext]_vars => MemoryIInv'
    BY MemoryStep
<1>3. MemoryIInv => PrivateMemory /\ SizeIsMapped /\ GuardStays /\ NoMemPanic
    BY MemoryHolds
<1> QED
    BY <1>1, <1>2, <1>3, PTL DEF Spec
=============================================================================
