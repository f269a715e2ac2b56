---------------------------- MODULE FileProofs ----------------------------
(***************************************************************************)
(* Proofs about FileSys, for processes that make any system calls at any   *)
(* time: the inode of an open file or of a current directory stays         *)
(* allocated, the count of a file is that of its descriptors, the count of *)
(* an inode covers the pointers to it, and is exact as long as nobody      *)
(* calls sys_move_file().  The tests of Usertests are runs of that system, *)
(* and have these properties, for any number of processes and inodes.      *)
(***************************************************************************)
EXTENDS Usertests, FiniteSetTheorems, SequenceTheorems, WellFoundedInduction, TLAPS

\* A system call on a descriptor, fork() or exit().
OtherCall(p) ==
    \/ \E d \in Fd : Dup(p, d) \/ Close(p, d) \/ Fstat(p, d)
                     \/ (\E n \in Nat : Read(p, d, n))
                     \/ (\E chunks : Write(p, d, chunks))
    \/ \E q \in Proc : Fork(p, q)
    \/ Exit(p)

MakesCall(p) == (\E c : IsCall(c) /\ PathCall(p, c)) \/ OtherCall(p)

Next == \E p \in Proc : KernelStep(p) \/ MakesCall(p)
Spec == Init /\ [][Next]_vars

\* The same, where nobody calls sys_move_file().
MakesCallButMove(p) == (\E c : IsCall(c) /\ c.op # "move" /\ PathCall(p, c)) \/ OtherCall(p)

NextButMove == \E p \in Proc : KernelStep(p) \/ MakesCallButMove(p)
SpecButMove == Init /\ [][NextButMove]_vars

-----------------------------------------------------------------------------
(* The inductive invariant *)

\* What namex() is called for, and for nameiparent().
Searches == {"link_old", "link_dir", "unlink_dir", "create_dir", "open_old", "chdir_dir",
             "move_old", "move_dir", "move_dest"}
ParentSearches == {"link_dir", "unlink_dir", "create_dir", "move_dir"}

\* Places where a process holds the lock of dp, or of ip.
DpLocked == {"link_exists", "unlink_check", "unlink_bad", "create_new"}
IpLocked == {"open_file", "unlink_inode", "made"}

Places == {"user", "unused", "exit", "write", "namex", "drop_link", "moved", "create_old"}
            \cup Searches \cup DpLocked \cup IpLocked

\* Where a process is, or is going with namex().
Goal(g) == IF g.at = "namex" THEN g.ret ELSE g.at

\* Goals with an inode in ip; where it is wanted; where it may be free by now.
WithIp == {"link_dir", "link_exists", "move_dir", "move_dest", "drop_link", "moved",
           "unlink_check", "create_new", "create_old"} \cup IpLocked
WantsIp == {"drop_link", "moved", "unlink_check", "create_new", "create_old"}
IpUnsafe == {"unlink_check", "create_new", "create_old"}

\* Places where dp, if it is there, is a directory.
DpIsDir == ParentSearches \cup DpLocked

FrameFields == {"at", "want", "ip", "dp", "name", "path", "parent", "ret", "call"}

\* What g, the frame of a process, holds.
FrameTyped(g) ==
    /\ DOMAIN g = FrameFields
    /\ g.at \in Places /\ g.parent \in BOOLEAN /\ g.path \in Seq(STRING)
    /\ g.want \in Inum \cup {None} /\ g.ip \in Inum \cup {None} /\ g.dp \in Inum \cup {None}
    /\ g.at = "namex" => g.ret \in Searches /\ (g.parent <=> g.ret \in ParentSearches)

FrameHolds(g) ==
    /\ (g.ip # None) <=> (Goal(g) \in WithIp)
    /\ g.dp # None => g.at \in {"namex"} \cup Searches \cup DpLocked
    /\ g.at \in {"namex"} \cup DpLocked => g.dp # None

FrameWants(g) ==
    /\ g.at = "namex" => g.want = IF g.path = <<>> THEN None ELSE g.dp
    /\ g.at \in Searches => g.want = g.dp
    /\ g.at \in WantsIp => g.want = g.ip
    /\ g.at = "write" => g.want # None
    /\ g.at \notin {"namex", "write"} \cup Searches \cup WantsIp => g.want = None

FrameCall(g) ==
    /\ Goal(g) \in {"create_dir", "create_old", "create_new"} =>
         g.call.op \in {"open", "mkdir", "mknod"}
    /\ Goal(g) \in {"link_old", "move_old", "move_dir"} => IsPath(g.call.new)
    /\ Goal(g) = "move_old" => IsPath(g.call.path)

FrameOK(g) == FrameTyped(g) /\ FrameHolds(g) /\ FrameWants(g) /\ FrameCall(g)

Putt == [i : Inum, at : {"lock", "free", "drop"}]

\* p is between the two halves of the iput() that frees i.
Freeing(p, i) == puts[p] # <<>> /\ puts[p][1].at = "free" /\ puts[p][1].i = i

\* i is allocated, and nobody is about to free it.
Safe(i) == i \in Inum /\ dinode[i].type # "free" /\ \A r \in Proc : ~Freeing(r, i)
SafeDir(i) == Safe(i) /\ dinode[i].type = "dir"

DpHeld(p, i) == fr[p].at \in DpLocked /\ fr[p].dp = i
IpHeld(p, i) == fr[p].at \in IpLocked /\ fr[p].ip = i
Holds(p, i) == DpHeld(p, i) \/ IpHeld(p, i) \/ Freeing(p, i)

\* The disk: directories name inodes.
DiskOK(dsk) ==
    /\ DOMAIN dsk = Inum
    /\ \A i \in Inum :
         /\ DOMAIN dsk[i] = {"type", "nlink", "body"}
         /\ dsk[i].type \in Types /\ dsk[i].nlink \in Int
         /\ dsk[i].type = "dir" => \A n \in DOMAIN dsk[i].body : dsk[i].body[n] \in Inum

\* The cache holds a copy of inode i.
Valid(ind, i) == ind[i].valid = TRUE

\* The cache: what is valid is allocated, and has the type of the disk.
CacheOK(ind, dsk) ==
    /\ DOMAIN ind = Inum
    /\ \A i \in Inum :
         /\ DOMAIN ind[i] = {"ref", "valid", "type", "nlink"}
         /\ ind[i].ref \in Nat /\ ind[i].valid \in BOOLEAN /\ ind[i].nlink \in Int
         /\ Valid(ind, i) => ind[i].type = dsk[i].type /\ dsk[i].type # "free"

FilesOK ==
    /\ DOMAIN file = File
    /\ \A f \in File :
         /\ DOMAIN file[f] = {"ref", "ip", "off", "readable", "writable"}
         /\ file[f].ref \in Nat
         /\ file[f].ref = 0 => file[f].ip = None
         /\ file[f].ref > 0 => Safe(file[f].ip)

FdsOK ==
    /\ ofile \in [Proc -> [Fd -> File \cup {None}]]
    /\ \A q \in Proc : fr[q].at = "unused" => \A d \in Fd : ofile[q][d] = None

LocksOK ==
    /\ DOMAIN lock = Inum
    /\ \A i \in Inum :
         /\ lock[i] \in Proc \cup {NoProc}
         /\ lock[i] # NoProc => Holds(lock[i], i)
         /\ \A q \in Proc : Holds(q, i) => lock[i] = q /\ Valid(inode, i)

OwnOK(q) ==
    /\ FrameOK(fr[q])
    /\ fr[q].ip # None /\ fr[q].at \notin IpUnsafe => Safe(fr[q].ip)
    /\ fr[q].dp # None /\ fr[q].at \in DpIsDir => SafeDir(fr[q].dp)
    /\ puts[q] \in Seq(Putt) /\ Len(puts[q]) <= 2
    /\ Len(puts[q]) = 2 => puts[q][2].at = "lock"
    /\ fr[q].at = "unused" => cwd[q] = None
    /\ fr[q].at # "unused" => SafeDir(cwd[q])

ProcsOK ==
    /\ DOMAIN fr = Proc /\ DOMAIN puts = Proc /\ DOMAIN cwd = Proc
    /\ DOMAIN result = Proc /\ DOMAIN buf = Proc
    /\ \A q \in Proc : OwnOK(q)

RefsCover == \A i \in Inum : References(i) <= inode[i].ref

IInv ==
    /\ DiskOK(dinode) /\ CacheOK(inode, dinode) /\ FilesOK /\ FdsOK /\ FileRefs
    /\ LocksOK /\ ProcsOK /\ RefsCover /\ panic \in Messages

-----------------------------------------------------------------------------
(* Counting pointers *)

\* 1 if x is the inode i.
Hit(x, i) == IF x = i THEN 1 ELSE 0

\* Uses of an inode are a number, at least 1 if there is one.
LEMMA UsesCount ==
    ASSUME NEW S, IsFiniteSet(S), NEW f, DOMAIN f = S, NEW i
    PROVE  /\ Uses(f, i) \in Nat
           /\ \A x \in S : f[x] = i => Uses(f, i) >= 1
<1>1. IsFiniteSet({k \in S : f[k] = i})
    BY FS_Subset
<1>2. Uses(f, i) = Cardinality({k \in S : f[k] = i})
    BY DEF Uses
<1>3. Uses(f, i) \in Nat
    BY <1>1, <1>2, FS_CardinalityType
<1>4. ASSUME NEW x \in S, f[x] = i PROVE Uses(f, i) >= 1
    <2>1. {k \in S : f[k] = i} # {}
        BY <1>4
    <2>2. Cardinality({k \in S : f[k] = i}) # 0
        BY <1>1, <2>1, FS_EmptySet
    <2> QED BY <1>2, <1>3, <2>2
<1> QED BY <1>3, <1>4

\* When one pointer changes, so does the count of what it points to.
LEMMA UsesChange ==
    ASSUME NEW S, IsFiniteSet(S), NEW f, NEW g, DOMAIN f = S, DOMAIN g = S,
           NEW x \in S, \A y \in S \ {x} : g[y] = f[y], NEW i
    PROVE  Uses(g, i) + Hit(f[x], i) = Uses(f, i) + Hit(g[x], i)
<1> DEFINE R == {k \in S \ {x} : f[k] = i}
<1>1. IsFiniteSet(R) /\ Cardinality(R) \in Nat
    BY FS_Subset, FS_CardinalityType
<1>2. x \notin R
    OBVIOUS
<1>3. Cardinality(R \cup {x}) = Cardinality(R) + 1
    BY <1>1, <1>2, FS_AddElement
<1>4. {k \in S : f[k] = i} = IF f[x] = i THEN R \cup {x} ELSE R
    OBVIOUS
<1>5. {k \in S : g[k] = i} = IF g[x] = i THEN R \cup {x} ELSE R
    OBVIOUS
<1>6. Uses(f, i) = Cardinality(R) + Hit(f[x], i)
    BY <1>1, <1>3, <1>4 DEF Uses, Hit
<1>7. Uses(g, i) = Cardinality(R) + Hit(g[x], i)
    BY <1>1, <1>3, <1>5 DEF Uses, Hit
<1> QED BY <1>1, <1>6, <1>7 DEF Hit

-----------------------------------------------------------------------------
(* The inode cache and the disk *)

\* ilock() of an allocated inode reads it in, and leaves the rest alone.
LEMMA IlockOK ==
    ASSUME DiskOK(dinode), CacheOK(inode, dinode), NEW i \in Inum, dinode[i].type # "free"
    PROVE  /\ CacheOK(Ilock(i), dinode)
           /\ Valid(Ilock(i), i)
           /\ \A j \in Inum : /\ Ilock(i)[j].ref = inode[j].ref
                              /\ Valid(inode, j) => Valid(Ilock(i), j)
<1>1. ASSUME NEW j \in Inum
      PROVE  /\ DOMAIN Ilock(i)[j] = {"ref", "valid", "type", "nlink"}
             /\ Ilock(i)[j].ref = inode[j].ref
             /\ Valid(Ilock(i), j) <=> Valid(inode, j) \/ j = i
             /\ Ilock(i)[j].valid \in BOOLEAN
             /\ Ilock(i)[j].nlink \in Int
             /\ Valid(Ilock(i), j) => Ilock(i)[j].type = dinode[j].type
    BY DEF Valid, Ilock, Updated, CacheOK, DiskOK
<1>2. DOMAIN Ilock(i) = Inum
    BY DEF Ilock, CacheOK
<1> QED BY <1>1, <1>2 DEF CacheOK

\* Whoever has locked an inode sees the type and a link count.
LEMMA TypeIs ==
    ASSUME DiskOK(dinode), CacheOK(inode, dinode), NEW i \in Inum
    PROVE  Type(i) = dinode[i].type /\ Nlink(i) \in Int
BY DEF Type, Nlink, Ilock, Updated, CacheOK, DiskOK, Valid

\* What iget() makes of a free entry, and of another one.
FirstUse == Updated(FreeEntry, [ref |-> 1])
OneMoreUse(e) == Updated(e, [ref |-> e.ref + 1])

\* A new entry of the cache: one user, nothing read in.
LEMMA FirstUseIs ==
    /\ DOMAIN FirstUse = {"ref", "valid", "type", "nlink"}
    /\ FirstUse.ref = 1 /\ FirstUse.valid \in BOOLEAN /\ ~FirstUse.valid
    /\ FirstUse.nlink = 0
<1>1. DOMAIN FirstUse = {"ref", "valid", "type", "nlink"}
    BY DEF FirstUse, Updated, FreeEntry
<1>2. FirstUse.ref = 1
    BY DEF FirstUse, Updated, FreeEntry
<1>3. FirstUse.valid = FALSE
    BY DEF FirstUse, Updated, FreeEntry
<1>4. FirstUse.nlink = 0
    BY DEF FirstUse, Updated, FreeEntry
<1> QED BY <1>1, <1>2, <1>3, <1>4

\* iget() counts one more user.
LEMMA IgetOK ==
    ASSUME NEW ind, NEW dsk, CacheOK(ind, dsk), NEW i \in Inum
    PROVE  /\ CacheOK(Iget(ind, i), dsk)
           /\ \A j \in Inum : /\ Iget(ind, i)[j].ref = ind[j].ref + Hit(j, i)
                              /\ Valid(ind, j) /\ ind[j].ref > 0 => Valid(Iget(ind, i), j)
<1>1. ASSUME NEW j \in Inum
      PROVE  /\ DOMAIN Iget(ind, i)[j] = {"ref", "valid", "type", "nlink"}
             /\ Iget(ind, i)[j].ref = ind[j].ref + Hit(j, i)
             /\ Iget(ind, i)[j].valid \in BOOLEAN
             /\ Valid(ind, j) /\ ind[j].ref > 0 => Valid(Iget(ind, i), j)
             /\ Valid(Iget(ind, i), j) => Valid(ind, j) /\ Iget(ind, i)[j].type = ind[j].type
             /\ Iget(ind, i)[j].nlink \in Int
  <2>1. Iget(ind, i)[j] = IF j # i THEN ind[j]
                          ELSE IF ind[i].ref = 0 THEN FirstUse ELSE OneMoreUse(ind[i])
      <3>1. Iget(ind, i) = [ind EXCEPT ![i] = IF ind[i].ref = 0 THEN FirstUse
                                              ELSE OneMoreUse(ind[i])]
          BY Zenon DEF Iget, FirstUse, OneMoreUse
      <3> QED BY <3>1 DEF CacheOK
  <2>2. CASE j = i /\ ind[i].ref = 0
      BY <2>1, <2>2, FirstUseIs DEF Valid, Hit
  <2>3. CASE j = i /\ ind[i].ref # 0
      <3>1. LET new == OneMoreUse(ind[i]) IN
            /\ DOMAIN new = {"ref", "valid", "type", "nlink"}
            /\ new.ref = ind[i].ref + 1 /\ new.valid = ind[i].valid
            /\ new.type = ind[i].type /\ new.nlink = ind[i].nlink
          BY DEF OneMoreUse, Updated, CacheOK
      <3> QED BY <2>1, <2>3, <3>1 DEF Valid, CacheOK, Hit
  <2>4. CASE j # i
      BY <2>1, <2>4 DEF Valid, CacheOK, Hit
  <2> QED BY <2>2, <2>3, <2>4
<1>2. DOMAIN Iget(ind, i) = Inum
    BY DEF Iget, CacheOK
<1> QED BY <1>1, <1>2 DEF CacheOK, Hit

\* A new link count changes nothing else.
LEMMA WithNlinkOK ==
    ASSUME NEW ind, NEW dsk, CacheOK(ind, dsk), NEW i, NEW n \in Int
    PROVE  /\ CacheOK(WithNlink(ind, i, n), dsk)
           /\ \A j \in Inum : /\ WithNlink(ind, i, n)[j].ref = ind[j].ref
                              /\ WithNlink(ind, i, n)[j].valid = ind[j].valid
<1>1. ASSUME NEW j \in Inum
      PROVE  /\ DOMAIN WithNlink(ind, i, n)[j] = {"ref", "valid", "type", "nlink"}
             /\ WithNlink(ind, i, n)[j].ref = ind[j].ref
             /\ WithNlink(ind, i, n)[j].valid = ind[j].valid
             /\ WithNlink(ind, i, n)[j].type = ind[j].type
             /\ WithNlink(ind, i, n)[j].nlink \in Int
    BY DEF WithNlink, CacheOK
<1>2. DOMAIN WithNlink(ind, i, n) = Inum
    BY DEF WithNlink, CacheOK
<1> QED BY <1>1, <1>2 DEF Valid, CacheOK

\* What differs between two disks is not the types.
SameTypes(dsk, dsk2) == \A i \in Inum : dsk2[i].type = dsk[i].type

\* iupdate() of a valid inode writes the type that is there.
LEMMA IupdateOK ==
    ASSUME NEW ind, NEW dsk, NEW cur, CacheOK(ind, cur), SameTypes(cur, dsk), DiskOK(dsk),
           NEW i \in Inum, Valid(ind, i)
    PROVE  DiskOK(Iupdate(dsk, ind, i)) /\ SameTypes(cur, Iupdate(dsk, ind, i))
<1>1. ASSUME NEW j \in Inum
      PROVE  /\ DOMAIN Iupdate(dsk, ind, i)[j] = {"type", "nlink", "body"}
             /\ Iupdate(dsk, ind, i)[j].type = dsk[j].type
             /\ Iupdate(dsk, ind, i)[j].nlink \in Int
             /\ Iupdate(dsk, ind, i)[j].body = dsk[j].body
    BY DEF Iupdate, CacheOK, DiskOK, SameTypes
<1>2. DOMAIN Iupdate(dsk, ind, i) = Inum
    BY DEF Iupdate, DiskOK
<1> QED BY <1>1, <1>2 DEF DiskOK, SameTypes

\* A new content of inode d.
WithBody(dsk, d, body) == [dsk EXCEPT ![d].body = body]

\* A directory stays one if its new content names inodes.
LEMMA WithBodyOK ==
    ASSUME NEW dsk, DiskOK(dsk), NEW d \in Inum, NEW body,
           dsk[d].type = "dir" => \A n \in DOMAIN body : body[n] \in Inum
    PROVE  DiskOK(WithBody(dsk, d, body)) /\ SameTypes(dsk, WithBody(dsk, d, body))
<1> DEFINE new == WithBody(dsk, d, body)
<1>1. ASSUME NEW j \in Inum
      PROVE  /\ DOMAIN new[j] = {"type", "nlink", "body"}
             /\ new[j].type = dsk[j].type
             /\ new[j].nlink = dsk[j].nlink
             /\ new[j].body = IF j = d THEN body ELSE dsk[j].body
    BY DEF DiskOK, WithBody
<1>2. DOMAIN new = Inum
    BY DEF DiskOK, WithBody
<1> HIDE DEF new
<1>3. DiskOK(new) /\ SameTypes(dsk, new)
    BY <1>1, <1>2 DEF DiskOK, SameTypes
<1> QED BY <1>3 DEF new

\* A new name for an inode.
LEMMA WithEntryOK ==
    ASSUME NEW dsk, DiskOK(dsk), NEW d \in Inum, NEW name, NEW i \in Inum
    PROVE  DiskOK(WithEntry(dsk, d, name, i)) /\ SameTypes(dsk, WithEntry(dsk, d, name, i))
<1> DEFINE body == [n \in DOMAIN dsk[d].body \cup {name} |->
                     IF n = name THEN i ELSE dsk[d].body[n]]
<1>1. dsk[d].type = "dir" => \A n \in DOMAIN body : body[n] \in Inum
    BY DEF DiskOK
<1>2. WithEntry(dsk, d, name, i) = WithBody(dsk, d, body)
    BY DEF WithBody, WithEntry
<1> HIDE DEF body
<1> QED BY <1>1, <1>2, WithBodyOK

\* A name less.
LEMMA WithoutEntryOK ==
    ASSUME NEW dsk, DiskOK(dsk), NEW d \in Inum, NEW name
    PROVE  DiskOK(WithoutEntry(dsk, d, name)) /\ SameTypes(dsk, WithoutEntry(dsk, d, name))
<1> DEFINE body == [n \in DOMAIN dsk[d].body \ {name} |-> dsk[d].body[n]]
<1>1. dsk[d].type = "dir" => \A n \in DOMAIN body : body[n] \in Inum
    BY DEF DiskOK
<1>2. WithoutEntry(dsk, d, name) = WithBody(dsk, d, body)
    BY DEF WithBody, WithoutEntry
<1> HIDE DEF body
<1> QED BY <1>1, <1>2, WithBodyOK

\* The cache fits any disk with the same types.
LEMMA SameTypesCache ==
    ASSUME NEW ind, NEW dsk, NEW dsk2, CacheOK(ind, dsk), SameTypes(dsk, dsk2)
    PROVE  CacheOK(ind, dsk2)
BY DEF CacheOK, SameTypes

-----------------------------------------------------------------------------
(* What a step of one process has to do *)

\* Pointers of p to inode i.
Own(p, i) ==
    Hit(fr[p].ip, i) + Hit(fr[p].dp, i) + Hit(Put(p, 1), i) + Hit(Put(p, 2), i)
      + Hit(cwd[p], i)

\* Only p's own state changes.
Alone(p) ==
    /\ DOMAIN fr' = Proc /\ DOMAIN puts' = Proc /\ DOMAIN cwd' = Proc
    /\ DOMAIN result' = Proc /\ DOMAIN buf' = Proc
    /\ \A q \in Proc \ {p} : fr'[q] = fr[q] /\ puts'[q] = puts[q] /\ cwd'[q] = cwd[q]

\* Somebody uses inode i, and not just to iput() it.
Used(i) ==
    \/ \E q \in Proc : fr[q].ip = i \/ fr[q].dp = i \/ cwd[q] = i
    \/ \E f \in File : file[f].ip = i

\* References to an inode are a number.
LEMMA RefsNat ==
    ASSUME NEW i, DOMAIN cwd = Proc
    PROVE  /\ References(i) \in Nat
           /\ Used(i) \/ (\E q \in Proc : Put(q, 1) = i) => References(i) >= 1
           /\ Used(i) /\ (\E q \in Proc : Put(q, 1) = i) => References(i) >= 2
<1> DEFINE ips == [q \in Proc |-> fr[q].ip]
           dps == [q \in Proc |-> fr[q].dp]
           put1 == [q \in Proc |-> Put(q, 1)]
           put2 == [q \in Proc |-> Put(q, 2)]
           fips == [f \in File |-> file[f].ip]
<1>1. IsFiniteSet(Proc) /\ IsFiniteSet(File)
    BY ProcAssumption, SizeAssumption, FS_Interval DEF File
<1>2. Uses(ips, i) \in Nat /\ \A q \in Proc : fr[q].ip = i => Uses(ips, i) >= 1
  <2>1. DOMAIN ips = Proc /\ \A q \in Proc : ips[q] = fr[q].ip
      OBVIOUS
  <2> HIDE DEF ips
  <2> QED BY <1>1, <2>1, UsesCount
<1>3. Uses(dps, i) \in Nat /\ \A q \in Proc : fr[q].dp = i => Uses(dps, i) >= 1
  <2>1. DOMAIN dps = Proc /\ \A q \in Proc : dps[q] = fr[q].dp
      OBVIOUS
  <2> HIDE DEF dps
  <2> QED BY <1>1, <2>1, UsesCount
<1>4. Uses(put1, i) \in Nat /\ \A q \in Proc : Put(q, 1) = i => Uses(put1, i) >= 1
  <2>1. DOMAIN put1 = Proc /\ \A q \in Proc : put1[q] = Put(q, 1)
      OBVIOUS
  <2> HIDE DEF put1
  <2> QED BY <1>1, <2>1, UsesCount
<1>5. Uses(put2, i) \in Nat
  <2>1. DOMAIN put2 = Proc
      OBVIOUS
  <2> HIDE DEF put2
  <2> QED BY <1>1, <2>1, UsesCount
<1>6. Uses(cwd, i) \in Nat /\ \A q \in Proc : cwd[q] = i => Uses(cwd, i) >= 1
    BY <1>1, UsesCount
<1>7. Uses(fips, i) \in Nat /\ \A f \in File : file[f].ip = i => Uses(fips, i) >= 1
  <2>1. DOMAIN fips = File /\ \A f \in File : fips[f] = file[f].ip
      OBVIOUS
  <2> HIDE DEF fips
  <2> QED BY <1>1, <2>1, UsesCount
<1>8. References(i) = Uses(ips, i) + Uses(dps, i) + Uses(put1, i) + Uses(put2, i)
                        + Uses(cwd, i) + Uses(fips, i)
    BY DEF References
<1> HIDE DEF ips, dps, put1, put2, fips
<1> QED BY <1>2, <1>3, <1>4, <1>5, <1>6, <1>7, <1>8 DEF Used

\* References change by the pointers of p, and that of the file g.
LEMMA RefsChange ==
    ASSUME NEW p \in Proc, NEW g \in File, DOMAIN cwd = Proc, Alone(p),
           \A f \in File \ {g} : file'[f].ip = file[f].ip, NEW i
    PROVE  /\ References(i)' + Own(p, i) + Hit(file[g].ip, i)
                = References(i) + Own(p, i)' + Hit(file'[g].ip, i)
           /\ References(i) \in Nat /\ References(i)' \in Nat
<1> DEFINE ips == [q \in Proc |-> fr[q].ip]
           dps == [q \in Proc |-> fr[q].dp]
           put1 == [q \in Proc |-> Put(q, 1)]
           put2 == [q \in Proc |-> Put(q, 2)]
           fips == [f \in File |-> file[f].ip]
<1>1. IsFiniteSet(Proc) /\ IsFiniteSet(File)
    BY ProcAssumption, SizeAssumption, FS_Interval DEF File
<1>2. Uses(ips', i) + Hit(fr[p].ip, i) = Uses(ips, i) + Hit(fr'[p].ip, i)
  <2>1. /\ DOMAIN ips = Proc /\ DOMAIN ips' = Proc /\ ips[p] = fr[p].ip /\ ips'[p] = fr'[p].ip
        /\ \A q \in Proc \ {p} : ips'[q] = ips[q]
      BY DEF Alone
  <2> HIDE DEF ips
  <2>2. Uses(ips', i) + Hit(ips[p], i) = Uses(ips, i) + Hit(ips'[p], i)
      BY <1>1, <2>1, UsesChange
  <2> QED BY <2>1, <2>2
<1>3. Uses(dps', i) + Hit(fr[p].dp, i) = Uses(dps, i) + Hit(fr'[p].dp, i)
  <2>1. /\ DOMAIN dps = Proc /\ DOMAIN dps' = Proc /\ dps[p] = fr[p].dp /\ dps'[p] = fr'[p].dp
        /\ \A q \in Proc \ {p} : dps'[q] = dps[q]
      BY DEF Alone
  <2> HIDE DEF dps
  <2>2. Uses(dps', i) + Hit(dps[p], i) = Uses(dps, i) + Hit(dps'[p], i)
      BY <1>1, <2>1, UsesChange
  <2> QED BY <2>1, <2>2
<1>4. Uses(put1', i) + Hit(Put(p, 1), i) = Uses(put1, i) + Hit(Put(p, 1)', i)
  <2>1. /\ DOMAIN put1 = Proc /\ DOMAIN put1' = Proc
        /\ put1[p] = Put(p, 1) /\ put1'[p] = Put(p, 1)'
        /\ \A q \in Proc \ {p} : put1'[q] = put1[q]
      BY DEF Alone, Put
  <2> HIDE DEF put1
  <2>2. Uses(put1', i) + Hit(put1[p], i) = Uses(put1, i) + Hit(put1'[p], i)
      BY <1>1, <2>1, UsesChange
  <2> QED BY <2>1, <2>2
<1>5. Uses(put2', i) + Hit(Put(p, 2), i) = Uses(put2, i) + Hit(Put(p, 2)', i)
  <2>1. /\ DOMAIN put2 = Proc /\ DOMAIN put2' = Proc
        /\ put2[p] = Put(p, 2) /\ put2'[p] = Put(p, 2)'
        /\ \A q \in Proc \ {p} : put2'[q] = put2[q]
      BY DEF Alone, Put
  <2> HIDE DEF put2
  <2>2. Uses(put2', i) + Hit(put2[p], i) = Uses(put2, i) + Hit(put2'[p], i)
      BY <1>1, <2>1, UsesChange
  <2> QED BY <2>1, <2>2
<1>6. Uses(cwd', i) + Hit(cwd[p], i) = Uses(cwd, i) + Hit(cwd'[p], i)
    BY <1>1, UsesChange DEF Alone
<1>7. Uses(fips', i) + Hit(file[g].ip, i) = Uses(fips, i) + Hit(file'[g].ip, i)
  <2>1. /\ DOMAIN fips = File /\ DOMAIN fips' = File
        /\ fips[g] = file[g].ip /\ fips'[g] = file'[g].ip
        /\ \A f \in File \ {g} : fips'[f] = fips[f]
      OBVIOUS
  <2> HIDE DEF fips
  <2>2. Uses(fips', i) + Hit(fips[g], i) = Uses(fips, i) + Hit(fips'[g], i)
      BY <1>1, <2>1, UsesChange
  <2> QED BY <2>1, <2>2
<1>8. References(i) = Uses(ips, i) + Uses(dps, i) + Uses(put1, i) + Uses(put2, i)
                        + Uses(cwd, i) + Uses(fips, i)
    BY DEF References
<1>9. References(i)' = Uses(ips', i) + Uses(dps', i) + Uses(put1', i) + Uses(put2', i)
                        + Uses(cwd', i) + Uses(fips', i)
    BY DEF References
<1>10. /\ Uses(ips, i) \in Nat /\ Uses(dps, i) \in Nat /\ Uses(put1, i) \in Nat
       /\ Uses(put2, i) \in Nat /\ Uses(cwd, i) \in Nat /\ Uses(fips, i) \in Nat
    BY <1>1, UsesCount
<1>11. /\ Uses(ips', i) \in Nat /\ Uses(dps', i) \in Nat /\ Uses(put1', i) \in Nat
       /\ Uses(put2', i) \in Nat /\ Uses(cwd', i) \in Nat /\ Uses(fips', i) \in Nat
    BY <1>1, UsesCount DEF Alone
<1> HIDE DEF ips, dps, put1, put2, fips
<1>12. References(i) \in Nat /\ References(i)' \in Nat
    BY <1>8, <1>9, <1>10, <1>11
<1>13. /\ Own(p, i) = Hit(fr[p].ip, i) + Hit(fr[p].dp, i) + Hit(Put(p, 1), i)
                        + Hit(Put(p, 2), i) + Hit(cwd[p], i)
       /\ Own(p, i)' = Hit(fr'[p].ip, i) + Hit(fr'[p].dp, i) + Hit(Put(p, 1)', i)
                        + Hit(Put(p, 2)', i) + Hit(cwd'[p], i)
    BY DEF Own
<1>14. \A x, y : Hit(x, y) \in Nat
    BY DEF Hit
<1>15. References(i)' + Own(p, i) + Hit(file[g].ip, i)
         = References(i) + Own(p, i)' + Hit(file'[g].ip, i)
    BY <1>2, <1>3, <1>4, <1>5, <1>6, <1>7, <1>8, <1>9, <1>10, <1>11, <1>13, <1>14
<1> QED BY <1>12, <1>15

\* No inode that is allocated and locked loses its type or its copy, but for
\* the one that p is freeing.
MemStep(p) ==
    /\ DiskOK(dinode') /\ CacheOK(inode', dinode')
    /\ \A i \in Inum :
         /\ dinode[i].type # "free" => dinode'[i].type = dinode[i].type \/ Freeing(p, i)
         /\ Valid(inode, i) /\ inode[i].ref > 0 => Valid(inode', i) \/ Freeing(p, i)

\* p takes and releases its own locks, as its place says.
LockStep(p) ==
    /\ DOMAIN lock' = Inum
    /\ \A i \in Inum : \/ lock'[i] = lock[i]
                       \/ lock[i] = NoProc /\ lock'[i] = p
                       \/ lock[i] = p /\ lock'[i] = NoProc
    /\ \A i \in Inum : lock'[i] = p <=> Holds(p, i)'
    /\ \A i \in Inum : Holds(p, i)' => Valid(inode', i)

\* p sets out to free an inode that nobody uses.
FreeStep(p) == \A i \in Inum : Freeing(p, i)' => Freeing(p, i) \/ ~Used(i)

\* An inode in use stays safe.
LEMMA SafeKept ==
    ASSUME NEW p \in Proc, Alone(p), MemStep(p), FreeStep(p), NEW i, Safe(i), Used(i)
    PROVE  Safe(i)' /\ (SafeDir(i) => SafeDir(i)')
<1>1. i \in Inum /\ dinode[i].type # "free" /\ ~Freeing(p, i)
    BY DEF Safe
<1>2. dinode'[i].type = dinode[i].type
    BY <1>1 DEF MemStep
<1>3. ASSUME NEW r \in Proc PROVE ~Freeing(r, i)'
  <2>1. CASE r = p
      BY <1>1, <2>1 DEF FreeStep
  <2>2. CASE r # p
      BY <2>2 DEF Safe, Freeing, Alone
  <2> QED BY <2>1, <2>2
<1> QED BY <1>1, <1>2, <1>3 DEF Safe, SafeDir

\* Who holds the lock of an inode is counted as its user.
LEMMA LockedRef ==
    ASSUME IInv, NEW q \in Proc, NEW i \in Inum, Holds(q, i)
    PROVE  inode[i].ref > 0
<1>1. Used(i) \/ (\E r \in Proc : Put(r, 1) = i)
  <2>1. CASE DpHeld(q, i) \/ IpHeld(q, i)
      BY <2>1 DEF DpHeld, IpHeld, Used
  <2>2. CASE Freeing(q, i)
    <3>1. puts[q] \in Seq(Putt)
        BY DEF IInv, ProcsOK, OwnOK
    <3>2. Len(puts[q]) >= 1
        BY <2>2, <3>1 DEF Freeing
    <3> QED BY <2>2, <3>2 DEF Freeing, Put
  <2> QED BY <2>1, <2>2 DEF Holds
<1>2. DOMAIN cwd = Proc
    BY DEF IInv, ProcsOK
<1>3. References(i) >= 1 /\ References(i) \in Nat
    BY <1>1, <1>2, RefsNat
<1>4. References(i) <= inode[i].ref /\ inode[i].ref \in Nat
    BY DEF IInv, RefsCover, CacheOK
<1> QED BY <1>3, <1>4

\* The other processes find everything as they have left it.
LEMMA OthersKept ==
    ASSUME IInv, NEW p \in Proc, Alone(p), MemStep(p), LockStep(p), FreeStep(p), OwnOK(p)'
    PROVE  /\ ProcsOK' /\ LocksOK'
           /\ \A f \in File, i \in Inum : file[f].ref > 0 /\ file[f].ip = i => Safe(i)'
<1>1. ASSUME NEW q \in Proc, q # p PROVE OwnOK(q)'
  <2>1. fr'[q] = fr[q] /\ puts'[q] = puts[q] /\ cwd'[q] = cwd[q]
      BY <1>1 DEF Alone
  <2>2. OwnOK(q)
      BY DEF IInv, ProcsOK
  <2>3. FrameOK(fr[q])'
      BY <2>1, <2>2 DEF OwnOK
  <2>4. ASSUME NEW i \in Inum, i = fr[q].ip, fr[q].ip # None, fr[q].at \notin IpUnsafe
        PROVE  Safe(i)'
      BY <2>2, <2>4, SafeKept DEF OwnOK, Used
  <2>5. ASSUME NEW i \in Inum, i = fr[q].dp, fr[q].dp # None, fr[q].at \in DpIsDir
        PROVE  SafeDir(i)'
      BY <2>2, <2>5, SafeKept DEF OwnOK, Used, SafeDir
  <2>6. ASSUME NEW i \in Inum, i = cwd[q], fr[q].at # "unused" PROVE SafeDir(i)'
      BY <2>2, <2>6, SafeKept DEF OwnOK, Used, SafeDir
  <2>7. fr'[q].ip # None /\ fr'[q].at \notin IpUnsafe => Safe(fr[q].ip)'
      BY <2>1, <2>2, <2>4 DEF OwnOK, FrameOK, FrameTyped, Safe
  <2>8. fr'[q].dp # None /\ fr'[q].at \in DpIsDir => SafeDir(fr[q].dp)'
      BY <2>1, <2>2, <2>5 DEF OwnOK, SafeDir, Safe
  <2>9. fr'[q].at # "unused" => SafeDir(cwd[q])'
      BY <2>1, <2>2, <2>6 DEF OwnOK, SafeDir, Safe
  <2> QED BY <2>1, <2>2, <2>3, <2>7, <2>8, <2>9 DEF OwnOK
<1>2. ProcsOK'
    BY <1>1 DEF ProcsOK, Alone
<1>3. ASSUME NEW i \in Inum, NEW q \in Proc PROVE q # p => (Holds(q, i)' <=> Holds(q, i))
    BY DEF Holds, DpHeld, IpHeld, Freeing, Alone
<1>4. ASSUME NEW i \in Inum PROVE lock'[i] \in Proc \cup {NoProc}
    BY DEF LockStep, IInv, LocksOK
<1>5. ASSUME NEW i \in Inum, lock'[i] # NoProc PROVE Holds(lock[i], i)'
  <2>1. CASE lock'[i] = p
      BY <2>1 DEF LockStep
  <2>2. CASE lock'[i] # p
    <3>1. lock'[i] = lock[i]
        BY <1>5, <2>2 DEF LockStep
    <3>2. lock[i] \in Proc /\ Holds(lock[i], i)
        BY <1>5, <3>1 DEF IInv, LocksOK
    <3>3. ASSUME NEW q \in Proc, q = lock[i] PROVE Holds(q, i)'
        BY <1>3, <2>2, <3>1, <3>2, <3>3
    <3>4. PICK q \in Proc : q = lock'[i]
        BY <3>1, <3>2
    <3>5. Holds(q, i)'
        BY <3>1, <3>3, <3>4
    <3> QED BY <3>4, <3>5 DEF Holds, DpHeld, IpHeld, Freeing
  <2> QED BY <2>1, <2>2
<1>6. ASSUME NEW i \in Inum, NEW q \in Proc, Holds(q, i)' PROVE lock'[i] = q /\ Valid(inode', i)
  <2>1. CASE q = p
      BY <1>6, <2>1 DEF LockStep
  <2>2. CASE q # p
    <3>1. Holds(q, i)
        BY <1>3, <1>6, <2>2
    <3>2. lock[i] = q /\ Valid(inode, i)
        BY <3>1 DEF IInv, LocksOK
    <3>3. inode[i].ref > 0
        BY <3>1, LockedRef
    <3>4. ~Freeing(p, i)
        BY <2>2, <3>2 DEF IInv, LocksOK, Holds
    <3>5. lock'[i] = q
        BY <2>2, <3>2, ProcAssumption DEF LockStep
    <3> QED BY <3>2, <3>3, <3>4, <3>5 DEF MemStep
  <2> QED BY <2>1, <2>2
<1>7. LocksOK'
    BY <1>4, <1>5, <1>6 DEF LocksOK, LockStep
<1>8. ASSUME NEW f \in File, NEW i \in Inum, file[f].ref > 0, file[f].ip = i PROVE Safe(i)'
    BY <1>8, SafeKept DEF IInv, FilesOK, Used
<1> QED BY <1>2, <1>7, <1>8

\* The goals of sys_move_file(), which forgets references.
MoveGoals == {"move_old", "move_dir", "move_dest", "moved"}
NoMoves == \A q \in Proc : Goal(fr[q]) \notin MoveGoals

\* What is to be proved of every step.
Good == IInv' /\ (NoMoves /\ InodeRefs => InodeRefs')

\* What p gains, the counts gain at least, or exactly.
Covered(p) == \A i \in Inum : inode[i].ref + Own(p, i)' <= inode'[i].ref + Own(p, i)
Balanced(p) == \A i \in Inum : inode[i].ref + Own(p, i)' = inode'[i].ref + Own(p, i)

\* A balanced step covers what p gains.
LEMMA BalancedCovers ==
    ASSUME NEW p, MemStep(p), Balanced(p)
    PROVE  Covered(p)
<1>1. ASSUME NEW i \in Inum PROVE inode[i].ref + Own(p, i)' <= inode'[i].ref + Own(p, i)
  <2>1. inode[i].ref + Own(p, i)' = inode'[i].ref + Own(p, i)
      BY DEF Balanced
  <2>2. inode'[i].ref + Own(p, i) \in Nat
      BY DEF MemStep, CacheOK, Own, Hit
  <2> QED BY <2>1, <2>2
<1> QED BY <1>1 DEF Covered

\* A step that leaves files alone.
LEMMA StepOK ==
    ASSUME IInv, NEW p \in Proc, Alone(p), MemStep(p), LockStep(p), FreeStep(p), OwnOK(p)',
           Covered(p), UNCHANGED <<file, ofile>>, panic' \in Messages,
           fr'[p].at = "unused" => \A d \in Fd : ofile[p][d] = None
    PROVE  /\ IInv'
           /\ Balanced(p) => (InodeRefs => InodeRefs')
<1>1. /\ ProcsOK' /\ LocksOK'
      /\ \A f \in File, i \in Inum : file[f].ref > 0 /\ file[f].ip = i => Safe(i)'
    BY OthersKept
<1>2. FilesOK'
    BY <1>1 DEF IInv, FilesOK, Safe
<1>3. FdsOK' /\ FileRefs'
    BY DEF IInv, FdsOK, FileRefs, Descriptors, Alone
<1>4. ASSUME NEW i \in Inum
      PROVE  /\ References(i)' + Own(p, i) = References(i) + Own(p, i)'
             /\ References(i) \in Nat /\ References(i)' \in Nat
             /\ Own(p, i) \in Nat /\ Own(p, i)' \in Nat
             /\ inode[i].ref \in Nat /\ inode'[i].ref \in Nat
  <2>1. 1 \in File
      BY SizeAssumption DEF File
  <2>2. DOMAIN cwd = Proc /\ DOMAIN cwd' = Proc
      BY DEF IInv, ProcsOK, Alone
  <2>5. Own(p, i) \in Nat /\ Own(p, i)' \in Nat
      BY DEF Own, Hit
  <2>6. inode[i].ref \in Nat /\ inode'[i].ref \in Nat
      BY DEF IInv, CacheOK, MemStep
  <2>7. /\ References(i)' + Own(p, i) + Hit(file[1].ip, i)
             = References(i) + Own(p, i)' + Hit(file'[1].ip, i)
        /\ References(i) \in Nat /\ References(i)' \in Nat
      BY <2>1, <2>2, RefsChange
  <2> QED BY <2>5, <2>6, <2>7 DEF Hit
<1>5. RefsCover'
    BY <1>4 DEF RefsCover, IInv, Covered
<1>6. IInv'
    BY <1>1, <1>2, <1>3, <1>5 DEF IInv, MemStep
<1>7. ASSUME Balanced(p), InodeRefs PROVE InodeRefs'
  <2>1. ASSUME NEW i \in Inum PROVE inode'[i].ref = References(i)'
    <3>1. inode[i].ref = References(i)
        BY <1>7 DEF InodeRefs
    <3>2. inode[i].ref + Own(p, i)' = inode'[i].ref + Own(p, i)
        BY <1>7 DEF Balanced
    <3> QED BY <1>4, <3>1, <3>2
  <2> QED BY <2>1 DEF InodeRefs
<1> QED BY <1>6, <1>7

\* What p has yet to iput() after a step.
PutsAre(p, a, b) ==
    /\ puts'[p] \in Seq(Putt) /\ Len(puts'[p]) <= 2
    /\ Len(puts'[p]) = 2 => puts'[p][2].at = "lock"
    /\ Put(p, 1)' = a /\ Put(p, 2)' = b
    /\ \A i : ~Freeing(p, i)'

\* What p has yet to iput() before a step of a system call.
LEMMA NoPuts ==
    ASSUME NEW p, puts[p] = <<>>
    PROVE  Put(p, 1) = None /\ Put(p, 2) = None /\ \A i : ~Freeing(p, i)
BY DEF Put, Freeing

\* The list of iput()s Go() makes: none, one or two.
LEMMA PutsNone ==
    ASSUME NEW p \in Proc, DOMAIN puts = Proc, NEW fields, Go(p, fields, <<>>)
    PROVE  PutsAre(p, None, None) /\ puts'[p] = <<>>
<1>1. puts'[p] = <<>>
    BY DEF Go
<1> QED BY <1>1 DEF PutsAre, Put, Freeing

\* One iput().
LEMMA PutsOne ==
    ASSUME NEW p \in Proc, DOMAIN puts = Proc, NEW a \in Inum, NEW fields, Go(p, fields, <<a>>)
    PROVE  PutsAre(p, a, None)
<1>1. puts'[p] = <<[i |-> a, at |-> "lock"]>>
  <2>1. puts'[p] = [k \in DOMAIN <<a>> |-> [i |-> <<a>>[k], at |-> "lock"]]
      BY DEF Go
  <2> QED BY <2>1
<1> QED BY <1>1 DEF PutsAre, Put, Freeing, Putt

\* Two of them.
LEMMA PutsTwo ==
    ASSUME NEW p \in Proc, DOMAIN puts = Proc, NEW a \in Inum, NEW b \in Inum, NEW fields,
           Go(p, fields, <<a, b>>)
    PROVE  PutsAre(p, a, b)
<1>1. puts'[p] = <<[i |-> a, at |-> "lock"], [i |-> b, at |-> "lock"]>>
  <2>1. puts'[p] = [k \in DOMAIN <<a, b>> |-> [i |-> <<a, b>>[k], at |-> "lock"]]
      BY DEF Go
  <2> QED BY <2>1
<1> QED BY <1>1 DEF PutsAre, Put, Freeing, Putt

-----------------------------------------------------------------------------
(* A step between two acquisitions of a lock *)

\* The locals of p after the step: what has to be safe was so before.
FrameStep(p) ==
    /\ FrameOK(fr'[p]) /\ fr'[p].at # "unused"
    /\ fr'[p].ip # None /\ fr'[p].at \notin IpUnsafe =>
         fr'[p].ip \in {fr[p].ip, fr[p].dp} /\ Safe(fr'[p].ip)
    /\ fr'[p].dp # None /\ fr'[p].at \in DpIsDir =>
         fr'[p].dp = fr[p].dp /\ SafeDir(fr'[p].dp)

\* Pointers to i that p has after the step, with a and b to iput(), and before.
Gains(p, a, b, i) ==
    Hit(fr'[p].ip, i) + Hit(fr'[p].dp, i) + Hit(a, i) + Hit(b, i)
Had(p, i) == Hit(fr[p].ip, i) + Hit(fr[p].dp, i)

Pays(p, a, b) == \A i \in Inum : inode[i].ref + Gains(p, a, b, i) = inode'[i].ref + Had(p, i)
Overpays(p, a, b) ==
    \A i \in Inum : inode[i].ref + Gains(p, a, b, i) <= inode'[i].ref + Had(p, i)

\* A step of a system call that leaves files and the current directory alone.
LEMMA KernelOK ==
    ASSUME IInv, NEW p \in Proc, puts[p] = <<>>, fr[p].at # "unused",
           NEW a, NEW b, PutsAre(p, a, b), Alone(p), MemStep(p), LockStep(p), FrameStep(p),
           UNCHANGED files, panic' \in Messages, Overpays(p, a, b)
    PROVE  /\ IInv'
           /\ Pays(p, a, b) => (InodeRefs => InodeRefs')
<1>1. FreeStep(p)
    BY DEF FreeStep, PutsAre
<1>2. cwd'[p] = cwd[p] /\ SafeDir(cwd[p])
    BY DEF files, IInv, ProcsOK, OwnOK
<1>3. ASSUME NEW i \in Inum, i = cwd[p] PROVE SafeDir(i)'
    BY <1>1, <1>2, <1>3, SafeKept DEF SafeDir, Used
<1>4. ASSUME NEW i \in Inum, i \in {fr[p].ip, fr[p].dp}, Safe(i)
      PROVE  Safe(i)' /\ (SafeDir(i) => SafeDir(i)')
    BY <1>1, <1>4, SafeKept DEF Used
<1>5. OwnOK(p)'
  <2>1. SafeDir(cwd[p])'
      BY <1>2, <1>3 DEF SafeDir, Safe
  <2>2. FrameOK(fr[p])' /\ fr'[p].at # "unused"
      BY DEF FrameStep
  <2>3. (fr[p].ip # None /\ fr[p].at \notin IpUnsafe => Safe(fr[p].ip))'
      BY <1>4 DEF FrameStep, Safe
  <2>4. (fr[p].dp # None /\ fr[p].at \in DpIsDir => SafeDir(fr[p].dp))'
      BY <1>4 DEF FrameStep, Safe, SafeDir
  <2> QED BY <2>1, <2>2, <2>3, <2>4 DEF OwnOK, PutsAre
<1>6. ASSUME NEW i \in Inum
      PROVE  /\ Own(p, i) = Had(p, i) + Hit(cwd[p], i)
             /\ Own(p, i)' = Gains(p, a, b, i) + Hit(cwd[p], i)
             /\ Had(p, i) \in Nat /\ Gains(p, a, b, i) \in Nat /\ Hit(cwd[p], i) \in Nat
             /\ inode[i].ref \in Nat /\ inode'[i].ref \in Nat
  <2>1. Hit(None, i) = 0
      BY DEF Hit, None, Inum
  <2>2. \A x, y : Hit(x, y) \in Nat
      BY DEF Hit
  <2>3. Own(p, i) = Had(p, i) + Hit(cwd[p], i)
      BY <2>1, <2>2, NoPuts DEF Own, Had
  <2>4. Own(p, i)' = Gains(p, a, b, i) + Hit(cwd[p], i)
      BY <1>2, <2>2 DEF Own, Gains, PutsAre
  <2>5. Had(p, i) \in Nat /\ Gains(p, a, b, i) \in Nat
      BY <2>2 DEF Had, Gains
  <2>6. inode[i].ref \in Nat /\ inode'[i].ref \in Nat
      BY DEF IInv, CacheOK, MemStep
  <2> QED BY <2>2, <2>3, <2>4, <2>5, <2>6, Zenon
<1>7. Covered(p)
    BY <1>6, SMTT(30) DEF Covered, Overpays
<1>8. ASSUME Pays(p, a, b) PROVE Balanced(p)
  <2>1. ASSUME NEW i \in Inum
        PROVE  inode[i].ref + Own(p, i)' = inode'[i].ref + Own(p, i)
    <3>1. inode[i].ref + Gains(p, a, b, i) = inode'[i].ref + Had(p, i)
        BY <1>8 DEF Pays
    <3>2. \A x, y, g, h, c \in Nat : x + g = y + h => x + (g + c) = y + (h + c)
        OBVIOUS
    <3>3. inode[i].ref + (Gains(p, a, b, i) + Hit(cwd[p], i))
            = inode'[i].ref + (Had(p, i) + Hit(cwd[p], i))
        BY <1>6, <3>1, <3>2, SMTT(30)
    <3> QED BY <1>6, <3>3
  <2> QED BY <2>1 DEF Balanced
<1>9. UNCHANGED <<file, ofile>> /\ (fr'[p].at = "unused" => \A d \in Fd : ofile[p][d] = None)
    BY DEF files, FrameStep
<1> QED BY <1>1, <1>5, <1>7, <1>8, <1>9, StepOK

\* A panic stops everything as it is.
LEMMA PanicOK ==
    ASSUME IInv, NEW msg \in Messages, Panics(msg)
    PROVE  Good
<1>1. /\ UNCHANGED <<dinode, inode, lock, file, ofile, cwd, fr, puts, result, buf>>
      /\ panic' = msg
    BY DEF Panics, files
<1>2. DiskOK(dinode') /\ CacheOK(inode', dinode') /\ panic' \in Messages
    BY <1>1 DEF IInv
<1>3. FilesOK' /\ FdsOK' /\ FileRefs'
    BY <1>1 DEF IInv, FilesOK, FdsOK, FileRefs, Descriptors, Safe, Freeing
<1>4. LocksOK'
    BY <1>1 DEF IInv, LocksOK, Holds, DpHeld, IpHeld, Freeing
<1>5. ProcsOK'
    BY <1>1 DEF IInv, ProcsOK, OwnOK, Safe, SafeDir, Freeing
<1>6. \A i : References(i)' = References(i)
    BY <1>1 DEF References, Put
<1>7. RefsCover' /\ (InodeRefs => InodeRefs')
    BY <1>1, <1>6 DEF IInv, RefsCover, InodeRefs
<1> QED BY <1>2, <1>3, <1>4, <1>5, <1>7 DEF Good, IInv

\* Go() changes the state of p only.
LEMMA GoOK ==
    ASSUME IInv, NEW p \in Proc, NEW fields, NEW ps, Go(p, fields, ps), UNCHANGED cwd,
           DOMAIN result' = Proc, DOMAIN buf' = Proc
    PROVE  Alone(p) /\ fr'[p] = Updated(fr[p], fields)
BY DEF Go, Alone, IInv, ProcsOK

\* Who can lock an allocated inode finds it safe.
LEMMA TypedSafe ==
    ASSUME IInv, NEW i \in Inum, lock[i] = NoProc, dinode[i].type # "free"
    PROVE  Safe(i)
BY ProcAssumption DEF IInv, LocksOK, Holds, Safe

\* A place without a lock follows another one.
Unlocked == Places \ (DpLocked \cup IpLocked)

\* p holds no lock before the step, and none after it.
LEMMA LockSame ==
    ASSUME IInv, NEW p \in Proc, puts[p] = <<>>, UNCHANGED lock, MemStep(p),
           NEW a, NEW b, PutsAre(p, a, b), fr[p].at \in Unlocked, fr'[p].at \in Unlocked
    PROVE  LockStep(p)
<1>1. ASSUME NEW i \in Inum PROVE ~Holds(p, i) /\ ~Holds(p, i)'
  <2>1. ~Freeing(p, i) /\ ~Freeing(p, i)'
      BY NoPuts DEF PutsAre
  <2> QED BY <2>1 DEF Unlocked, Holds, DpHeld, IpHeld
<1>2. ASSUME NEW i \in Inum PROVE lock[i] # p
    BY <1>1, ProcAssumption DEF IInv, LocksOK
<1> QED BY <1>1, <1>2 DEF LockStep, IInv, LocksOK

\* The memory after a step that keeps types and valid copies.
LEMMA MemOK ==
    ASSUME IInv, NEW p \in Proc, CacheOK(inode', dinode), DiskOK(dinode'),
           SameTypes(dinode, dinode'),
           \A j \in Inum : Valid(inode, j) /\ inode[j].ref > 0 => Valid(inode', j)
    PROVE  MemStep(p)
BY SameTypesCache DEF MemStep, SameTypes

\* What IInv says of a process that can go on from its place.
LEMMA AtOK ==
    ASSUME IInv, NEW p \in Proc, NEW place, At(p, place)
    PROVE  /\ puts[p] = <<>> /\ fr[p].at = place /\ panic \in Messages
           /\ FrameOK(fr[p])
           /\ fr[p].want # None => lock[fr[p].want] = NoProc /\ fr[p].want \in Inum
           /\ fr[p].ip # None => fr[p].ip \in Inum
           /\ fr[p].dp # None => fr[p].dp \in Inum
           /\ fr[p].ip # None /\ fr[p].at \notin IpUnsafe => Safe(fr[p].ip)
           /\ fr[p].dp # None /\ fr[p].at \in DpIsDir => SafeDir(fr[p].dp)
           /\ DOMAIN puts = Proc /\ DOMAIN result = Proc /\ DOMAIN buf = Proc
<1>1. /\ puts[p] = <<>> /\ fr[p].at = place
      /\ fr[p].want # None => lock[fr[p].want] = NoProc
    BY DEF At
<1>2. OwnOK(p) /\ panic \in Messages
      /\ DOMAIN puts = Proc /\ DOMAIN result = Proc /\ DOMAIN buf = Proc
    BY DEF IInv, ProcsOK
<1>3. FrameOK(fr[p])
    BY <1>2 DEF OwnOK
<1>4. /\ fr[p].want \in Inum \cup {None} /\ fr[p].ip \in Inum \cup {None}
      /\ fr[p].dp \in Inum \cup {None}
    BY <1>3 DEF FrameOK, FrameTyped
<1> QED BY <1>1, <1>2, <1>3, <1>4 DEF OwnOK

\* The counts stay, and a, b and c are the pointers x and y.
RefsSame == \A j \in Inum : inode'[j].ref = inode[j].ref
Trade(a, b, c, x, y) ==
    \A j \in Inum : Hit(a, j) + Hit(b, j) + Hit(c, j) = Hit(x, j) + Hit(y, j)

\* A step that only reads in inode i, allocated, or not even that.
LEMMA ReadIn ==
    ASSUME IInv, NEW p \in Proc, NEW i \in Inum, dinode[i].type # "free",
           inode' = Ilock(i), UNCHANGED dinode
    PROVE  MemStep(p) /\ Valid(inode', i) /\ RefsSame
<1>1. /\ CacheOK(inode', dinode)
      /\ Valid(inode', i)
      /\ \A j \in Inum : /\ inode'[j].ref = inode[j].ref
                         /\ Valid(inode, j) => Valid(inode', j)
    BY IlockOK DEF IInv
<1>2. DiskOK(dinode') /\ SameTypes(dinode, dinode')
    BY DEF IInv, SameTypes
<1>3. MemStep(p)
    BY <1>1, <1>2, MemOK
<1> QED BY <1>1, <1>3 DEF RefsSame

\* A step that leaves the cache and the disk alone.
LEMMA ReadNothing ==
    ASSUME IInv, NEW p \in Proc, UNCHANGED <<dinode, inode>>
    PROVE  MemStep(p) /\ RefsSame
BY MemOK DEF IInv, SameTypes, RefsSame

\* namex() returns: the call it is for goes on.
LEMMA FoundOK ==
    ASSUME IInv, NEW p \in Proc, At(p, "namex"), NEW i \in {None, fr[p].dp},
           NEW name, NEW ps, Found(p, i, name, ps),
           UNCHANGED <<lock, files, result, buf, panic>>,
           NEW a, NEW b, PutsAre(p, a, b), MemStep(p),
           fr[p].ret \in ParentSearches /\ i # None => SafeDir(i),
           RefsSame, Trade(i, a, b, fr[p].dp, None)
    PROVE  Good
<1> DEFINE f == fr[p]
<1>1. /\ puts[p] = <<>> /\ f.at = "namex" /\ panic' \in Messages /\ FrameOK(f)
      /\ f.ip # None => Safe(f.ip)
      /\ DOMAIN result' = Proc /\ DOMAIN buf' = Proc
    BY AtOK DEF IpUnsafe
<1>2. Alone(p) /\ fr'[p] = Updated(f, [at |-> f.ret, dp |-> i, want |-> i, name |-> name])
    BY <1>1, GoOK DEF Found, files
<1>3. /\ DOMAIN fr'[p] = FrameFields
      /\ fr'[p].at = f.ret /\ fr'[p].dp = i /\ fr'[p].want = i
      /\ fr'[p].ip = f.ip /\ fr'[p].path = f.path /\ fr'[p].parent = f.parent
      /\ fr'[p].call = f.call
    BY <1>1, <1>2 DEF Updated, FrameOK, FrameTyped, FrameFields
<1>4. f.ret \in Searches /\ i \in Inum \cup {None}
    BY <1>1 DEF FrameOK, FrameTyped
<1>5. Goal(fr'[p]) = f.ret /\ Goal(f) = f.ret
    BY <1>1, <1>3, <1>4 DEF Goal, Searches
<1>6. FrameOK(fr'[p])
  <2>1. FrameTyped(fr'[p])
      BY <1>1, <1>3, <1>4 DEF FrameOK, FrameTyped, Searches, Places
  <2>2. FrameHolds(fr'[p])
      BY <1>1, <1>3, <1>4, <1>5 DEF FrameOK, FrameHolds, Searches, DpLocked
  <2>3. FrameWants(fr'[p])
      BY <1>3, <1>4 DEF FrameWants, Searches, WantsIp
  <2>4. FrameCall(fr'[p])
      BY <1>1, <1>3, <1>5 DEF FrameOK, FrameCall
  <2> QED BY <2>1, <2>2, <2>3, <2>4 DEF FrameOK
<1>7. FrameStep(p)
    BY <1>1, <1>3, <1>4, <1>6 DEF FrameStep, Searches, DpIsDir, DpLocked
<1>8. LockStep(p)
  <2>1. f.at \in Unlocked /\ fr'[p].at \in Unlocked
      BY <1>1, <1>3, <1>4 DEF Unlocked, Places, Searches, DpLocked, IpLocked
  <2> QED BY <1>1, <2>1, LockSame
<1>9. Pays(p, a, b)
  <2>1. ASSUME NEW j \in Inum PROVE inode[j].ref + Gains(p, a, b, j) = inode'[j].ref + Had(p, j)
    <3>1. Hit(i, j) + Hit(a, j) + Hit(b, j) = Hit(f.dp, j) /\ inode'[j].ref = inode[j].ref
        BY DEF RefsSame, Trade, Hit, None, Inum
    <3>2. inode[j].ref \in Nat
        BY DEF IInv, CacheOK
    <3> QED BY <1>3, <3>1, <3>2 DEF Gains, Had, Hit
  <2> QED BY <2>1 DEF Pays
<1>10. Overpays(p, a, b)
  <2>1. ASSUME NEW j \in Inum PROVE inode[j].ref + Gains(p, a, b, j) <= inode'[j].ref + Had(p, j)
    <3>1. inode[j].ref + Gains(p, a, b, j) = inode'[j].ref + Had(p, j)
        BY <1>9 DEF Pays
    <3>2. inode'[j].ref + Had(p, j) \in Nat
        BY DEF MemStep, CacheOK, Had, Hit
    <3> QED BY <3>1, <3>2
  <2> QED BY <2>1 DEF Overpays
<1>11. IInv' /\ (InodeRefs => InodeRefs')
    BY <1>1, <1>2, <1>7, <1>8, <1>9, <1>10, KernelOK
<1> QED BY <1>11 DEF Good

-----------------------------------------------------------------------------
(* Shapes of the steps *)

\* A step of p that gets x from iget(), or None, leaves its pointers accounted for.
Accounted(p, a, b, x) ==
    \A j \in Inum : /\ inode'[j].ref = inode[j].ref + Hit(x, j)
                    /\ Gains(p, a, b, j) = Had(p, j) + Hit(x, j)

\* p goes on with other locals.
LEMMA MovesOn ==
    ASSUME IInv, NEW p \in Proc, NEW place, At(p, place), place # "unused",
           NEW fields, NEW ps, Go(p, fields, ps), NEW a, NEW b, PutsAre(p, a, b),
           UNCHANGED files, DOMAIN result' = Proc, DOMAIN buf' = Proc, UNCHANGED panic,
           MemStep(p), LockStep(p), FrameStep(p), NEW x, Accounted(p, a, b, x)
    PROVE  Good
<1>1. puts[p] = <<>> /\ fr[p].at # "unused" /\ panic' \in Messages
    BY AtOK
<1>2. Alone(p)
    BY GoOK DEF files
<1>3. \A j \in Inum : inode[j].ref + Gains(p, a, b, j) = inode'[j].ref + Had(p, j)
                        /\ inode'[j].ref + Had(p, j) \in Nat
  <2>1. ASSUME NEW j \in Inum
        PROVE  inode[j].ref + Gains(p, a, b, j) = inode'[j].ref + Had(p, j)
                 /\ inode'[j].ref + Had(p, j) \in Nat
    <3>1. inode[j].ref \in Nat /\ Had(p, j) \in Nat /\ Hit(x, j) \in Nat
        BY DEF IInv, CacheOK, Had, Hit
    <3> QED BY <3>1 DEF Accounted
  <2> QED BY <2>1
<1>4. Pays(p, a, b) /\ Overpays(p, a, b)
  <2>1. \A m, n : m = n /\ n \in Nat => m <= n
      OBVIOUS
  <2> QED BY <1>3, <2>1 DEF Pays, Overpays
<1>5. IInv' /\ (InodeRefs => InodeRefs')
    BY <1>1, <1>2, <1>4, KernelOK
<1> QED BY <1>5 DEF Good

\* What Return() leaves of the locals.
LEMMA ReturnIs ==
    ASSUME IInv, NEW p \in Proc, NEW r, NEW ps, Return(p, r, ps)
    PROVE  fr'[p] = Idle /\ Go(p, Idle, ps) /\ DOMAIN result' = Proc
<1>1. fr'[p] = Updated(fr[p], Idle)
    BY DEF Return, Go, IInv, ProcsOK
<1>2. DOMAIN fr[p] = DOMAIN Idle
    BY DEF IInv, ProcsOK, OwnOK, FrameOK, FrameTyped, FrameFields, Idle
<1>3. Updated(fr[p], Idle) = Idle
  <2>1. Updated(fr[p], Idle) = [k \in DOMAIN Idle |-> Idle[k]]
      BY <1>2 DEF Updated
  <2> QED BY <2>1 DEF Idle
<1> QED BY <1>1, <1>3 DEF Return, IInv, ProcsOK

\* What a process that is back in its program holds: nothing.
LEMMA IdleIs ==
    /\ FrameOK(Idle) /\ Idle.at = "user" /\ Idle.ip = None /\ Idle.dp = None
    /\ Goal(Idle) = "user"
<1>1. FrameTyped(Idle)
    BY DEF Idle, FrameTyped, FrameFields, Places, None
<1>2. Goal(Idle) = "user"
    BY DEF Goal, Idle
<1>3. FrameHolds(Idle)
    BY <1>2 DEF Idle, FrameHolds, WithIp, IpLocked, Searches, DpLocked, None
<1>4. FrameWants(Idle)
    BY DEF Idle, FrameWants, Searches, WantsIp, None
<1>5. FrameCall(Idle)
    BY <1>2 DEF FrameCall
<1> QED BY <1>1, <1>2, <1>3, <1>4, <1>5 DEF FrameOK, Idle

\* The system call returns, with a and b to iput().
LEMMA ReturnsOK ==
    ASSUME IInv, NEW p \in Proc, NEW place, At(p, place), place # "unused",
           NEW r, NEW ps, Return(p, r, ps), NEW a, NEW b, PutsAre(p, a, b),
           UNCHANGED files, DOMAIN buf' = Proc, UNCHANGED panic, MemStep(p), LockStep(p),
           RefsSame, Trade(a, b, None, fr[p].ip, fr[p].dp)
    PROVE  Good
<1>1. fr'[p] = Idle /\ Go(p, Idle, ps) /\ DOMAIN result' = Proc
    BY ReturnIs
<1>2. FrameStep(p)
    BY <1>1, IdleIs DEF FrameStep
<1>3. Accounted(p, a, b, None)
  <2>1. ASSUME NEW j \in Inum
        PROVE  /\ inode'[j].ref = inode[j].ref + Hit(None, j)
               /\ Gains(p, a, b, j) = Had(p, j) + Hit(None, j)
    <3>1. inode[j].ref \in Nat /\ Had(p, j) \in Nat
        BY DEF IInv, CacheOK, Had, Hit
    <3>2. Hit(None, j) = 0 /\ Hit(a, j) \in Nat /\ Hit(b, j) \in Nat
        BY DEF Hit, None, Inum
    <3>3. Gains(p, a, b, j) = Hit(a, j) + Hit(b, j)
        BY <1>1, <3>2, IdleIs DEF Gains
    <3> QED BY <3>1, <3>2, <3>3 DEF Had, RefsSame, Trade
  <2> QED BY <2>1 DEF Accounted
<1> QED BY <1>1, <1>2, <1>3, MovesOn

-----------------------------------------------------------------------------
(* Locks taken and released *)

\* p, without a lock, locks inode i.
LEMMA LockTaken ==
    ASSUME IInv, NEW p \in Proc, puts[p] = <<>>, NEW i \in Inum, lock[i] = NoProc, Take(p, i),
           fr[p].at \in Unlocked, \A j \in Inum : Holds(p, j)' <=> j = i, Valid(inode', i)
    PROVE  LockStep(p)
<1>1. ASSUME NEW j \in Inum PROVE ~Holds(p, j)
  <2>1. ~Freeing(p, j)
      BY NoPuts
  <2> QED BY <2>1 DEF Unlocked, Holds, DpHeld, IpHeld
<1>2. ASSUME NEW j \in Inum PROVE lock[j] # p
    BY <1>1, ProcAssumption DEF IInv, LocksOK
<1>3. DOMAIN lock' = Inum /\ \A j \in Inum : lock'[j] = IF j = i THEN p ELSE lock[j]
    BY DEF Take, IInv, LocksOK
<1> QED BY <1>2, <1>3 DEF LockStep

\* p unlocks the one inode it holds.
LEMMA LockReleased ==
    ASSUME IInv, NEW p \in Proc, NEW i \in Inum, Release(i),
           Holds(p, i), \A j \in Inum : Holds(p, j) => j = i, \A j \in Inum : ~Holds(p, j)'
    PROVE  LockStep(p)
<1>1. lock[i] = p
    BY DEF IInv, LocksOK
<1>2. ASSUME NEW j \in Inum, j # i PROVE lock[j] # p
    BY <1>2, ProcAssumption DEF IInv, LocksOK
<1>3. DOMAIN lock' = Inum /\ \A j \in Inum : lock'[j] = IF j = i THEN NoProc ELSE lock[j]
    BY DEF Release, IInv, LocksOK
<1> QED BY <1>1, <1>2, <1>3, ProcAssumption DEF LockStep

\* p holds the directory d and goes on with inode i.
LEMMA LockSwapped ==
    ASSUME IInv, NEW p \in Proc, NEW d \in Inum, NEW i \in Inum, lock[i] = NoProc,
           lock' = [lock EXCEPT ![d] = NoProc, ![i] = p],
           Holds(p, d), \A j \in Inum : Holds(p, j) => j = d,
           \A j \in Inum : Holds(p, j)' <=> j = i, Valid(inode', i)
    PROVE  LockStep(p)
<1>1. lock[d] = p
    BY DEF IInv, LocksOK
<1>2. ASSUME NEW j \in Inum, j # d PROVE lock[j] # p
    BY <1>2, ProcAssumption DEF IInv, LocksOK
<1>3. d # i
    BY <1>1, ProcAssumption
<1>4. /\ DOMAIN lock' = Inum
      /\ \A j \in Inum : lock'[j] = IF j = i THEN p ELSE IF j = d THEN NoProc ELSE lock[j]
    BY <1>3 DEF IInv, LocksOK
<1> QED BY <1>1, <1>2, <1>3, <1>4, ProcAssumption DEF LockStep

\* What p holds at a place where it has nothing to iput().
LEMMA HoldsAt ==
    ASSUME NEW p, NEW a, NEW b, NEW i
    PROVE  /\ PutsAre(p, a, b) => (Holds(p, i)' <=> \/ fr'[p].at \in DpLocked /\ fr'[p].dp = i
                                                    \/ fr'[p].at \in IpLocked /\ fr'[p].ip = i)
           /\ puts[p] = <<>> => (Holds(p, i) <=> \/ fr[p].at \in DpLocked /\ fr[p].dp = i
                                                 \/ fr[p].at \in IpLocked /\ fr[p].ip = i)
BY NoPuts DEF PutsAre, Holds, DpHeld, IpHeld

-----------------------------------------------------------------------------
(* namex() *)

\* What namex() still has to look up.
LEMMA NamexIs ==
    ASSUME IInv, NEW p \in Proc, At(p, "namex")
    PROVE  /\ fr[p].dp \in Inum /\ fr[p].path \in Seq(STRING)
           /\ fr[p].path # <<>> => fr[p].want = fr[p].dp /\ lock[fr[p].dp] = NoProc
           /\ fr[p].ret \in Searches
           /\ fr[p].parent = TRUE <=> fr[p].ret \in ParentSearches
           /\ puts[p] = <<>> /\ fr[p].at = "namex" /\ FrameOK(fr[p])
           /\ DOMAIN puts = Proc /\ DOMAIN result = Proc /\ DOMAIN buf = Proc
<1>1. FrameOK(fr[p]) /\ fr[p].at = "namex" /\ puts[p] = <<>>
      /\ DOMAIN puts = Proc /\ DOMAIN result = Proc /\ DOMAIN buf = Proc
    BY AtOK
<1>2. fr[p].dp \in Inum /\ fr[p].path \in Seq(STRING)
    BY <1>1 DEF FrameOK, FrameTyped, FrameHolds, None
<1>3. fr[p].path # <<>> => fr[p].want = fr[p].dp /\ lock[fr[p].dp] = NoProc
    BY <1>1, <1>2, AtOK DEF FrameOK, FrameWants, Inum, None
<1>4. fr[p].ret \in Searches /\ (fr[p].parent = TRUE <=> fr[p].ret \in ParentSearches)
    BY <1>1 DEF FrameOK, FrameTyped
<1> QED BY <1>1, <1>2, <1>3, <1>4

\* namex() has come to the end of the path.
LEMMA NamexEndOK == ASSUME IInv, NEW p \in Proc, NamexEnd(p) PROVE Good
<1>1. At(p, "namex") /\ UNCHANGED <<dinode, inode, lock, files, result, buf, panic>>
    BY DEF NamexEnd
<1>2. MemStep(p) /\ RefsSame
    BY <1>1, ReadNothing
<1>4. CASE fr[p].parent
  <2>1. Found(p, None, "", <<fr[p].dp>>)
      BY <1>4 DEF NamexEnd
  <2>2. PutsAre(p, fr[p].dp, None)
      BY <1>1, <2>1, NamexIs, PutsOne DEF Found
  <2>3. Trade(None, fr[p].dp, None, fr[p].dp, None)
      BY DEF Trade, Hit, None, Inum
  <2> QED BY <1>1, <1>2, <2>1, <2>2, <2>3, FoundOK
<1>5. CASE ~fr[p].parent
  <2>1. Found(p, fr[p].dp, fr[p].name, <<>>)
      BY <1>5 DEF NamexEnd
  <2>2. PutsAre(p, None, None)
      BY <1>1, <2>1, NamexIs, PutsNone DEF Found
  <2>3. fr[p].ret \notin ParentSearches
      BY <1>1, <1>5, NamexIs DEF FrameOK, FrameTyped
  <2>4. Trade(fr[p].dp, None, None, fr[p].dp, None)
      BY DEF Trade, Hit, None, Inum
  <2> QED BY <1>1, <1>2, <2>1, <2>2, <2>3, <2>4, FoundOK
<1> QED BY <1>4, <1>5

\* nameiparent() stops one level early, at a directory.
LEMMA NamexStopOK == ASSUME IInv, NEW p \in Proc, NamexStop(p) PROVE Good
<1>1. /\ At(p, "namex") /\ UNCHANGED <<dinode, lock, files, result, buf, panic>>
      /\ Len(fr[p].path) = 1 /\ Type(fr[p].dp) = "dir" /\ inode' = Ilock(fr[p].dp)
      /\ Found(p, fr[p].dp, Head(fr[p].path), <<>>)
    BY DEF NamexStop
<1>2. fr[p].path # <<>>
    BY <1>1
<1>3. dinode[fr[p].dp].type = "dir"
    BY <1>1, NamexIs, TypeIs DEF IInv
<1>4. SafeDir(fr[p].dp)
    BY <1>1, <1>2, <1>3, NamexIs, TypedSafe DEF SafeDir
<1>5. MemStep(p) /\ RefsSame
    BY <1>1, <1>3, NamexIs, ReadIn
<1>6. Trade(fr[p].dp, None, None, fr[p].dp, None)
    BY DEF Trade, Hit, None, Inum
<1>7. PutsAre(p, None, None)
    BY <1>1, NamexIs, PutsNone DEF Found
<1> QED BY <1>1, <1>4, <1>5, <1>6, <1>7, FoundOK

\* namex() meets what is no directory, or a name that is not there.
LEMMA NamexFailOK == ASSUME IInv, NEW p \in Proc, NamexFail(p) PROVE Good
<1>1. /\ At(p, "namex") /\ UNCHANGED <<dinode, lock, files, result, buf, panic>>
      /\ Type(fr[p].dp) \in {"file", "dev", "dir"} /\ inode' = Ilock(fr[p].dp)
      /\ Found(p, None, "", <<fr[p].dp>>)
    BY DEF NamexFail
<1>2. dinode[fr[p].dp].type # "free"
    BY <1>1, NamexIs, TypeIs DEF IInv
<1>3. MemStep(p) /\ RefsSame
    BY <1>1, <1>2, NamexIs, ReadIn
<1>4. Trade(None, fr[p].dp, None, fr[p].dp, None)
    BY DEF Trade, Hit, None, Inum
<1>5. PutsAre(p, fr[p].dp, None)
    BY <1>1, NamexIs, PutsOne DEF Found
<1> QED BY <1>1, <1>3, <1>4, <1>5, FoundOK

\* A step that reads in inode i and gets x from iget().
LEMMA ReadAndGet ==
    ASSUME IInv, NEW p \in Proc, NEW i \in Inum, dinode[i].type # "free", NEW x \in Inum,
           inode' = Iget(Ilock(i), x), UNCHANGED dinode, inode[i].ref > 0
    PROVE  /\ MemStep(p) /\ Valid(inode', i)
           /\ \A j \in Inum : inode'[j].ref = inode[j].ref + Hit(x, j)
<1>1. /\ CacheOK(Ilock(i), dinode) /\ Valid(Ilock(i), i)
      /\ \A j \in Inum : /\ Ilock(i)[j].ref = inode[j].ref
                         /\ Valid(inode, j) => Valid(Ilock(i), j)
    BY IlockOK DEF IInv
<1>2. /\ CacheOK(inode', dinode)
      /\ \A j \in Inum : /\ inode'[j].ref = Ilock(i)[j].ref + Hit(j, x)
                         /\ Valid(Ilock(i), j) /\ Ilock(i)[j].ref > 0 => Valid(inode', j)
    BY <1>1, IgetOK
<1>3. DiskOK(dinode') /\ SameTypes(dinode, dinode')
    BY DEF IInv, SameTypes
<1>4. MemStep(p)
    BY <1>1, <1>2, <1>3, MemOK
<1> QED BY <1>1, <1>2, <1>4 DEF Hit

\* Who has an inode in its locals is counted as its user.
LEMMA InUse ==
    ASSUME IInv, NEW p \in Proc, NEW i \in Inum, Used(i)
    PROVE  inode[i].ref > 0
<1>1. References(i) >= 1 /\ References(i) \in Nat
    BY RefsNat DEF IInv, ProcsOK
<1> QED BY <1>1 DEF IInv, RefsCover, CacheOK

\* The path that is left.
LEMMA TailIs ==
    ASSUME NEW S, NEW s \in Seq(S), s # <<>>
    PROVE  Tail(s) \in Seq(S) /\ (Tail(s) = <<>> <=> Len(s) = 1)
<1>1. Tail(s) \in Seq(S) /\ Len(Tail(s)) = Len(s) - 1 /\ Len(s) \in Nat
    OBVIOUS
<1>2. \A t \in Seq(S) : t = <<>> <=> Len(t) = 0
    OBVIOUS
<1>3. Tail(s) = <<>> <=> Len(Tail(s)) = 0
    BY <1>1, <1>2
<1> QED BY <1>1, <1>3

\* namex() goes down one level: the inode of the entry is safe, the directory is put.
LEMMA NamexDownOK == ASSUME IInv, NEW p \in Proc, NamexDown(p) PROVE Good
<1> DEFINE f == fr[p]
           next == Entries(f.dp)[Head(f.path)]
<1>1. /\ At(p, "namex") /\ f.path # <<>> /\ Type(f.dp) = "dir" /\ Has(f.dp, Head(f.path))
      /\ IF CacheFull(next) THEN Panics("iget: no inodes")
         ELSE /\ inode' = Iget(Ilock(f.dp), next)
              /\ Go(p, [path |-> Tail(f.path), dp |-> next, name |-> Head(f.path),
                        want |-> IF Len(f.path) = 1 THEN None ELSE next], <<f.dp>>)
              /\ UNCHANGED <<dinode, lock, files, result, buf, panic>>
    BY DEF NamexDown
<1>2. CASE CacheFull(next)
    BY <1>1, <1>2, PanicOK DEF Messages
<1>3. CASE ~CacheFull(next)
  <2>1. /\ inode' = Iget(Ilock(f.dp), next)
        /\ Go(p, [path |-> Tail(f.path), dp |-> next, name |-> Head(f.path),
                  want |-> IF Len(f.path) = 1 THEN None ELSE next], <<f.dp>>)
        /\ UNCHANGED <<dinode, lock, files, result, buf, panic>>
      BY <1>1, <1>3
  <2>2. f.dp \in Inum /\ f.path \in Seq(STRING) /\ f.at = "namex" /\ FrameOK(f)
      BY <1>1, NamexIs
  <2>3. dinode[f.dp].type = "dir"
      BY <1>1, <2>2, TypeIs DEF IInv
  <2>4. next \in Inum
      BY <1>1, <2>2, <2>3 DEF IInv, DiskOK, Has, Entries
  <2> HIDE DEF next
  <2>5. MemStep(p) /\ \A j \in Inum : inode'[j].ref = inode[j].ref + Hit(next, j)
    <3>1. inode[f.dp].ref > 0
        BY <2>2, InUse DEF Used
    <3> QED BY <2>1, <2>2, <2>3, <2>4, <3>1, ReadAndGet
  <2>6. PutsAre(p, f.dp, None)
      BY <1>1, <2>1, <2>2, NamexIs, PutsOne
  <2>7. DOMAIN result' = Proc /\ DOMAIN buf' = Proc
      BY <1>1, <2>1, NamexIs
  <2>8. /\ DOMAIN fr'[p] = FrameFields
        /\ fr'[p].at = "namex" /\ fr'[p].path = Tail(f.path) /\ fr'[p].dp = next
        /\ fr'[p].want = (IF Len(f.path) = 1 THEN None ELSE next)
        /\ fr'[p].ip = f.ip /\ fr'[p].ret = f.ret /\ fr'[p].parent = f.parent
        /\ fr'[p].call = f.call
    <3>1. fr'[p] = Updated(f, [path |-> Tail(f.path), dp |-> next, name |-> Head(f.path),
                               want |-> IF Len(f.path) = 1 THEN None ELSE next])
        BY <2>1, <2>7, GoOK DEF files
    <3> QED BY <2>2, <3>1 DEF Updated, FrameOK, FrameTyped, FrameFields
  <2>9. Goal(fr'[p]) = Goal(f) /\ Tail(f.path) \in Seq(STRING)
        /\ (Tail(f.path) = <<>> <=> Len(f.path) = 1)
      BY <1>1, <2>2, <2>8, TailIs DEF Goal
  <2>10. FrameOK(fr'[p])
    <3>1. FrameTyped(fr'[p])
        BY <2>2, <2>4, <2>8, <2>9 DEF FrameOK, FrameTyped
    <3>2. FrameHolds(fr'[p])
        BY <2>2, <2>4, <2>8, <2>9 DEF FrameOK, FrameHolds, None, Inum
    <3>3. FrameWants(fr'[p])
        BY <2>2, <2>8, <2>9 DEF FrameOK, FrameWants, Searches, WantsIp
    <3>4. FrameCall(fr'[p])
        BY <2>2, <2>8, <2>9 DEF FrameOK, FrameCall
    <3> QED BY <3>1, <3>2, <3>3, <3>4 DEF FrameOK
  <2>11. FrameStep(p)
    <3>1. f.ip # None => Safe(f.ip)
        BY <1>1, <2>2, AtOK DEF IpUnsafe
    <3> QED BY <2>8, <2>10, <3>1 DEF FrameStep, DpIsDir, ParentSearches, DpLocked
  <2>12. LockStep(p)
    <3>1. "namex" \in Unlocked
        BY DEF Unlocked, Places, DpLocked, IpLocked
    <3> QED BY <1>1, <2>1, <2>2, <2>5, <2>6, <2>8, <3>1, NamexIs, LockSame
  <2>13. Accounted(p, f.dp, None, next)
    <3>1. ASSUME NEW j \in Inum PROVE Gains(p, f.dp, None, j) = Had(p, j) + Hit(next, j)
        BY <2>8 DEF Gains, Had, Hit, None, Inum
    <3> QED BY <2>5, <3>1 DEF Accounted
  <2> QED BY <1>1, <2>1, <2>5, <2>6, <2>7, <2>11, <2>12, <2>13, MovesOn
<1> QED BY <1>2, <1>3

-----------------------------------------------------------------------------
(* Calls begin, and those that find nothing end *)

\* namex() starts at a directory in use, or at the root.
LEMMA StartIs ==
    ASSUME IInv, NEW p \in Proc, fr[p].at # "unused", NEW path, IsPath(path)
    PROVE  Start(p, path) \in Inum /\ path.elems \in Seq(STRING)
<1>1. cwd[p] \in Inum
    BY DEF IInv, ProcsOK, OwnOK, SafeDir, Safe
<1> QED BY <1>1, SizeAssumption DEF Start, ROOTINO, Inum, IsPath

\* namex() may be called for `at`, by a call c that holds ip.
NamexFor(at, parent, ip, c) ==
    /\ at \in Searches /\ parent \in BOOLEAN /\ (parent = TRUE <=> at \in ParentSearches)
    /\ ip \in Inum \cup {None} /\ (ip # None <=> at \in WithIp)
    /\ at = "create_dir" => c.op \in {"open", "mkdir", "mknod"}
    /\ at \in {"link_old", "move_old", "move_dir"} => IsPath(c.new)
    /\ at = "move_old" => IsPath(c.path)

\* The locals of namex() at its start.
LEMMA NamexFrame ==
    ASSUME NEW p, FrameOK(fr[p]), NEW path, path.elems \in Seq(STRING), Start(p, path) \in Inum,
           NEW parent, NEW at, NEW ip, NEW c, NamexFor(at, parent, ip, c),
           fr'[p] = Updated(fr[p], Namex(p, path, parent, at, ip, c))
    PROVE  /\ FrameOK(fr'[p]) /\ fr'[p].at = "namex" /\ fr'[p].dp = Start(p, path)
           /\ fr'[p].ip = ip
<1> DEFINE g == fr'[p]
<1>1. /\ DOMAIN g = FrameFields
      /\ g.at = "namex" /\ g.path = path.elems /\ g.parent = parent /\ g.ret = at
      /\ g.dp = Start(p, path) /\ g.ip = ip /\ g.call = c
      /\ g.want = IF path.elems = <<>> THEN None ELSE Start(p, path)
    BY DEF Namex, Updated, FrameOK, FrameTyped, FrameFields
<1>2. Goal(g) = at
    BY <1>1 DEF Goal
<1> HIDE DEF g
<1>3. FrameTyped(g)
    BY <1>1 DEF FrameTyped, Places, NamexFor
<1>4. FrameHolds(g)
    BY <1>1, <1>2 DEF FrameHolds, None, Inum, NamexFor
<1>5. FrameWants(g)
    BY <1>1 DEF FrameWants, Searches, WantsIp
<1>6. FrameCall(g)
    BY <1>1, <1>2 DEF FrameCall, Searches, NamexFor
<1> QED BY <1>1, <1>3, <1>4, <1>5, <1>6 DEF FrameOK, g

\* A system call on a path begins: the directory where the path starts is safe.
LEMMA CallOK ==
    ASSUME IInv, NEW p \in Proc, NEW op, NEW c, NEW path, IsPath(path), NEW parent, NEW at,
           NamexFor(at, parent, None, c), Call(p, op, c, path, parent, at)
    PROVE  Good
<1>1. /\ At(p, "user")
      /\ IF CacheFull(Start(p, path)) THEN Panics("iget: no inodes")
         ELSE /\ inode' = Iget(inode, Start(p, path))
              /\ Go(p, Namex(p, path, parent, at, None, c), <<>>)
              /\ UNCHANGED <<dinode, lock, files, result, buf, panic>>
    BY DEF Call, User
<1>2. CASE CacheFull(Start(p, path))
    BY <1>1, <1>2, PanicOK DEF Messages
<1>3. CASE ~CacheFull(Start(p, path))
  <2> DEFINE x == Start(p, path)
  <2>1. /\ inode' = Iget(inode, x)
        /\ Go(p, Namex(p, path, parent, at, None, c), <<>>)
        /\ UNCHANGED <<dinode, lock, files, result, buf, panic>>
      BY <1>1, <1>3
  <2>2. /\ puts[p] = <<>> /\ fr[p].at = "user" /\ FrameOK(fr[p])
        /\ DOMAIN puts = Proc /\ DOMAIN result' = Proc /\ DOMAIN buf' = Proc
      BY <1>1, <2>1, AtOK
  <2>3. x \in Inum /\ path.elems \in Seq(STRING)
      BY <2>2, StartIs
  <2>4. fr[p].ip = None /\ fr[p].dp = None
      BY <2>2 DEF FrameOK, FrameHolds, Goal, WithIp, IpLocked, Searches, DpLocked
  <2>5. fr'[p] = Updated(fr[p], Namex(p, path, parent, at, None, c))
      BY <2>1, <2>2, GoOK DEF files
  <2>6. FrameOK(fr'[p]) /\ fr'[p].at = "namex" /\ fr'[p].dp = x /\ fr'[p].ip = None
      BY <2>2, <2>3, <2>5, NamexFrame
  <2> HIDE DEF x
  <2>7. MemStep(p) /\ \A j \in Inum : inode'[j].ref = inode[j].ref + Hit(x, j)
    <3>1. /\ CacheOK(inode', dinode)
          /\ \A j \in Inum : /\ inode'[j].ref = inode[j].ref + Hit(j, x)
                             /\ Valid(inode, j) /\ inode[j].ref > 0 => Valid(inode', j)
        BY <2>1, <2>3, IgetOK DEF IInv
    <3>2. DiskOK(dinode') /\ SameTypes(dinode, dinode')
        BY <2>1 DEF IInv, SameTypes
    <3> QED BY <3>1, <3>2, MemOK DEF Hit
  <2>8. PutsAre(p, None, None)
      BY <2>1, <2>2, PutsNone
  <2>9. FrameStep(p)
      BY <2>6 DEF FrameStep, DpIsDir, ParentSearches, DpLocked
  <2>10. LockStep(p)
    <3>1. fr[p].at \in Unlocked /\ fr'[p].at \in Unlocked
        BY <2>2, <2>6 DEF Unlocked, Places, DpLocked, IpLocked
    <3> QED BY <2>1, <2>2, <2>7, <2>8, <3>1, LockSame
  <2>11. Accounted(p, None, None, x)
    <3>1. ASSUME NEW j \in Inum PROVE Gains(p, None, None, j) = Had(p, j) + Hit(x, j)
        BY <2>4, <2>6 DEF Gains, Had, Hit, None, Inum
    <3> QED BY <2>7, <3>1 DEF Accounted
  <2> QED BY <1>1, <2>1, <2>2, <2>7, <2>8, <2>9, <2>10, <2>11, MovesOn
<1> QED BY <1>2, <1>3

\* So do all of them.
LEMMA PathCallOK ==
    ASSUME IInv, NEW p \in Proc, NEW c, IsCall(c), PathCall(p, c)
    PROVE  Good
<1>1. IsPath(c.path)
    BY DEF IsCall
<1>2. CASE Link(p, c)
  <2>1. NamexFor("link_old", FALSE, None, c)
      BY <1>2 DEF Link, Call, IsCall, NamexFor, Searches, ParentSearches, WithIp, IpLocked
  <2> QED BY <1>1, <1>2, <2>1, CallOK DEF Link
<1>3. CASE Unlink(p, c)
  <2>1. NamexFor("unlink_dir", TRUE, None, c)
      BY DEF NamexFor, Searches, ParentSearches, WithIp, IpLocked
  <2> QED BY <1>1, <1>3, <2>1, CallOK DEF Unlink
<1>4. CASE Create(p, c)
  <2>1. NamexFor("create_dir", TRUE, None, c)
      BY <1>4 DEF Create, NamexFor, Searches, ParentSearches, WithIp, IpLocked
  <2> QED BY <1>1, <1>4, <2>1, CallOK DEF Create
<1>5. CASE Open(p, c)
  <2>1. NamexFor("open_old", FALSE, None, c)
      BY DEF NamexFor, Searches, ParentSearches, WithIp, IpLocked
  <2> QED BY <1>1, <1>5, <2>1, CallOK DEF Open
<1>6. CASE Chdir(p, c)
  <2>1. NamexFor("chdir_dir", FALSE, None, c)
      BY DEF NamexFor, Searches, ParentSearches, WithIp, IpLocked
  <2> QED BY <1>1, <1>6, <2>1, CallOK DEF Chdir
<1>7. CASE MoveFile(p, c)
  <2>1. NamexFor("move_old", FALSE, None, c)
      BY <1>7 DEF MoveFile, Call, IsCall, NamexFor, Searches, ParentSearches, WithIp, IpLocked
  <2> QED BY <1>1, <1>7, <2>1, CallOK DEF MoveFile
<1> QED BY <1>2, <1>3, <1>4, <1>5, <1>6, <1>7 DEF PathCall

\* The call fails as the path leads nowhere.
LEMMA NotFoundOK == ASSUME IInv, NEW p \in Proc, NotFound(p) PROVE Good
<1>1. /\ fr[p].at \in {"link_old", "unlink_dir", "create_dir", "open_old", "chdir_dir",
                       "move_old"}
      /\ At(p, fr[p].at) /\ fr[p].dp = None /\ Return(p, -1, <<>>)
      /\ UNCHANGED <<dinode, inode, lock, files, buf, panic>>
    BY DEF NotFound
<1>2. puts[p] = <<>> /\ FrameOK(fr[p]) /\ DOMAIN puts = Proc /\ DOMAIN buf' = Proc
    BY <1>1, AtOK
<1>3. fr[p].ip = None
    BY <1>1, <1>2 DEF FrameOK, FrameHolds, Goal, WithIp, IpLocked
<1>4. PutsAre(p, None, None)
    BY <1>1, <1>2, PutsNone DEF Return
<1>5. MemStep(p) /\ RefsSame
    BY <1>1, ReadNothing
<1>6. Trade(None, None, None, fr[p].ip, fr[p].dp)
    BY <1>1, <1>3 DEF Trade, Hit, None, Inum
<1>7. LockStep(p)
  <2>1. fr[p].at \in Unlocked /\ fr'[p].at \in Unlocked
      BY <1>1, ReturnIs, IdleIs DEF Unlocked, Places, Searches, DpLocked, IpLocked
  <2> QED BY <1>1, <1>2, <1>4, <1>5, <2>1, LockSame
<1> QED BY <1>1, <1>2, <1>4, <1>5, <1>6, <1>7, ReturnsOK

\* The inode in dp, that a call locks next.
LEMMA DpIs ==
    ASSUME IInv, NEW p \in Proc, At(p, fr[p].at), fr[p].at \in Searches, fr[p].dp # None
    PROVE  /\ fr[p].dp \in Inum /\ lock[fr[p].dp] = NoProc
           /\ Type(fr[p].dp) = dinode[fr[p].dp].type /\ inode[fr[p].dp].ref > 0
           /\ dinode[fr[p].dp].type # "free" => Safe(fr[p].dp)
           /\ fr[p].at \in ParentSearches => SafeDir(fr[p].dp)
<1>1. fr[p].dp \in Inum /\ lock[fr[p].dp] = NoProc
    BY AtOK DEF FrameOK, FrameWants
<1>2. Type(fr[p].dp) = dinode[fr[p].dp].type
    BY <1>1, TypeIs DEF IInv
<1>3. inode[fr[p].dp].ref > 0
    BY <1>1, InUse DEF Used
<1> QED BY <1>1, <1>2, <1>3, AtOK, TypedSafe DEF DpIsDir

\* The call reads in the inode in dp, puts it and returns.
LEMMA DpReturnsOK ==
    ASSUME IInv, NEW p \in Proc, fr[p].at \in Searches \ WithIp, At(p, fr[p].at),
           fr[p].dp # None, dinode[fr[p].dp].type # "free", inode' = Ilock(fr[p].dp),
           NEW r, Return(p, r, <<fr[p].dp>>), UNCHANGED <<dinode, lock, files, buf, panic>>
    PROVE  Good
<1> DEFINE f == fr[p]
<1>1. puts[p] = <<>> /\ FrameOK(f) /\ DOMAIN puts = Proc /\ DOMAIN buf' = Proc
    BY AtOK
<1>2. f.ip = None
    BY <1>1 DEF FrameOK, FrameHolds, Goal, Searches
<1>3. f.dp \in Inum
    BY DpIs
<1>4. PutsAre(p, f.dp, None)
    BY <1>1, <1>3, PutsOne DEF Return
<1>5. MemStep(p) /\ RefsSame
    BY <1>3, ReadIn
<1>6. Trade(f.dp, None, None, f.ip, f.dp)
    BY <1>2 DEF Trade, Hit, None, Inum
<1>7. LockStep(p)
  <2>1. f.at \in Unlocked /\ fr'[p].at \in Unlocked
      BY ReturnIs, IdleIs DEF Unlocked, Places, Searches, DpLocked, IpLocked
  <2> QED BY <1>1, <1>4, <1>5, <2>1, LockSame
<1>8. f.at # "unused"
    BY DEF Searches
<1> QED BY <1>1, <1>4, <1>5, <1>6, <1>7, <1>8, ReturnsOK

\* The call fails as the inode is not of the type it needs.
LEMMA WrongTypeOK == ASSUME IInv, NEW p \in Proc, WrongType(p) PROVE Good
<1>1. /\ fr[p].at \in {"link_old", "open_old", "chdir_dir", "move_old"} /\ At(p, fr[p].at)
      /\ Type(fr[p].dp) \in {"file", "dir", "dev"} /\ fr[p].dp # None
      /\ inode' = Ilock(fr[p].dp) /\ Return(p, -1, <<fr[p].dp>>)
      /\ UNCHANGED <<dinode, lock, files, buf, panic>>
    BY DEF WrongType, At
<1>2. fr[p].at \in Searches \ WithIp
    BY <1>1 DEF Searches, WithIp, IpLocked
<1>3. dinode[fr[p].dp].type # "free"
    BY <1>1, <1>2, DpIs
<1> QED BY <1>1, <1>2, <1>3, DpReturnsOK

\* Each panic stops the system as it is.
LEMMA NoTypeOK == ASSUME IInv, NEW p \in Proc, NoType(p) \/ UnlinkPanic(p) PROVE Good
BY PanicOK DEF NoType, UnlinkPanic, Messages

-----------------------------------------------------------------------------
(* sys_link(), and what sys_move_file() shares with it *)

\* ilock() of inode i, then n for its link count, and iupdate().
LEMMA LinkCountOK ==
    ASSUME IInv, NEW i \in Inum, dinode[i].type # "free", NEW n \in Int, NEW ind,
           ind = WithNlink(Ilock(i), i, n)
    PROVE  /\ CacheOK(ind, dinode) /\ Valid(ind, i)
           /\ DiskOK(Iupdate(dinode, ind, i)) /\ SameTypes(dinode, Iupdate(dinode, ind, i))
           /\ \A j \in Inum : ind[j].ref = inode[j].ref
           /\ \A j \in Inum : Valid(inode, j) => Valid(ind, j)
<1>1. /\ CacheOK(Ilock(i), dinode) /\ Valid(Ilock(i), i)
      /\ \A j \in Inum : /\ Ilock(i)[j].ref = inode[j].ref
                         /\ Valid(inode, j) => Valid(Ilock(i), j)
    BY IlockOK DEF IInv
<1>2. /\ CacheOK(ind, dinode)
      /\ \A j \in Inum : /\ ind[j].ref = Ilock(i)[j].ref
                         /\ ind[j].valid = Ilock(i)[j].valid
    BY <1>1, WithNlinkOK
<1>3. Valid(ind, i) /\ \A j \in Inum : Valid(inode, j) => Valid(ind, j)
    BY <1>1, <1>2 DEF Valid
<1>4. DiskOK(Iupdate(dinode, ind, i)) /\ SameTypes(dinode, Iupdate(dinode, ind, i))
  <2>1. DiskOK(dinode) /\ SameTypes(dinode, dinode)
      BY DEF IInv, SameTypes
  <2> QED BY <1>2, <1>3, <2>1, IupdateOK
<1> QED BY <1>1, <1>2, <1>3, <1>4

\* sys_link() and sys_move_file() count one link more, and go on to the new name.
LEMMA AddLinkOK ==
    ASSUME IInv, NEW p \in Proc, NEW path, IsPath(path), NEW at \in {"link_dir", "move_dir"},
           fr[p].at \in {"link_old", "move_old"}, At(p, fr[p].at), fr[p].dp # None,
           Type(fr[p].dp) \in {"file", "dev"}, AddLink(p, path, at),
           at = "move_dir" => IsPath(fr[p].call.new)
    PROVE  Good
<1> DEFINE f == fr[p]
           i == f.dp
           x == Start(p, path)
           ind == WithNlink(Ilock(i), i, OneMore(i))
<1>1. CASE CacheFull(x)
    BY <1>1, PanicOK DEF AddLink, Messages
<1>2. CASE ~CacheFull(x)
  <2>1. /\ inode' = Iget(ind, x) /\ dinode' = Iupdate(dinode, ind, i)
        /\ Go(p, Namex(p, path, TRUE, at, i, f.call), <<>>)
        /\ UNCHANGED <<lock, files, result, buf, panic>>
      BY <1>2 DEF AddLink
  <2>2. /\ puts[p] = <<>> /\ FrameOK(f)
        /\ DOMAIN puts = Proc /\ DOMAIN result' = Proc /\ DOMAIN buf' = Proc
      BY <2>1, AtOK
  <2>3. i \in Inum /\ Safe(i) /\ dinode[i].type # "free" /\ inode[i].ref > 0
    <3>1. i \in Inum /\ dinode[i].type # "free" /\ inode[i].ref > 0
        BY DpIs DEF Searches
    <3> QED BY <3>1, DpIs DEF Searches
  <2>4. x \in Inum /\ path.elems \in Seq(STRING)
      BY StartIs
  <2>5. f.ip = None
      BY <2>2 DEF FrameOK, FrameHolds, Goal, WithIp, IpLocked
  <2>6. fr'[p] = Updated(f, Namex(p, path, TRUE, at, i, f.call))
      BY <2>1, <2>2, GoOK DEF files
  <2>7. FrameOK(fr'[p]) /\ fr'[p].at = "namex" /\ fr'[p].dp = x /\ fr'[p].ip = i
    <3>1. PICK parent \in BOOLEAN : parent = TRUE
        OBVIOUS
    <3>2. NamexFor(at, parent, i, f.call)
        BY <2>3, <3>1 DEF NamexFor, Searches, ParentSearches, WithIp, None, Inum
    <3>3. fr'[p] = Updated(f, Namex(p, path, parent, at, i, f.call))
        BY <2>6, <3>1
    <3> QED BY <2>2, <2>4, <3>2, <3>3, NamexFrame
  <2> HIDE DEF x
  <2>8. MemStep(p) /\ \A j \in Inum : inode'[j].ref = inode[j].ref + Hit(x, j)
    <3>1. OneMore(i) \in Int
        BY <2>3, TypeIs DEF OneMore, IInv
    <3>2. /\ CacheOK(ind, dinode) /\ DiskOK(dinode') /\ SameTypes(dinode, dinode')
          /\ \A j \in Inum : ind[j].ref = inode[j].ref
          /\ \A j \in Inum : Valid(inode, j) => Valid(ind, j)
        BY <2>1, <2>3, <3>1, LinkCountOK
    <3> HIDE DEF ind
    <3>3. /\ CacheOK(inode', dinode)
          /\ \A j \in Inum : /\ inode'[j].ref = ind[j].ref + Hit(j, x)
                             /\ Valid(ind, j) /\ ind[j].ref > 0 => Valid(inode', j)
        BY <2>1, <2>4, <3>2, IgetOK
    <3>4. \A j \in Inum : Valid(inode, j) /\ inode[j].ref > 0 => Valid(inode', j)
        BY <3>2, <3>3
    <3> QED BY <3>2, <3>3, <3>4, MemOK DEF Hit
  <2>9. PutsAre(p, None, None)
      BY <2>1, <2>2, PutsNone
  <2>10. FrameStep(p)
      BY <2>3, <2>7 DEF FrameStep, DpIsDir, ParentSearches, DpLocked
  <2>11. LockStep(p)
    <3>1. f.at \in Unlocked /\ fr'[p].at \in Unlocked
        BY <2>7 DEF Unlocked, Places, Searches, DpLocked, IpLocked
    <3> QED BY <2>1, <2>2, <2>8, <2>9, <3>1, LockSame
  <2>12. Accounted(p, None, None, x)
    <3>1. ASSUME NEW j \in Inum PROVE Gains(p, None, None, j) = Had(p, j) + Hit(x, j)
        BY <2>5, <2>7 DEF Gains, Had, Hit, None, Inum
    <3> QED BY <2>8, <3>1 DEF Accounted
  <2> QED BY <2>1, <2>2, <2>8, <2>9, <2>10, <2>11, <2>12, MovesOn
<1> QED BY <1>1, <1>2

\* They have found the file.
LEMMA LinkOldOK == ASSUME IInv, NEW p \in Proc, LinkOld(p) \/ MoveOld(p) PROVE Good
<1>1. FrameCall(fr[p])
    BY DEF IInv, ProcsOK, OwnOK, FrameOK
<1>2. CASE LinkOld(p)
  <2>1. fr[p].at = "link_old"
      BY <1>2 DEF LinkOld, At
  <2>2. IsPath(fr[p].call.new)
      BY <1>1, <2>1 DEF FrameCall, Goal
  <2> QED BY <1>2, <2>1, <2>2, AddLinkOK DEF LinkOld
<1>3. CASE MoveOld(p)
  <2>1. fr[p].at = "move_old"
      BY <1>3 DEF MoveOld, At
  <2>2. IsPath(fr[p].call.path) /\ IsPath(fr[p].call.new)
      BY <1>1, <2>1 DEF FrameCall, Goal
  <2> QED BY <1>3, <2>1, <2>2, AddLinkOK DEF MoveOld
<1> QED BY <1>2, <1>3

\* sys_link() writes the new entry.
LEMMA LinkDirOK == ASSUME IInv, NEW p \in Proc, LinkDir(p) PROVE Good
<1> DEFINE f == fr[p]
<1>1. /\ f.at = "link_dir" /\ At(p, f.at) /\ f.dp # None /\ inode' = Ilock(f.dp)
      /\ dinode' = WithEntry(dinode, f.dp, f.name, f.ip) /\ Return(p, 0, <<f.dp, f.ip>>)
      /\ UNCHANGED <<lock, files, buf, panic>>
    BY DEF LinkDir, At
<1>2. puts[p] = <<>> /\ FrameOK(f) /\ DOMAIN puts = Proc /\ DOMAIN buf' = Proc
    BY <1>1, AtOK
<1>3. f.dp \in Inum /\ SafeDir(f.dp)
    BY <1>1, DpIs DEF Searches, ParentSearches
<1>4. f.ip \in Inum
    BY <1>1, <1>2 DEF FrameOK, FrameHolds, FrameTyped, Goal, WithIp
<1>5. PutsAre(p, f.dp, f.ip)
    BY <1>1, <1>2, <1>3, <1>4, PutsTwo DEF Return
<1>6. MemStep(p) /\ RefsSame
  <2>1. dinode[f.dp].type # "free"
      BY <1>3 DEF SafeDir, Safe
  <2>2. /\ CacheOK(inode', dinode)
        /\ \A j \in Inum : /\ inode'[j].ref = inode[j].ref
                           /\ Valid(inode, j) => Valid(inode', j)
      BY <1>1, <1>3, <2>1, IlockOK DEF IInv
  <2>3. DiskOK(dinode') /\ SameTypes(dinode, dinode')
      BY <1>1, <1>3, <1>4, WithEntryOK DEF IInv
  <2> QED BY <2>2, <2>3, MemOK DEF RefsSame
<1>7. Trade(f.dp, f.ip, None, f.ip, f.dp)
    BY DEF Trade, Hit, None, Inum
<1>8. LockStep(p)
  <2>1. f.at \in Unlocked /\ fr'[p].at \in Unlocked
      BY <1>1, ReturnIs, IdleIs DEF Unlocked, Places, Searches, DpLocked, IpLocked
  <2> QED BY <1>1, <1>2, <1>5, <1>6, <2>1, LockSame
<1> QED BY <1>1, <1>2, <1>5, <1>6, <1>7, <1>8, ReturnsOK

\* dirlink() finds the name taken, and puts that inode with the directory locked.
LEMMA LinkExistsOK == ASSUME IInv, NEW p \in Proc, LinkExists(p) PROVE Good
<1> DEFINE f == fr[p]
           old == Entries(f.dp)[f.name]
<1>1. /\ f.at = "link_dir" /\ At(p, f.at) /\ f.dp # None /\ Has(f.dp, f.name)
    BY DEF LinkExists, At
<1>2. CASE CacheFull(old)
    BY <1>2, PanicOK DEF LinkExists, Messages
<1>3. CASE ~CacheFull(old)
  <2>1. /\ inode' = Iget(Ilock(f.dp), old) /\ Take(p, f.dp)
        /\ Go(p, [at |-> "link_exists", want |-> None], <<old>>)
        /\ UNCHANGED <<dinode, files, result, buf, panic>>
      BY <1>3 DEF LinkExists
  <2>2. /\ puts[p] = <<>> /\ FrameOK(f) /\ (f.ip # None => Safe(f.ip))
        /\ DOMAIN puts = Proc /\ DOMAIN result' = Proc /\ DOMAIN buf' = Proc
      BY <1>1, <2>1, AtOK DEF IpUnsafe
  <2>3. f.dp \in Inum /\ SafeDir(f.dp) /\ lock[f.dp] = NoProc /\ inode[f.dp].ref > 0
      BY <1>1, DpIs DEF Searches, ParentSearches
  <2>4. dinode[f.dp].type = "dir" /\ dinode[f.dp].type # "free"
      BY <2>3 DEF SafeDir
  <2>5. old \in Inum
      BY <1>1, <2>3, <2>4 DEF IInv, DiskOK, Has, Entries
  <2> HIDE DEF old
  <2>6. MemStep(p) /\ Valid(inode', f.dp)
        /\ \A j \in Inum : inode'[j].ref = inode[j].ref + Hit(old, j)
      BY <2>1, <2>3, <2>4, <2>5, ReadAndGet
  <2>7. PutsAre(p, old, None)
      BY <2>1, <2>2, <2>5, PutsOne
  <2>8. /\ DOMAIN fr'[p] = FrameFields
        /\ fr'[p].at = "link_exists" /\ fr'[p].want = None /\ fr'[p].ip = f.ip
        /\ fr'[p].dp = f.dp /\ fr'[p].path = f.path /\ fr'[p].parent = f.parent
    <3>1. fr'[p] = Updated(f, [at |-> "link_exists", want |-> None])
        BY <2>1, <2>2, GoOK DEF files
    <3> QED BY <2>2, <3>1 DEF Updated, FrameOK, FrameTyped, FrameFields
  <2>9. Goal(fr'[p]) = "link_exists" /\ Goal(f) = "link_dir"
      BY <1>1, <2>8 DEF Goal
  <2>10. FrameOK(fr'[p])
    <3>1. FrameTyped(fr'[p])
        BY <2>2, <2>8 DEF FrameOK, FrameTyped, Places, DpLocked
    <3>2. FrameHolds(fr'[p])
        BY <1>1, <2>2, <2>8, <2>9 DEF FrameOK, FrameHolds, WithIp, DpLocked
    <3>3. FrameWants(fr'[p])
        BY <2>8 DEF FrameWants, Searches, WantsIp
    <3>4. FrameCall(fr'[p])
        BY <2>9 DEF FrameCall
    <3> QED BY <3>1, <3>2, <3>3, <3>4 DEF FrameOK
  <2>11. FrameStep(p)
      BY <2>2, <2>3, <2>8, <2>10 DEF FrameStep
  <2>12. LockStep(p)
    <3>1. \A j \in Inum : Holds(p, j)' <=> j = f.dp
        <4>1. fr'[p].at \in DpLocked /\ fr'[p].at \notin IpLocked
            BY <2>8 DEF DpLocked, IpLocked
        <4>2. ASSUME NEW j \in Inum PROVE Holds(p, j)' <=> j = f.dp
            <5>1. Holds(p, j)' <=> \/ fr'[p].at \in DpLocked /\ fr'[p].dp = j
                                   \/ fr'[p].at \in IpLocked /\ fr'[p].ip = j
                BY <2>7, HoldsAt
            <5> QED BY <2>8, <4>1, <5>1
        <4> QED BY <4>2
    <3>2. f.at \in Unlocked
        BY <1>1 DEF Unlocked, Places, Searches, DpLocked, IpLocked
    <3> QED BY <2>1, <2>2, <2>3, <2>6, <3>1, <3>2, LockTaken
  <2>13. Accounted(p, old, None, old)
    <3>1. ASSUME NEW j \in Inum PROVE Gains(p, old, None, j) = Had(p, j) + Hit(old, j)
        BY <2>8 DEF Gains, Had, Hit, None, Inum
    <3> QED BY <2>6, <3>1 DEF Accounted
  <2> QED BY <1>1, <2>1, <2>2, <2>6, <2>7, <2>11, <2>12, <2>13, MovesOn
<1> QED BY <1>2, <1>3

\* The inode in ip, of a call that still has to take back its link.
LEMMA IpIs ==
    ASSUME IInv, NEW p \in Proc, At(p, fr[p].at), fr[p].ip # None
    PROVE  /\ fr[p].ip \in Inum /\ inode[fr[p].ip].ref > 0
           /\ Type(fr[p].ip) = dinode[fr[p].ip].type /\ Nlink(fr[p].ip) \in Int
           /\ fr[p].at \notin IpUnsafe => Safe(fr[p].ip) /\ dinode[fr[p].ip].type # "free"
           /\ fr[p].at \in WantsIp => lock[fr[p].ip] = NoProc
<1>1. fr[p].ip \in Inum
    BY AtOK
<1>2. inode[fr[p].ip].ref > 0
    BY <1>1, InUse DEF Used
<1>3. Type(fr[p].ip) = dinode[fr[p].ip].type /\ Nlink(fr[p].ip) \in Int
    BY <1>1, TypeIs DEF IInv
<1>4. fr[p].at \notin IpUnsafe => Safe(fr[p].ip) /\ dinode[fr[p].ip].type # "free"
    BY AtOK DEF Safe
<1>5. fr[p].at \in WantsIp => lock[fr[p].ip] = NoProc
  <2>1. fr[p].at \in WantsIp => fr[p].want = fr[p].ip
      BY AtOK DEF FrameOK, FrameWants
  <2> QED BY <2>1, AtOK
<1> QED BY <1>1, <1>2, <1>3, <1>4, <1>5

\* The locals of a call that takes its new link back.
LEMMA UndoIs ==
    ASSUME IInv, NEW p \in Proc, FrameOK(fr[p]), fr[p].ip \in Inum, Safe(fr[p].ip),
           fr'[p] = Updated(fr[p], Undo(p))
    PROVE  FrameStep(p) /\ fr'[p].at = "drop_link" /\ fr'[p].ip = fr[p].ip /\ fr'[p].dp = None
<1> DEFINE g == fr'[p]
<1>1. /\ DOMAIN g = FrameFields
      /\ g.at = "drop_link" /\ g.ip = fr[p].ip /\ g.dp = None /\ g.want = fr[p].ip
      /\ g.path = fr[p].path /\ g.parent = fr[p].parent
    BY DEF Undo, Updated, FrameOK, FrameTyped, FrameFields
<1>2. Goal(g) = "drop_link"
    BY <1>1 DEF Goal
<1>3. FrameOK(g)
  <2>1. FrameTyped(g)
      BY <1>1 DEF FrameOK, FrameTyped, Places
  <2>2. FrameHolds(g)
      BY <1>1, <1>2 DEF FrameHolds, WithIp, DpLocked, None, Inum
  <2>3. FrameWants(g)
      BY <1>1 DEF FrameWants, Searches, WantsIp
  <2>4. FrameCall(g)
      BY <1>2 DEF FrameCall
  <2> QED BY <2>1, <2>2, <2>3, <2>4 DEF FrameOK
<1> QED BY <1>1, <1>3 DEF FrameStep

\* The call takes the link back, as there is no directory for the new name.
LEMMA NoDirOK == ASSUME IInv, NEW p \in Proc, NoDir(p) PROVE Good
<1> DEFINE f == fr[p]
<1>1. /\ f.at \in {"link_dir", "move_dir", "move_dest"} /\ At(p, f.at) /\ f.dp = None
      /\ Go(p, Undo(p), <<>>)
      /\ UNCHANGED <<dinode, inode, lock, files, result, buf, panic>>
    BY DEF NoDir
<1>2. /\ puts[p] = <<>> /\ FrameOK(f)
      /\ DOMAIN puts = Proc /\ DOMAIN result' = Proc /\ DOMAIN buf' = Proc
    BY <1>1, AtOK
<1>3. f.ip # None /\ f.at \notin IpUnsafe /\ f.at # "unused"
    BY <1>1, <1>2 DEF FrameOK, FrameHolds, Goal, WithIp, IpUnsafe
<1>4. fr'[p] = Updated(f, Undo(p))
    BY <1>1, <1>2, GoOK DEF files
<1>5. FrameStep(p) /\ fr'[p].at = "drop_link" /\ fr'[p].ip = f.ip /\ fr'[p].dp = None
    BY <1>1, <1>2, <1>3, <1>4, IpIs, UndoIs
<1>6. PutsAre(p, None, None)
    BY <1>1, <1>2, PutsNone
<1>7. MemStep(p) /\ RefsSame
    BY <1>1, ReadNothing
<1>8. LockStep(p)
  <2>1. f.at \in Unlocked /\ fr'[p].at \in Unlocked
      BY <1>1, <1>5 DEF Unlocked, Places, Searches, DpLocked, IpLocked
  <2> QED BY <1>1, <1>2, <1>6, <1>7, <2>1, LockSame
<1>9. Accounted(p, None, None, None)
    BY <1>1, <1>5, <1>7 DEF Accounted, RefsSame, Gains, Had, Hit, None, Inum, IInv, CacheOK
<1> QED BY <1>1, <1>2, <1>3, <1>5, <1>6, <1>7, <1>8, <1>9, MovesOn

\* The same, once the directory is unlocked.
LEMMA LinkExistsUnlockOK == ASSUME IInv, NEW p \in Proc, LinkExistsUnlock(p) PROVE Good
<1> DEFINE f == fr[p]
<1>1. /\ f.at = "link_exists" /\ At(p, f.at) /\ Release(f.dp) /\ Go(p, Undo(p), <<f.dp>>)
      /\ UNCHANGED <<dinode, inode, files, result, buf, panic>>
    BY DEF LinkExistsUnlock, At
<1>2. /\ puts[p] = <<>> /\ FrameOK(f)
      /\ DOMAIN puts = Proc /\ DOMAIN result' = Proc /\ DOMAIN buf' = Proc
    BY <1>1, AtOK
<1>3. f.ip # None /\ f.at \notin IpUnsafe /\ f.dp \in Inum
    BY <1>1, <1>2 DEF FrameOK, FrameTyped, FrameHolds, Goal, WithIp, IpUnsafe, DpLocked
<1>4. fr'[p] = Updated(f, Undo(p))
    BY <1>1, <1>2, GoOK DEF files
<1>5. FrameStep(p) /\ fr'[p].at = "drop_link" /\ fr'[p].ip = f.ip /\ fr'[p].dp = None
    BY <1>1, <1>2, <1>3, <1>4, IpIs, UndoIs
<1>6. PutsAre(p, f.dp, None)
    BY <1>1, <1>2, <1>3, PutsOne
<1>7. MemStep(p) /\ RefsSame
    BY <1>1, ReadNothing
<1>8. LockStep(p)
  <2>1. ASSUME NEW j \in Inum PROVE (Holds(p, j) <=> j = f.dp) /\ ~Holds(p, j)'
      BY <1>1, <1>2, <1>5, <1>6, HoldsAt DEF DpLocked, IpLocked
  <2> QED BY <1>1, <1>3, <2>1, LockReleased
<1>9. Accounted(p, f.dp, None, None)
    BY <1>1, <1>5, <1>7 DEF Accounted, RefsSame, Gains, Had, Hit, None, Inum, IInv, CacheOK
<1> QED BY <1>1, <1>2, <1>5, <1>6, <1>7, <1>8, <1>9, MovesOn

\* One link less, and the call is over.
LEMMA DropLinkOK == ASSUME IInv, NEW p \in Proc, DropLink(p) \/ Moved(p) PROVE Good
<1> DEFINE i == fr[p].ip
           ind == WithNlink(Ilock(i), i, Nlink(i) - 1)
<1>1. PICK r \in {-1, 0} : /\ fr[p].at \in {"drop_link", "moved"} /\ At(p, fr[p].at)
                           /\ inode' = ind /\ dinode' = Iupdate(dinode, ind, i)
                           /\ Return(p, r, <<i>>) /\ UNCHANGED <<lock, files, buf, panic>>
    BY DEF DropLink, Moved, DropLinkAnd, At
<1>2. puts[p] = <<>> /\ FrameOK(fr[p]) /\ DOMAIN puts = Proc /\ DOMAIN buf' = Proc
    BY <1>1, AtOK
<1>3. i # None /\ fr[p].dp = None
    BY <1>1, <1>2 DEF FrameOK, FrameHolds, Goal, WithIp, Searches, DpLocked
<1>4. i \in Inum /\ dinode[i].type # "free" /\ Nlink(i) - 1 \in Int
    BY <1>1, <1>3, IpIs DEF IpUnsafe
<1>5. PutsAre(p, i, None)
    BY <1>1, <1>2, <1>4, PutsOne DEF Return
<1>6. MemStep(p) /\ RefsSame
  <2>1. /\ CacheOK(inode', dinode) /\ DiskOK(dinode') /\ SameTypes(dinode, dinode')
        /\ \A j \in Inum : inode'[j].ref = inode[j].ref
        /\ \A j \in Inum : Valid(inode, j) => Valid(inode', j)
      BY <1>1, <1>4, LinkCountOK
  <2> QED BY <2>1, MemOK DEF RefsSame
<1>7. Trade(i, None, None, fr[p].ip, fr[p].dp)
    BY <1>3 DEF Trade, Hit, None, Inum
<1>8. LockStep(p)
  <2>1. fr[p].at \in Unlocked /\ fr'[p].at \in Unlocked
      BY <1>1, ReturnIs, IdleIs DEF Unlocked, Places, Searches, DpLocked, IpLocked
  <2> QED BY <1>1, <1>2, <1>5, <1>6, <2>1, LockSame
<1> QED BY <1>1, <1>2, <1>5, <1>6, <1>7, <1>8, ReturnsOK

-----------------------------------------------------------------------------
(* sys_unlink() *)

\* sys_unlink() fails: the name is "." or "..", or is not there.
LEMMA UnlinkBadOK == ASSUME IInv, NEW p \in Proc, UnlinkBad(p) PROVE Good
<1>1. /\ fr[p].at = "unlink_dir" /\ At(p, fr[p].at) /\ fr[p].dp # None
      /\ inode' = Ilock(fr[p].dp) /\ Return(p, -1, <<fr[p].dp>>)
      /\ UNCHANGED <<dinode, lock, files, buf, panic>>
    BY DEF UnlinkBad, At
<1>2. fr[p].at \in Searches \ WithIp /\ fr[p].at \in ParentSearches
    BY <1>1 DEF Searches, WithIp, IpLocked, ParentSearches
<1>3. dinode[fr[p].dp].type # "free"
    BY <1>1, <1>2, DpIs DEF SafeDir, Safe
<1> QED BY <1>1, <1>2, <1>3, DpReturnsOK

\* sys_unlink() has found the entry, and goes on with the directory locked.
LEMMA UnlinkFoundOK == ASSUME IInv, NEW p \in Proc, UnlinkFound(p) PROVE Good
<1> DEFINE f == fr[p]
           i == Entries(f.dp)[f.name]
<1>1. /\ f.at = "unlink_dir" /\ At(p, f.at) /\ f.dp # None /\ Has(f.dp, f.name)
    BY DEF UnlinkFound, At
<1>2. CASE CacheFull(i)
    BY <1>2, PanicOK DEF UnlinkFound, Messages
<1>3. CASE ~CacheFull(i)
  <2>1. /\ inode' = Iget(Ilock(f.dp), i) /\ Take(p, f.dp)
        /\ Go(p, [at |-> "unlink_check", ip |-> i, want |-> i], <<>>)
        /\ UNCHANGED <<dinode, files, result, buf, panic>>
      BY <1>3 DEF UnlinkFound
  <2>2. /\ puts[p] = <<>> /\ FrameOK(f)
        /\ DOMAIN puts = Proc /\ DOMAIN result' = Proc /\ DOMAIN buf' = Proc
      BY <1>1, <2>1, AtOK
  <2>3. f.dp \in Inum /\ SafeDir(f.dp) /\ lock[f.dp] = NoProc /\ inode[f.dp].ref > 0
      BY <1>1, DpIs DEF Searches, ParentSearches
  <2>4. dinode[f.dp].type = "dir" /\ dinode[f.dp].type # "free"
      BY <2>3 DEF SafeDir
  <2>5. i \in Inum
      BY <1>1, <2>3, <2>4 DEF IInv, DiskOK, Has, Entries
  <2> HIDE DEF i
  <2>6. MemStep(p) /\ Valid(inode', f.dp)
        /\ \A j \in Inum : inode'[j].ref = inode[j].ref + Hit(i, j)
      BY <2>1, <2>3, <2>4, <2>5, ReadAndGet
  <2>7. PutsAre(p, None, None)
      BY <2>1, <2>2, PutsNone
  <2>8. /\ DOMAIN fr'[p] = FrameFields
        /\ fr'[p].at = "unlink_check" /\ fr'[p].want = i /\ fr'[p].ip = i
        /\ fr'[p].dp = f.dp /\ fr'[p].path = f.path /\ fr'[p].parent = f.parent
    <3>1. fr'[p] = Updated(f, [at |-> "unlink_check", ip |-> i, want |-> i])
        BY <2>1, <2>2, GoOK DEF files
    <3> QED BY <2>2, <3>1 DEF Updated, FrameOK, FrameTyped, FrameFields
  <2>9. Goal(fr'[p]) = "unlink_check"
      BY <2>8 DEF Goal
  <2>10. FrameOK(fr'[p])
    <3>1. FrameTyped(fr'[p])
        BY <2>2, <2>5, <2>8 DEF FrameOK, FrameTyped, Places, DpLocked
    <3>2. FrameHolds(fr'[p])
        BY <1>1, <2>5, <2>8, <2>9 DEF FrameHolds, WithIp, DpLocked, None, Inum
    <3>3. FrameWants(fr'[p])
        BY <2>8 DEF FrameWants, Searches, WantsIp
    <3>4. FrameCall(fr'[p])
        BY <2>9 DEF FrameCall
    <3> QED BY <3>1, <3>2, <3>3, <3>4 DEF FrameOK
  <2>11. FrameStep(p)
      BY <2>3, <2>8, <2>10 DEF FrameStep, IpUnsafe
  <2>12. LockStep(p)
    <3>1. ASSUME NEW j \in Inum PROVE Holds(p, j)' <=> j = f.dp
      <4>1. fr'[p].at \in DpLocked /\ fr'[p].at \notin IpLocked /\ fr'[p].dp = f.dp
          BY <2>8 DEF DpLocked, IpLocked
      <4> QED BY <2>7, <4>1, HoldsAt
    <3>2. f.at \in Unlocked
        BY <1>1 DEF Unlocked, Places, Searches, DpLocked, IpLocked
    <3> QED BY <2>1, <2>2, <2>3, <2>6, <3>1, <3>2, LockTaken
  <2>13. Accounted(p, None, None, i)
    <3>1. f.ip = None
        BY <1>1, <2>2 DEF FrameOK, FrameHolds, Goal, WithIp, IpLocked
    <3>2. ASSUME NEW j \in Inum PROVE Gains(p, None, None, j) = Had(p, j) + Hit(i, j)
        BY <2>8, <3>1 DEF Gains, Had, Hit, None, Inum
    <3> QED BY <2>6, <3>2 DEF Accounted
  <2> QED BY <1>1, <2>1, <2>2, <2>6, <2>7, <2>11, <2>12, <2>13, MovesOn
<1> QED BY <1>2, <1>3

\* Two places where p holds the directory in dp, and nothing else.
LEMMA DpLockedIs ==
    ASSUME IInv, NEW p \in Proc, At(p, fr[p].at), fr[p].at \in DpLocked
    PROVE  /\ fr[p].dp \in Inum /\ SafeDir(fr[p].dp)
           /\ \A j \in Inum : Holds(p, j) <=> j = fr[p].dp
           /\ lock[fr[p].dp] = p /\ Valid(inode, fr[p].dp)
<1>1. fr[p].dp # None /\ fr[p].at \in DpIsDir /\ puts[p] = <<>>
    BY AtOK DEF FrameOK, FrameHolds, DpIsDir
<1>2. fr[p].dp \in Inum /\ SafeDir(fr[p].dp)
    BY <1>1, AtOK
<1>3. \A j \in Inum : Holds(p, j) <=> j = fr[p].dp
    BY <1>1, <1>2, HoldsAt DEF DpLocked, IpLocked
<1>4. lock[fr[p].dp] = p /\ Valid(inode, fr[p].dp)
    BY <1>2, <1>3 DEF IInv, LocksOK
<1> QED BY <1>2, <1>3, <1>4

\* p keeps the locks it has.
LEMMA LockKept ==
    ASSUME IInv, NEW p \in Proc, puts[p] = <<>>, UNCHANGED lock, MemStep(p),
           \A j \in Inum : Holds(p, j)' <=> Holds(p, j)
    PROVE  LockStep(p)
<1>1. ASSUME NEW j \in Inum PROVE lock'[j] = p <=> Holds(p, j)'
    BY ProcAssumption DEF IInv, LocksOK
<1>2. ASSUME NEW j \in Inum, Holds(p, j)' PROVE Valid(inode', j)
  <2>1. Valid(inode, j) /\ inode[j].ref > 0 /\ ~Freeing(p, j)
      BY <1>2, LockedRef, NoPuts DEF IInv, LocksOK
  <2> QED BY <2>1 DEF MemStep
<1> QED BY <1>1, <1>2 DEF LockStep, IInv, LocksOK

\* The entry is a directory that is not empty.
LEMMA UnlinkNotEmptyOK == ASSUME IInv, NEW p \in Proc, UnlinkNotEmpty(p) PROVE Good
<1> DEFINE f == fr[p]
<1>1. /\ f.at = "unlink_check" /\ At(p, f.at) /\ Type(f.ip) = "dir" /\ inode' = Ilock(f.ip)
      /\ Go(p, [at |-> "unlink_bad", want |-> None, ip |-> None], <<f.ip>>)
      /\ UNCHANGED <<dinode, lock, files, result, buf, panic>>
    BY DEF UnlinkNotEmpty, At
<1>2. /\ puts[p] = <<>> /\ FrameOK(f)
      /\ DOMAIN puts = Proc /\ DOMAIN result' = Proc /\ DOMAIN buf' = Proc
    BY <1>1, AtOK
<1>3. f.ip # None
    BY <1>1, <1>2 DEF FrameOK, FrameHolds, Goal, WithIp
<1>4. f.ip \in Inum /\ dinode[f.ip].type # "free"
    BY <1>1, <1>3, IpIs
<1>5. f.dp \in Inum /\ SafeDir(f.dp) /\ \A j \in Inum : Holds(p, j) <=> j = f.dp
    BY <1>1, DpLockedIs DEF DpLocked
<1>6. MemStep(p) /\ RefsSame
    BY <1>1, <1>4, ReadIn
<1>7. PutsAre(p, f.ip, None)
    BY <1>1, <1>2, <1>4, PutsOne
<1>8. /\ DOMAIN fr'[p] = FrameFields
      /\ fr'[p].at = "unlink_bad" /\ fr'[p].want = None /\ fr'[p].ip = None
      /\ fr'[p].dp = f.dp /\ fr'[p].path = f.path /\ fr'[p].parent = f.parent
  <2>1. fr'[p] = Updated(f, [at |-> "unlink_bad", want |-> None, ip |-> None])
      BY <1>1, <1>2, GoOK DEF files
  <2> QED BY <1>2, <2>1 DEF Updated, FrameOK, FrameTyped, FrameFields
<1>9. Goal(fr'[p]) = "unlink_bad"
    BY <1>8 DEF Goal
<1>10. FrameOK(fr'[p])
  <2>1. FrameTyped(fr'[p])
      BY <1>2, <1>8 DEF FrameOK, FrameTyped, Places, DpLocked
  <2>2. FrameHolds(fr'[p])
      BY <1>5, <1>8, <1>9 DEF FrameHolds, WithIp, IpLocked, DpLocked, None, Inum
  <2>3. FrameWants(fr'[p])
      BY <1>8 DEF FrameWants, Searches, WantsIp
  <2>4. FrameCall(fr'[p])
      BY <1>9 DEF FrameCall
  <2> QED BY <2>1, <2>2, <2>3, <2>4 DEF FrameOK
<1>11. FrameStep(p)
    BY <1>5, <1>8, <1>10 DEF FrameStep
<1>12. LockStep(p)
  <2>1. \A j \in Inum : Holds(p, j)' <=> Holds(p, j)
      BY <1>5, <1>7, <1>8, HoldsAt DEF DpLocked, IpLocked
  <2> QED BY <1>1, <1>2, <1>6, <2>1, LockKept
<1>13. Accounted(p, f.ip, None, None)
    BY <1>6, <1>8 DEF Accounted, RefsSame, Gains, Had, Hit, None, Inum, IInv, CacheOK
<1> QED BY <1>1, <1>2, <1>6, <1>7, <1>11, <1>12, <1>13, MovesOn

\* sys_unlink() then unlocks the parent, and fails.
LEMMA UnlinkBadUnlockOK == ASSUME IInv, NEW p \in Proc, UnlinkBadUnlock(p) PROVE Good
<1> DEFINE f == fr[p]
<1>1. /\ f.at = "unlink_bad" /\ At(p, f.at) /\ Release(f.dp) /\ Return(p, -1, <<f.dp>>)
      /\ UNCHANGED <<dinode, inode, files, buf, panic>>
    BY DEF UnlinkBadUnlock, At
<1>2. puts[p] = <<>> /\ FrameOK(f) /\ DOMAIN puts = Proc /\ DOMAIN buf' = Proc
    BY <1>1, AtOK
<1>3. f.dp \in Inum /\ \A j \in Inum : Holds(p, j) <=> j = f.dp
    BY <1>1, DpLockedIs DEF DpLocked
<1>4. f.ip = None
    BY <1>1, <1>2 DEF FrameOK, FrameHolds, Goal, WithIp, IpLocked
<1>5. PutsAre(p, f.dp, None)
    BY <1>1, <1>2, <1>3, PutsOne DEF Return
<1>6. MemStep(p) /\ RefsSame
    BY <1>1, ReadNothing
<1>7. Trade(f.dp, None, None, f.ip, f.dp)
    BY <1>4 DEF Trade, Hit, None, Inum
<1>8. LockStep(p)
  <2>1. ASSUME NEW j \in Inum PROVE ~Holds(p, j)'
      BY <1>1, <1>5, ReturnIs, IdleIs, HoldsAt DEF DpLocked, IpLocked
  <2> QED BY <1>1, <1>3, <2>1, LockReleased
<1> QED BY <1>1, <1>2, <1>5, <1>6, <1>7, <1>8, ReturnsOK

\* sys_unlink() erases the entry, lets the directory go and keeps the inode locked.
LEMMA UnlinkEraseOK == ASSUME IInv, NEW p \in Proc, UnlinkErase(p) PROVE Good
<1> DEFINE f == fr[p]
           own == IF Type(f.ip) = "dir" THEN 1 ELSE 0
           ind == WithNlink(Ilock(f.ip), f.dp, Nlink(f.dp) - own)
           erased == WithoutEntry(dinode, f.dp, f.name)
<1>1. /\ f.at = "unlink_check" /\ At(p, f.at) /\ Type(f.ip) \in {"file", "dev", "dir"}
      /\ inode' = ind
      /\ dinode' = (IF own = 1 THEN Iupdate(erased, ind, f.dp) ELSE erased)
      /\ lock' = [lock EXCEPT ![f.dp] = NoProc, ![f.ip] = p]
      /\ Go(p, [at |-> "unlink_inode", want |-> None, dp |-> None], <<f.dp>>)
      /\ UNCHANGED <<files, result, buf, panic>>
    BY DEF UnlinkErase, At
<1>2. /\ puts[p] = <<>> /\ FrameOK(f)
      /\ DOMAIN puts = Proc /\ DOMAIN result' = Proc /\ DOMAIN buf' = Proc
    BY <1>1, AtOK
<1>3. f.ip # None
    BY <1>1, <1>2 DEF FrameOK, FrameHolds, Goal, WithIp
<1>4. f.ip \in Inum /\ dinode[f.ip].type # "free" /\ lock[f.ip] = NoProc /\ Safe(f.ip)
  <2>1. f.ip \in Inum /\ dinode[f.ip].type # "free" /\ lock[f.ip] = NoProc
      BY <1>1, <1>3, IpIs DEF WantsIp
  <2> QED BY <2>1, TypedSafe
<1>5. /\ f.dp \in Inum /\ \A j \in Inum : Holds(p, j) <=> j = f.dp
      /\ Valid(inode, f.dp)
    BY <1>1, DpLockedIs DEF DpLocked
<1>6. /\ CacheOK(ind, dinode) /\ Valid(ind, f.dp) /\ Valid(ind, f.ip)
      /\ \A j \in Inum : ind[j].ref = inode[j].ref
      /\ \A j \in Inum : Valid(inode, j) => Valid(ind, j)
  <2>1. /\ CacheOK(Ilock(f.ip), dinode) /\ Valid(Ilock(f.ip), f.ip)
        /\ \A j \in Inum : /\ Ilock(f.ip)[j].ref = inode[j].ref
                           /\ Valid(inode, j) => Valid(Ilock(f.ip), j)
      BY <1>4, IlockOK DEF IInv
  <2>2. Nlink(f.dp) - own \in Int
      BY <1>5, TypeIs DEF IInv
  <2> HIDE DEF own
  <2>3. /\ CacheOK(ind, dinode)
        /\ \A j \in Inum : /\ ind[j].ref = Ilock(f.ip)[j].ref
                           /\ ind[j].valid = Ilock(f.ip)[j].valid
      BY <2>1, <2>2, WithNlinkOK
  <2> HIDE DEF ind
  <2> QED BY <1>4, <1>5, <2>1, <2>3 DEF Valid
<1>7. DiskOK(dinode') /\ SameTypes(dinode, dinode')
  <2> HIDE DEF own, ind
  <2>1. DiskOK(erased) /\ SameTypes(dinode, erased)
      BY <1>5, WithoutEntryOK DEF IInv
  <2> HIDE DEF erased
  <2>2. DiskOK(Iupdate(erased, ind, f.dp)) /\ SameTypes(dinode, Iupdate(erased, ind, f.dp))
      BY <1>5, <1>6, <2>1, IupdateOK
  <2> QED BY <1>1, <2>1, <2>2
<1> HIDE DEF own, ind, erased
<1>8. MemStep(p) /\ RefsSame /\ Valid(inode', f.ip)
    BY <1>1, <1>6, <1>7, MemOK DEF RefsSame
<1>9. PutsAre(p, f.dp, None)
    BY <1>1, <1>2, <1>5, PutsOne
<1>10. /\ DOMAIN fr'[p] = FrameFields
       /\ fr'[p].at = "unlink_inode" /\ fr'[p].want = None /\ fr'[p].ip = f.ip
       /\ fr'[p].dp = None /\ fr'[p].path = f.path /\ fr'[p].parent = f.parent
  <2>1. fr'[p] = Updated(f, [at |-> "unlink_inode", want |-> None, dp |-> None])
      BY <1>1, <1>2, GoOK DEF files
  <2> QED BY <1>2, <2>1 DEF Updated, FrameOK, FrameTyped, FrameFields
<1>11. Goal(fr'[p]) = "unlink_inode"
    BY <1>10 DEF Goal
<1>12. FrameOK(fr'[p])
  <2>1. FrameTyped(fr'[p])
      BY <1>2, <1>10 DEF FrameOK, FrameTyped, Places, IpLocked
  <2>2. FrameHolds(fr'[p])
      BY <1>3, <1>10, <1>11 DEF FrameHolds, WithIp, IpLocked, DpLocked
  <2>3. FrameWants(fr'[p])
      BY <1>10 DEF FrameWants, Searches, WantsIp
  <2>4. FrameCall(fr'[p])
      BY <1>11 DEF FrameCall
  <2> QED BY <2>1, <2>2, <2>3, <2>4 DEF FrameOK
<1>13. FrameStep(p)
    BY <1>4, <1>10, <1>12 DEF FrameStep
<1>14. LockStep(p)
  <2>1. ASSUME NEW j \in Inum PROVE Holds(p, j)' <=> j = f.ip
    <3>1. fr'[p].at \notin DpLocked /\ fr'[p].at \in IpLocked /\ fr'[p].ip = f.ip
        BY <1>10 DEF DpLocked, IpLocked
    <3> QED BY <1>9, <3>1, HoldsAt
  <2> QED BY <1>1, <1>4, <1>5, <1>8, <2>1, LockSwapped
<1>15. Accounted(p, f.dp, None, None)
    BY <1>8, <1>10 DEF Accounted, RefsSame, Gains, Had, Hit, None, Inum, IInv, CacheOK
<1> QED BY <1>1, <1>2, <1>8, <1>9, <1>13, <1>14, <1>15, MovesOn

\* Where p holds the inode in ip, and nothing else.
LEMMA IpLockedIs ==
    ASSUME IInv, NEW p \in Proc, At(p, fr[p].at), fr[p].at \in IpLocked
    PROVE  /\ fr[p].ip \in Inum /\ Safe(fr[p].ip) /\ fr[p].dp = None
           /\ \A j \in Inum : Holds(p, j) <=> j = fr[p].ip
           /\ Valid(inode, fr[p].ip)
<1>1. fr[p].ip # None /\ fr[p].dp = None /\ puts[p] = <<>> /\ fr[p].at \notin IpUnsafe
    BY AtOK DEF FrameOK, FrameHolds, Goal, WithIp, IpLocked, Searches, DpLocked, IpUnsafe
<1>2. fr[p].ip \in Inum /\ Safe(fr[p].ip)
    BY <1>1, AtOK
<1>3. fr[p].at \notin DpLocked
    BY DEF DpLocked, IpLocked
<1>4. \A j \in Inum : Holds(p, j) <=> j = fr[p].ip
    BY <1>1, <1>2, <1>3, HoldsAt
<1>5. Valid(inode, fr[p].ip)
    BY <1>2, <1>4 DEF IInv, LocksOK
<1> QED BY <1>1, <1>2, <1>4, <1>5

\* The call unlocks the inode in ip, puts it and returns.
LEMMA IpReturnsOK ==
    ASSUME IInv, NEW p \in Proc, At(p, fr[p].at), fr[p].at \in IpLocked, Release(fr[p].ip),
           NEW r, Return(p, r, <<fr[p].ip>>), UNCHANGED files, DOMAIN buf' = Proc,
           UNCHANGED panic, MemStep(p), RefsSame
    PROVE  Good
<1> DEFINE f == fr[p]
<1>1. puts[p] = <<>> /\ FrameOK(f) /\ DOMAIN puts = Proc /\ f.at # "unused"
    BY AtOK DEF IpLocked
<1>2. f.ip \in Inum /\ f.dp = None /\ \A j \in Inum : Holds(p, j) <=> j = f.ip
    BY IpLockedIs
<1>3. PutsAre(p, f.ip, None)
    BY <1>1, <1>2, PutsOne DEF Return
<1>4. Trade(f.ip, None, None, f.ip, f.dp)
    BY <1>2 DEF Trade, Hit, None, Inum
<1>5. LockStep(p)
  <2>1. ASSUME NEW j \in Inum PROVE ~Holds(p, j)'
      BY <1>3, ReturnIs, IdleIs, HoldsAt DEF DpLocked, IpLocked
  <2> QED BY <1>2, <2>1, LockReleased
<1> QED BY <1>1, <1>3, <1>4, <1>5, ReturnsOK

\* It takes the link off the inode: the entry was all that it loses.
LEMMA UnlinkInodeOK == ASSUME IInv, NEW p \in Proc, UnlinkInode(p) PROVE Good
<1> DEFINE i == fr[p].ip
           ind == WithNlink(inode, i, inode[i].nlink - 1)
<1>1. /\ fr[p].at = "unlink_inode" /\ At(p, fr[p].at)
      /\ inode' = ind /\ dinode' = Iupdate(dinode, ind, i)
      /\ Release(i) /\ Return(p, 0, <<i>>) /\ UNCHANGED <<files, buf, panic>>
    BY DEF UnlinkInode, At
<1>2. fr[p].at \in IpLocked
    BY <1>1 DEF IpLocked
<1>3. i \in Inum /\ Valid(inode, i)
    BY <1>1, <1>2, IpLockedIs
<1>4. /\ CacheOK(ind, dinode)
      /\ \A j \in Inum : /\ ind[j].ref = inode[j].ref
                         /\ ind[j].valid = inode[j].valid
  <2>1. inode[i].nlink - 1 \in Int
      BY <1>3 DEF IInv, CacheOK
  <2> QED BY <2>1, WithNlinkOK DEF IInv
<1>5. \A j \in Inum : Valid(inode, j) => Valid(ind, j)
    BY <1>4 DEF Valid
<1>6. DiskOK(dinode') /\ SameTypes(dinode, dinode')
  <2>1. DiskOK(dinode) /\ SameTypes(dinode, dinode)
      BY DEF IInv, SameTypes
  <2> QED BY <1>1, <1>3, <1>4, <1>5, <2>1, IupdateOK
<1>7. MemStep(p) /\ RefsSame
    BY <1>1, <1>4, <1>5, <1>6, MemOK DEF RefsSame
<1>8. DOMAIN buf' = Proc
    BY <1>1, AtOK
<1> QED BY <1>1, <1>2, <1>7, <1>8, IpReturnsOK

-----------------------------------------------------------------------------
(* create() and sys_open() *)

\* sys_mkdir() and sys_mknod() end.
LEMMA MadeOK == ASSUME IInv, NEW p \in Proc, Made(p) PROVE Good
<1>1. /\ fr[p].at = "made" /\ At(p, fr[p].at) /\ Release(fr[p].ip)
      /\ Return(p, 0, <<fr[p].ip>>) /\ UNCHANGED <<dinode, inode, files, buf, panic>>
    BY DEF Made, At
<1>2. fr[p].at \in IpLocked
    BY <1>1 DEF IpLocked
<1>3. MemStep(p) /\ RefsSame
    BY <1>1, ReadNothing
<1>4. DOMAIN buf' = Proc
    BY <1>1, AtOK
<1> QED BY <1>1, <1>2, <1>3, <1>4, IpReturnsOK

\* create() finds the name, and lets the directory go.
LEMMA CreateExistsOK == ASSUME IInv, NEW p \in Proc, CreateExists(p) PROVE Good
<1> DEFINE f == fr[p]
           i == Entries(f.dp)[f.name]
<1>1. /\ f.at = "create_dir" /\ At(p, f.at) /\ f.dp # None /\ Has(f.dp, f.name)
    BY DEF CreateExists, At
<1>2. CASE CacheFull(i)
    BY <1>2, PanicOK DEF CreateExists, Messages
<1>3. CASE ~CacheFull(i)
  <2>1. /\ inode' = Iget(Ilock(f.dp), i)
        /\ Go(p, [at |-> "create_old", ip |-> i, want |-> i, dp |-> None], <<f.dp>>)
        /\ UNCHANGED <<dinode, lock, files, result, buf, panic>>
      BY <1>3 DEF CreateExists
  <2>2. /\ puts[p] = <<>> /\ FrameOK(f)
        /\ DOMAIN puts = Proc /\ DOMAIN result' = Proc /\ DOMAIN buf' = Proc
      BY <1>1, <2>1, AtOK
  <2>3. f.dp \in Inum /\ SafeDir(f.dp) /\ lock[f.dp] = NoProc /\ inode[f.dp].ref > 0
      BY <1>1, DpIs DEF Searches, ParentSearches
  <2>4. dinode[f.dp].type = "dir" /\ dinode[f.dp].type # "free"
      BY <2>3 DEF SafeDir
  <2>5. i \in Inum
      BY <1>1, <2>3, <2>4 DEF IInv, DiskOK, Has, Entries
  <2> HIDE DEF i
  <2>6. MemStep(p) /\ \A j \in Inum : inode'[j].ref = inode[j].ref + Hit(i, j)
      BY <2>1, <2>3, <2>4, <2>5, ReadAndGet
  <2>7. PutsAre(p, f.dp, None)
      BY <2>1, <2>2, <2>3, PutsOne
  <2>8. /\ DOMAIN fr'[p] = FrameFields
        /\ fr'[p].at = "create_old" /\ fr'[p].want = i /\ fr'[p].ip = i /\ fr'[p].dp = None
        /\ fr'[p].path = f.path /\ fr'[p].parent = f.parent /\ fr'[p].call = f.call
    <3>1. fr'[p] = Updated(f, [at |-> "create_old", ip |-> i, want |-> i, dp |-> None])
        BY <2>1, <2>2, GoOK DEF files
    <3> QED BY <2>2, <3>1 DEF Updated, FrameOK, FrameTyped, FrameFields
  <2>9. Goal(fr'[p]) = "create_old" /\ Goal(f) = "create_dir"
      BY <1>1, <2>8 DEF Goal
  <2>10. FrameOK(fr'[p])
    <3>1. FrameTyped(fr'[p])
        BY <2>2, <2>5, <2>8 DEF FrameOK, FrameTyped, Places
    <3>2. FrameHolds(fr'[p])
        BY <2>5, <2>8, <2>9 DEF FrameHolds, WithIp, DpLocked, None, Inum
    <3>3. FrameWants(fr'[p])
        BY <2>8 DEF FrameWants, Searches, WantsIp
    <3>4. FrameCall(fr'[p])
        BY <2>2, <2>8, <2>9 DEF FrameOK, FrameCall
    <3> QED BY <3>1, <3>2, <3>3, <3>4 DEF FrameOK
  <2>11. FrameStep(p)
      BY <2>8, <2>10 DEF FrameStep, IpUnsafe
  <2>12. LockStep(p)
    <3>1. f.at \in Unlocked /\ fr'[p].at \in Unlocked
        BY <1>1, <2>8 DEF Unlocked, Places, Searches, DpLocked, IpLocked
    <3> QED BY <2>1, <2>2, <2>6, <2>7, <3>1, LockSame
  <2>13. Accounted(p, f.dp, None, i)
    <3>1. f.ip = None
        BY <1>1, <2>2 DEF FrameOK, FrameHolds, Goal, WithIp, IpLocked
    <3>2. ASSUME NEW j \in Inum PROVE Gains(p, f.dp, None, j) = Had(p, j) + Hit(i, j)
        BY <2>8, <3>1 DEF Gains, Had, Hit, None, Inum
    <3> QED BY <2>6, <3>2 DEF Accounted
  <2> QED BY <1>1, <2>1, <2>2, <2>6, <2>7, <2>11, <2>12, <2>13, MovesOn
<1> QED BY <1>2, <1>3

\* create() opens the file that is there, or fails.
LEMMA CreateOldOK == ASSUME IInv, NEW p \in Proc, CreateOld(p) PROVE Good
<1> DEFINE f == fr[p]
           open == NewType(f.call) = "file" /\ Type(f.ip) = "file"
<1>1. /\ f.at = "create_old" /\ At(p, f.at) /\ Type(f.ip) # "free" /\ inode' = Ilock(f.ip)
      /\ UNCHANGED <<dinode, files, buf, panic>>
    BY DEF CreateOld, At
<1>2. puts[p] = <<>> /\ FrameOK(f) /\ DOMAIN puts = Proc /\ DOMAIN buf' = Proc
      /\ DOMAIN result = Proc
    BY <1>1, AtOK
<1>3. f.ip # None /\ f.dp = None
    BY <1>1, <1>2 DEF FrameOK, FrameHolds, Goal, WithIp, Searches, DpLocked
<1>4. f.ip \in Inum /\ dinode[f.ip].type # "free" /\ lock[f.ip] = NoProc /\ Safe(f.ip)
  <2>1. f.ip \in Inum /\ dinode[f.ip].type # "free" /\ lock[f.ip] = NoProc
      BY <1>1, <1>3, IpIs DEF WantsIp
  <2> QED BY <2>1, TypedSafe
<1>5. MemStep(p) /\ RefsSame /\ Valid(inode', f.ip)
    BY <1>1, <1>4, ReadIn
<1>6. f.at \in Unlocked
    BY <1>1 DEF Unlocked, Places, DpLocked, IpLocked
<1>7. CASE open
  <2>1. /\ Take(p, f.ip) /\ Go(p, [at |-> "open_file", want |-> None], <<>>)
        /\ UNCHANGED result
      BY <1>7 DEF CreateOld
  <2>2. PutsAre(p, None, None)
      BY <1>2, <2>1, PutsNone
  <2>3. /\ DOMAIN fr'[p] = FrameFields
        /\ fr'[p].at = "open_file" /\ fr'[p].want = None /\ fr'[p].ip = f.ip
        /\ fr'[p].dp = None /\ fr'[p].path = f.path /\ fr'[p].parent = f.parent
    <3>1. fr'[p] = Updated(f, [at |-> "open_file", want |-> None])
        BY <1>1, <1>2, <2>1, GoOK DEF files
    <3> QED BY <1>2, <1>3, <3>1 DEF Updated, FrameOK, FrameTyped, FrameFields
  <2>4. Goal(fr'[p]) = "open_file"
      BY <2>3 DEF Goal
  <2>5. FrameOK(fr'[p])
    <3>1. FrameTyped(fr'[p])
        BY <1>2, <2>3 DEF FrameOK, FrameTyped, Places, IpLocked
    <3>2. FrameHolds(fr'[p])
        BY <1>3, <2>3, <2>4 DEF FrameHolds, WithIp, IpLocked, DpLocked
    <3>3. FrameWants(fr'[p])
        BY <2>3 DEF FrameWants, Searches, WantsIp
    <3>4. FrameCall(fr'[p])
        BY <2>4 DEF FrameCall
    <3> QED BY <3>1, <3>2, <3>3, <3>4 DEF FrameOK
  <2>6. FrameStep(p)
      BY <1>4, <2>3, <2>5 DEF FrameStep
  <2>7. LockStep(p)
    <3>1. ASSUME NEW j \in Inum PROVE Holds(p, j)' <=> j = f.ip
      <4>1. fr'[p].at \notin DpLocked /\ fr'[p].at \in IpLocked /\ fr'[p].ip = f.ip
          BY <2>3 DEF DpLocked, IpLocked
      <4> QED BY <2>2, <4>1, HoldsAt
    <3> QED BY <1>2, <1>4, <1>5, <1>6, <2>1, <3>1, LockTaken
  <2>8. Accounted(p, None, None, None)
      BY <1>3, <1>5, <2>3 DEF Accounted, RefsSame, Gains, Had, Hit, None, Inum, IInv, CacheOK
  <2> QED BY <1>1, <1>2, <1>5, <2>1, <2>2, <2>6, <2>7, <2>8, MovesOn
<1>8. CASE ~open
  <2>1. Return(p, -1, <<f.ip>>) /\ UNCHANGED lock
      BY <1>8 DEF CreateOld
  <2>2. PutsAre(p, f.ip, None)
      BY <1>2, <1>4, <2>1, PutsOne DEF Return
  <2>3. Trade(f.ip, None, None, f.ip, f.dp)
      BY <1>3 DEF Trade, Hit, None, Inum
  <2>4. LockStep(p)
    <3>1. fr'[p].at \in Unlocked
        BY <2>1, ReturnIs, IdleIs DEF Unlocked, Places, DpLocked, IpLocked
    <3> QED BY <1>2, <1>5, <1>6, <2>1, <2>2, <3>1, LockSame
  <2> QED BY <1>1, <1>2, <1>5, <2>1, <2>2, <2>3, <2>4, ReturnsOK
<1> QED BY <1>7, <1>8

\* The first free inode, file or descriptor is one of them.
LEMMA MinIsIn ==
    ASSUME NEW S, S \subseteq Nat, S # {}
    PROVE  Min(S) \in S
<1> DEFINE R == {mn \in Nat \X Nat : mn[1] < mn[2]}
<1>1. IsWellFoundedOn(R, Nat)
  <2>1. R = OpToRel(<, Nat)
      BY DEF OpToRel
  <2> QED BY <2>1, NatLessThanWellFounded
<1>2. PICK m \in S : \A n \in S : ~(<<n, m>> \in R)
  <2> HIDE DEF R
  <2> QED BY <1>1, WFMin
<1>3. ASSUME NEW n \in S PROVE m <= n
  <2>1. m \in Nat /\ n \in Nat
      OBVIOUS
  <2>2. CASE n < m
    <3>1. <<n, m>> \in R
        BY <2>1, <2>2
    <3> QED BY <1>2, <3>1
  <2> QED BY <2>1, <2>2
<1> QED BY <1>3 DEF Min

\* create() allocates an inode, with the directory locked.
LEMMA CreateAllocOK == ASSUME IInv, NEW p \in Proc, CreateAlloc(p) PROVE Good
<1> DEFINE f == fr[p]
           i == Min(FreeInums)
           full == FreeInums = {} \/ CacheFull(i)
<1>1. f.at = "create_dir" /\ At(p, f.at) /\ f.dp # None
    BY DEF CreateAlloc, At
<1>2. CASE full
    BY <1>2, PanicOK DEF CreateAlloc, Messages
<1>3. CASE ~full
  <2>1. /\ dinode' = [dinode EXCEPT ![i] = Updated(FreeDinode, [type |-> NewType(f.call)])]
        /\ inode' = Iget(Ilock(f.dp), i) /\ Take(p, f.dp)
        /\ Go(p, [at |-> "create_new", ip |-> i, want |-> i], <<>>)
        /\ UNCHANGED <<files, result, buf, panic>>
      BY <1>3 DEF CreateAlloc
  <2>2. /\ puts[p] = <<>> /\ FrameOK(f)
        /\ DOMAIN puts = Proc /\ DOMAIN result' = Proc /\ DOMAIN buf' = Proc
      BY <1>1, <2>1, AtOK
  <2>3. f.dp \in Inum /\ SafeDir(f.dp) /\ lock[f.dp] = NoProc /\ inode[f.dp].ref > 0
      BY <1>1, DpIs DEF Searches, ParentSearches
  <2>4. i \in FreeInums
    <3>1. FreeInums \subseteq Nat /\ FreeInums # {}
        BY <1>3 DEF FreeInums, Inum
    <3> QED BY <3>1, MinIsIn
  <2>5. i \in Inum /\ dinode[i].type = "free"
      BY <2>4 DEF FreeInums
  <2> HIDE DEF i, full
  <2>6. NewType(f.call) \in {"file", "dir", "dev"}
    <3>1. f.call.op \in {"open", "mkdir", "mknod"}
        BY <1>1, <2>2 DEF FrameOK, FrameCall, Goal
    <3> QED BY <3>1 DEF NewType
  <2>7. /\ CacheOK(inode', dinode) /\ Valid(inode', f.dp)
        /\ \A j \in Inum : /\ inode'[j].ref = inode[j].ref + Hit(i, j)
                           /\ Valid(inode, j) /\ inode[j].ref > 0 => Valid(inode', j)
    <3>1. /\ CacheOK(Ilock(f.dp), dinode) /\ Valid(Ilock(f.dp), f.dp)
          /\ \A j \in Inum : /\ Ilock(f.dp)[j].ref = inode[j].ref
                             /\ Valid(inode, j) => Valid(Ilock(f.dp), j)
        BY <2>3, IlockOK DEF IInv, SafeDir, Safe
    <3>2. /\ CacheOK(inode', dinode)
          /\ \A j \in Inum : /\ inode'[j].ref = Ilock(f.dp)[j].ref + Hit(j, i)
                             /\ Valid(Ilock(f.dp), j) /\ Ilock(f.dp)[j].ref > 0
                                  => Valid(inode', j)
        BY <2>1, <2>5, <3>1, IgetOK
    <3> QED BY <2>3, <3>1, <3>2 DEF Hit
  <2>8. /\ DiskOK(dinode')
        /\ \A j \in Inum : dinode[j].type # "free" => dinode'[j].type = dinode[j].type
    <3> DEFINE new == Updated(FreeDinode, [type |-> NewType(f.call)])
    <3>1. /\ DOMAIN new = {"type", "nlink", "body"} /\ new.type = NewType(f.call)
          /\ new.nlink = 0 /\ new.body = <<>>
        BY DEF Updated, FreeDinode
    <3>2. DOMAIN dinode' = Inum /\ \A j \in Inum : dinode'[j] = IF j = i THEN new ELSE dinode[j]
        BY <2>1 DEF IInv, DiskOK
    <3> HIDE DEF new
    <3> QED BY <2>5, <2>6, <3>1, <3>2 DEF IInv, DiskOK, Types
  <2>9. MemStep(p)
    <3>1. CacheOK(inode', dinode')
        BY <2>7, <2>8 DEF CacheOK
    <3> QED BY <2>7, <2>8, <3>1 DEF MemStep
  <2>10. PutsAre(p, None, None)
      BY <2>1, <2>2, PutsNone
  <2>11. /\ DOMAIN fr'[p] = FrameFields
         /\ fr'[p].at = "create_new" /\ fr'[p].want = i /\ fr'[p].ip = i
         /\ fr'[p].dp = f.dp /\ fr'[p].path = f.path /\ fr'[p].parent = f.parent
         /\ fr'[p].call = f.call
    <3>1. fr'[p] = Updated(f, [at |-> "create_new", ip |-> i, want |-> i])
        BY <2>1, <2>2, GoOK DEF files
    <3> QED BY <2>2, <3>1 DEF Updated, FrameOK, FrameTyped, FrameFields
  <2>12. Goal(fr'[p]) = "create_new" /\ Goal(f) = "create_dir"
      BY <1>1, <2>11 DEF Goal
  <2>13. FrameOK(fr'[p])
    <3>1. FrameTyped(fr'[p])
        BY <2>2, <2>5, <2>11 DEF FrameOK, FrameTyped, Places, DpLocked
    <3>2. FrameHolds(fr'[p])
        BY <1>1, <2>5, <2>11, <2>12 DEF FrameHolds, WithIp, DpLocked, None, Inum
    <3>3. FrameWants(fr'[p])
        BY <2>11 DEF FrameWants, Searches, WantsIp
    <3>4. FrameCall(fr'[p])
        BY <2>2, <2>11, <2>12 DEF FrameOK, FrameCall
    <3> QED BY <3>1, <3>2, <3>3, <3>4 DEF FrameOK
  <2>14. FrameStep(p)
      BY <2>3, <2>11, <2>13 DEF FrameStep, IpUnsafe
  <2>15. LockStep(p)
    <3>1. ASSUME NEW j \in Inum PROVE Holds(p, j)' <=> j = f.dp
      <4>1. fr'[p].at \in DpLocked /\ fr'[p].at \notin IpLocked /\ fr'[p].dp = f.dp
          BY <2>11 DEF DpLocked, IpLocked
      <4> QED BY <2>10, <4>1, HoldsAt
    <3>2. f.at \in Unlocked
        BY <1>1 DEF Unlocked, Places, Searches, DpLocked, IpLocked
    <3> QED BY <2>1, <2>2, <2>3, <2>7, <3>1, <3>2, LockTaken
  <2>16. Accounted(p, None, None, i)
    <3>1. f.ip = None
        BY <1>1, <2>2 DEF FrameOK, FrameHolds, Goal, WithIp, IpLocked
    <3>2. ASSUME NEW j \in Inum PROVE Gains(p, None, None, j) = Had(p, j) + Hit(i, j)
        BY <2>11, <3>1 DEF Gains, Had, Hit, None, Inum
    <3> QED BY <2>7, <3>2 DEF Accounted
  <2> QED BY <1>1, <2>1, <2>2, <2>9, <2>10, <2>14, <2>15, <2>16, MovesOn
<1> QED BY <1>2, <1>3

\* create() writes the new inode and its entry, and keeps the inode locked.
LEMMA CreateNewOK == ASSUME IInv, NEW p \in Proc, CreateNew(p) PROVE Good
<1> DEFINE f == fr[p]
           linked == WithNlink(Ilock(f.ip), f.ip, 1)
           ind == WithNlink(linked, f.dp, Nlink(f.dp) + DotDotLinks(f.call))
           dots == IF f.call.op = "mkdir" THEN [n \in Dots |-> IF n = "." THEN f.ip ELSE f.dp]
                   ELSE <<>>
           new == WithBody(Iupdate(dinode, ind, f.ip), f.ip, dots)
           upd == IF f.call.op = "mkdir" THEN Iupdate(new, ind, f.dp) ELSE new
           place == IF f.call.op = "open" THEN "open_file" ELSE "made"
<1>1. /\ f.at = "create_new" /\ At(p, f.at) /\ Type(f.ip) # "free"
      /\ inode' = ind /\ dinode' = WithEntry(upd, f.dp, f.name, f.ip)
      /\ lock' = [lock EXCEPT ![f.dp] = NoProc, ![f.ip] = p]
      /\ Go(p, [at |-> place, want |-> None, dp |-> None], <<f.dp>>)
      /\ UNCHANGED <<files, result, buf, panic>>
    BY DEF CreateNew, At, WithBody
<1>2. /\ puts[p] = <<>> /\ FrameOK(f)
      /\ DOMAIN puts = Proc /\ DOMAIN result' = Proc /\ DOMAIN buf' = Proc
    BY <1>1, AtOK
<1>3. f.ip # None
    BY <1>1, <1>2 DEF FrameOK, FrameHolds, Goal, WithIp
<1>4. f.ip \in Inum /\ dinode[f.ip].type # "free" /\ lock[f.ip] = NoProc /\ Safe(f.ip)
  <2>1. f.ip \in Inum /\ dinode[f.ip].type # "free" /\ lock[f.ip] = NoProc
      BY <1>1, <1>3, IpIs DEF WantsIp
  <2> QED BY <2>1, TypedSafe
<1>5. /\ f.dp \in Inum /\ \A j \in Inum : Holds(p, j) <=> j = f.dp
      /\ Valid(inode, f.dp)
    BY <1>1, DpLockedIs DEF DpLocked
<1>6. /\ CacheOK(ind, dinode) /\ Valid(ind, f.dp) /\ Valid(ind, f.ip)
      /\ \A j \in Inum : ind[j].ref = inode[j].ref
      /\ \A j \in Inum : Valid(inode, j) => Valid(ind, j)
  <2>1. /\ CacheOK(linked, dinode) /\ Valid(linked, f.ip)
        /\ \A j \in Inum : linked[j].ref = inode[j].ref
        /\ \A j \in Inum : Valid(inode, j) => Valid(linked, j)
      BY <1>4, LinkCountOK
  <2>2. Nlink(f.dp) + DotDotLinks(f.call) \in Int
      BY <1>5, TypeIs DEF IInv, DotDotLinks
  <2> HIDE DEF linked
  <2>3. /\ CacheOK(ind, dinode)
        /\ \A j \in Inum : /\ ind[j].ref = linked[j].ref
                           /\ ind[j].valid = linked[j].valid
      BY <2>1, <2>2, WithNlinkOK
  <2> HIDE DEF ind
  <2> QED BY <1>4, <1>5, <2>1, <2>3 DEF Valid
<1>7. DiskOK(dinode') /\ SameTypes(dinode, dinode')
  <2> HIDE DEF linked, ind
  <2>1. DiskOK(Iupdate(dinode, ind, f.ip)) /\ SameTypes(dinode, Iupdate(dinode, ind, f.ip))
    <3>1. DiskOK(dinode) /\ SameTypes(dinode, dinode)
        BY DEF IInv, SameTypes
    <3> QED BY <1>4, <1>6, <3>1, IupdateOK
  <2>2. \A n \in DOMAIN dots : dots[n] \in Inum
    <3>1. CASE f.call.op = "mkdir"
        BY <1>4, <1>5, <3>1
    <3>2. CASE f.call.op # "mkdir"
        BY <3>2
    <3> QED BY <3>1, <3>2
  <2> HIDE DEF dots
  <2>3. DiskOK(new) /\ SameTypes(dinode, new)
    <3>1. DiskOK(new) /\ SameTypes(Iupdate(dinode, ind, f.ip), new)
        BY <1>4, <2>1, <2>2, WithBodyOK
    <3> QED BY <2>1, <3>1 DEF SameTypes
  <2> HIDE DEF new
  <2>4. DiskOK(Iupdate(new, ind, f.dp)) /\ SameTypes(dinode, Iupdate(new, ind, f.dp))
      BY <1>5, <1>6, <2>3, IupdateOK
  <2>5. DiskOK(upd) /\ SameTypes(dinode, upd)
      BY <2>3, <2>4
  <2> HIDE DEF upd
  <2>6. DiskOK(dinode') /\ SameTypes(upd, dinode')
      BY <1>1, <1>4, <1>5, <2>5, WithEntryOK
  <2> QED BY <2>5, <2>6 DEF SameTypes
<1> HIDE DEF linked, ind, dots, new, upd
<1>8. MemStep(p) /\ RefsSame /\ Valid(inode', f.ip)
    BY <1>1, <1>6, <1>7, MemOK DEF RefsSame
<1>9. PutsAre(p, f.dp, None)
    BY <1>1, <1>2, <1>5, PutsOne
<1>10. place \in {"open_file", "made"}
    OBVIOUS
<1> HIDE DEF place
<1>11. /\ DOMAIN fr'[p] = FrameFields
       /\ fr'[p].at = place /\ fr'[p].want = None /\ fr'[p].ip = f.ip
       /\ fr'[p].dp = None /\ fr'[p].path = f.path /\ fr'[p].parent = f.parent
  <2>1. fr'[p] = Updated(f, [at |-> place, want |-> None, dp |-> None])
      BY <1>1, <1>2, GoOK DEF files
  <2> QED BY <1>2, <2>1 DEF Updated, FrameOK, FrameTyped, FrameFields
<1>12. Goal(fr'[p]) = place
    BY <1>10, <1>11 DEF Goal
<1>13. FrameOK(fr'[p])
  <2>1. FrameTyped(fr'[p])
      BY <1>2, <1>10, <1>11 DEF FrameOK, FrameTyped, Places, IpLocked
  <2>2. FrameHolds(fr'[p])
      BY <1>3, <1>10, <1>11, <1>12 DEF FrameHolds, WithIp, IpLocked, DpLocked
  <2>3. FrameWants(fr'[p])
      BY <1>10, <1>11 DEF FrameWants, Searches, WantsIp
  <2>4. FrameCall(fr'[p])
      BY <1>10, <1>12 DEF FrameCall
  <2> QED BY <2>1, <2>2, <2>3, <2>4 DEF FrameOK
<1>14. FrameStep(p)
    BY <1>4, <1>10, <1>11, <1>13 DEF FrameStep
<1>15. LockStep(p)
  <2>1. ASSUME NEW j \in Inum PROVE Holds(p, j)' <=> j = f.ip
    <3>1. fr'[p].at \notin DpLocked /\ fr'[p].at \in IpLocked /\ fr'[p].ip = f.ip
        BY <1>10, <1>11 DEF DpLocked, IpLocked
    <3> QED BY <1>9, <3>1, HoldsAt
  <2> QED BY <1>1, <1>4, <1>5, <1>8, <2>1, LockSwapped
<1>16. Accounted(p, f.dp, None, None)
    BY <1>8, <1>11 DEF Accounted, RefsSame, Gains, Had, Hit, None, Inum, IInv, CacheOK
<1> QED BY <1>1, <1>2, <1>8, <1>9, <1>14, <1>15, <1>16, MovesOn

\* sys_open() without O_CREATE has found the inode, and keeps it locked.
LEMMA OpenOldOK == ASSUME IInv, NEW p \in Proc, OpenOld(p) PROVE Good
<1> DEFINE f == fr[p]
<1>1. /\ f.at = "open_old" /\ At(p, f.at) /\ f.dp # None
      /\ Type(f.dp) \in {"file", "dev", "dir"} /\ inode' = Ilock(f.dp) /\ Take(p, f.dp)
      /\ Go(p, [at |-> "open_file", ip |-> f.dp, dp |-> None, want |-> None], <<>>)
      /\ UNCHANGED <<dinode, files, result, buf, panic>>
    BY DEF OpenOld, At
<1>2. /\ puts[p] = <<>> /\ FrameOK(f)
      /\ DOMAIN puts = Proc /\ DOMAIN result' = Proc /\ DOMAIN buf' = Proc
    BY <1>1, AtOK
<1>3. f.dp \in Inum /\ Safe(f.dp) /\ lock[f.dp] = NoProc /\ dinode[f.dp].type # "free"
    BY <1>1, DpIs DEF Searches
<1>4. f.ip = None
    BY <1>1, <1>2 DEF FrameOK, FrameHolds, Goal, WithIp, IpLocked
<1>5. MemStep(p) /\ RefsSame /\ Valid(inode', f.dp)
    BY <1>1, <1>3, ReadIn
<1>6. PutsAre(p, None, None)
    BY <1>1, <1>2, PutsNone
<1>7. /\ DOMAIN fr'[p] = FrameFields
      /\ fr'[p].at = "open_file" /\ fr'[p].want = None /\ fr'[p].ip = f.dp
      /\ fr'[p].dp = None /\ fr'[p].path = f.path /\ fr'[p].parent = f.parent
  <2>1. fr'[p] = Updated(f, [at |-> "open_file", ip |-> f.dp, dp |-> None, want |-> None])
      BY <1>1, <1>2, GoOK DEF files
  <2> QED BY <1>2, <2>1 DEF Updated, FrameOK, FrameTyped, FrameFields
<1>8. Goal(fr'[p]) = "open_file"
    BY <1>7 DEF Goal
<1>9. FrameOK(fr'[p])
  <2>1. FrameTyped(fr'[p])
      BY <1>2, <1>3, <1>7 DEF FrameOK, FrameTyped, Places, IpLocked
  <2>2. FrameHolds(fr'[p])
      BY <1>1, <1>7, <1>8 DEF FrameHolds, WithIp, IpLocked, DpLocked
  <2>3. FrameWants(fr'[p])
      BY <1>7 DEF FrameWants, Searches, WantsIp
  <2>4. FrameCall(fr'[p])
      BY <1>8 DEF FrameCall
  <2> QED BY <2>1, <2>2, <2>3, <2>4 DEF FrameOK
<1>10. FrameStep(p)
    BY <1>3, <1>7, <1>9 DEF FrameStep
<1>11. LockStep(p)
  <2>1. ASSUME NEW j \in Inum PROVE Holds(p, j)' <=> j = f.dp
    <3>1. fr'[p].at \notin DpLocked /\ fr'[p].at \in IpLocked /\ fr'[p].ip = f.dp
        BY <1>7 DEF DpLocked, IpLocked
    <3> QED BY <1>6, <3>1, HoldsAt
  <2>2. f.at \in Unlocked
      BY <1>1 DEF Unlocked, Places, Searches, DpLocked, IpLocked
  <2> QED BY <1>1, <1>2, <1>3, <1>5, <2>1, <2>2, LockTaken
<1>12. Accounted(p, None, None, None)
    BY <1>4, <1>5, <1>7 DEF Accounted, RefsSame, Gains, Had, Hit, None, Inum, IInv, CacheOK
<1> QED BY <1>1, <1>2, <1>5, <1>6, <1>10, <1>11, <1>12, MovesOn

-----------------------------------------------------------------------------
(* sys_move_file() *)

\* The directory does not have the name: the link is taken back.
LEMMA MoveNoEntryOK == ASSUME IInv, NEW p \in Proc, MoveNoEntry(p) PROVE Good
<1> DEFINE f == fr[p]
<1>1. /\ f.at = "move_dir" /\ At(p, f.at) /\ f.dp # None /\ inode' = Ilock(f.dp)
      /\ Go(p, Undo(p), <<f.dp>>)
      /\ UNCHANGED <<dinode, lock, files, result, buf, panic>>
    BY DEF MoveNoEntry, At
<1>2. /\ puts[p] = <<>> /\ FrameOK(f)
      /\ DOMAIN puts = Proc /\ DOMAIN result' = Proc /\ DOMAIN buf' = Proc
    BY <1>1, AtOK
<1>3. f.ip # None /\ f.at \notin IpUnsafe
    BY <1>1, <1>2 DEF FrameOK, FrameHolds, Goal, WithIp, IpUnsafe
<1>4. f.dp \in Inum /\ dinode[f.dp].type # "free"
    BY <1>1, DpIs DEF Searches, ParentSearches, SafeDir, Safe
<1>5. fr'[p] = Updated(f, Undo(p))
    BY <1>1, <1>2, GoOK DEF files
<1>6. FrameStep(p) /\ fr'[p].at = "drop_link" /\ fr'[p].ip = f.ip /\ fr'[p].dp = None
    BY <1>1, <1>2, <1>3, <1>5, IpIs, UndoIs
<1>7. PutsAre(p, f.dp, None)
    BY <1>1, <1>2, <1>4, PutsOne
<1>8. MemStep(p) /\ RefsSame
    BY <1>1, <1>4, ReadIn
<1>9. LockStep(p)
  <2>1. f.at \in Unlocked /\ fr'[p].at \in Unlocked
      BY <1>1, <1>6 DEF Unlocked, Places, Searches, DpLocked, IpLocked
  <2> QED BY <1>1, <1>2, <1>7, <1>8, <2>1, LockSame
<1>10. Accounted(p, f.dp, None, None)
    BY <1>6, <1>8 DEF Accounted, RefsSame, Gains, Had, Hit, None, Inum, IInv, CacheOK
<1> QED BY <1>1, <1>2, <1>6, <1>7, <1>8, <1>9, <1>10, MovesOn

\* The new name is written.
LEMMA MoveDestOK == ASSUME IInv, NEW p \in Proc, MoveDest(p) PROVE Good
<1> DEFINE f == fr[p]
<1>1. /\ f.at = "move_dest" /\ At(p, f.at) /\ f.dp # None /\ Type(f.dp) = "dir"
      /\ inode' = Ilock(f.dp) /\ dinode' = WithEntry(dinode, f.dp, f.call.name, f.ip)
      /\ Go(p, [at |-> "moved", want |-> f.ip, dp |-> None], <<f.dp>>)
      /\ UNCHANGED <<lock, files, result, buf, panic>>
    BY DEF MoveDest, At
<1>2. /\ puts[p] = <<>> /\ FrameOK(f)
      /\ DOMAIN puts = Proc /\ DOMAIN result' = Proc /\ DOMAIN buf' = Proc
    BY <1>1, AtOK
<1>3. f.ip # None /\ f.at \notin IpUnsafe
    BY <1>1, <1>2 DEF FrameOK, FrameHolds, Goal, WithIp, IpUnsafe
<1>4. f.ip \in Inum /\ Safe(f.ip)
    BY <1>1, <1>3, IpIs
<1>5. f.dp \in Inum /\ dinode[f.dp].type # "free"
    BY <1>1, DpIs DEF Searches
<1>6. PutsAre(p, f.dp, None)
    BY <1>1, <1>2, <1>5, PutsOne
<1>7. MemStep(p) /\ RefsSame
  <2>1. /\ CacheOK(inode', dinode)
        /\ \A j \in Inum : /\ inode'[j].ref = inode[j].ref
                           /\ Valid(inode, j) => Valid(inode', j)
      BY <1>1, <1>5, IlockOK DEF IInv
  <2>2. DiskOK(dinode') /\ SameTypes(dinode, dinode')
      BY <1>1, <1>4, <1>5, WithEntryOK DEF IInv
  <2> QED BY <2>1, <2>2, MemOK DEF RefsSame
<1>8. /\ DOMAIN fr'[p] = FrameFields
      /\ fr'[p].at = "moved" /\ fr'[p].want = f.ip /\ fr'[p].ip = f.ip
      /\ fr'[p].dp = None /\ fr'[p].path = f.path /\ fr'[p].parent = f.parent
  <2>1. fr'[p] = Updated(f, [at |-> "moved", want |-> f.ip, dp |-> None])
      BY <1>1, <1>2, GoOK DEF files
  <2> QED BY <1>2, <2>1 DEF Updated, FrameOK, FrameTyped, FrameFields
<1>9. Goal(fr'[p]) = "moved"
    BY <1>8 DEF Goal
<1>10. FrameOK(fr'[p])
  <2>1. FrameTyped(fr'[p])
      BY <1>2, <1>4, <1>8 DEF FrameOK, FrameTyped, Places
  <2>2. FrameHolds(fr'[p])
      BY <1>3, <1>8, <1>9 DEF FrameHolds, WithIp, DpLocked
  <2>3. FrameWants(fr'[p])
      BY <1>8 DEF FrameWants, Searches, WantsIp
  <2>4. FrameCall(fr'[p])
      BY <1>9 DEF FrameCall
  <2> QED BY <2>1, <2>2, <2>3, <2>4 DEF FrameOK
<1>11. FrameStep(p)
    BY <1>4, <1>8, <1>10 DEF FrameStep
<1>12. LockStep(p)
  <2>1. f.at \in Unlocked /\ fr'[p].at \in Unlocked
      BY <1>1, <1>8 DEF Unlocked, Places, Searches, DpLocked, IpLocked
  <2> QED BY <1>1, <1>2, <1>6, <1>7, <2>1, LockSame
<1>13. Accounted(p, f.dp, None, None)
    BY <1>7, <1>8 DEF Accounted, RefsSame, Gains, Had, Hit, None, Inum, IInv, CacheOK
<1> QED BY <1>1, <1>2, <1>6, <1>7, <1>11, <1>12, <1>13, MovesOn

\* A step of sys_move_file() that may forget references.
LEMMA ForgetsOK ==
    ASSUME IInv, NEW p \in Proc, fr[p].at \in {"move_dir", "move_dest"}, At(p, fr[p].at),
           NEW fields, NEW ps, Go(p, fields, ps), NEW a, NEW b, PutsAre(p, a, b),
           UNCHANGED files, UNCHANGED result, UNCHANGED buf, UNCHANGED panic,
           MemStep(p), FrameStep(p), fr'[p].at \in Unlocked, UNCHANGED lock, Overpays(p, a, b)
    PROVE  Good
<1>1. puts[p] = <<>> /\ fr[p].at # "unused" /\ panic' \in Messages
      /\ DOMAIN result' = Proc /\ DOMAIN buf' = Proc
    BY AtOK
<1>2. Alone(p)
    BY <1>1, GoOK DEF files
<1>3. LockStep(p)
  <2>1. fr[p].at \in Unlocked
      BY DEF Unlocked, Places, Searches, DpLocked, IpLocked
  <2> QED BY <1>1, <2>1, LockSame
<1>4. IInv'
    BY <1>1, <1>2, <1>3, KernelOK
<1>5. ~NoMoves
    BY DEF NoMoves, MoveGoals, Goal
<1> QED BY <1>4, <1>5 DEF Good

\* The destination is no directory, or has the name.
LEMMA MoveBadDestOK == ASSUME IInv, NEW p \in Proc, MoveBadDest(p) PROVE Good
<1> DEFINE f == fr[p]
           old == Entries(f.dp)[f.call.name]
           taken == Type(f.dp) = "dir" /\ Has(f.dp, f.call.name)
<1>1. /\ f.at = "move_dest" /\ At(p, f.at) /\ f.dp # None
      /\ Type(f.dp) \in {"file", "dev"} \/ taken
      /\ inode' = (IF taken THEN Iget(Ilock(f.dp), old) ELSE Ilock(f.dp))
      /\ Go(p, Undo(p), <<f.dp>>)
      /\ UNCHANGED <<dinode, lock, files, result, buf, panic>>
    BY DEF MoveBadDest, At
<1>2. /\ puts[p] = <<>> /\ FrameOK(f)
      /\ DOMAIN puts = Proc /\ DOMAIN result' = Proc /\ DOMAIN buf' = Proc
    BY <1>1, AtOK
<1>3. f.ip # None /\ f.at \notin IpUnsafe
    BY <1>1, <1>2 DEF FrameOK, FrameHolds, Goal, WithIp, IpUnsafe
<1>4. f.dp \in Inum /\ dinode[f.dp].type # "free" /\ inode[f.dp].ref > 0
    BY <1>1, DpIs DEF Searches
<1>5. taken => old \in Inum
    BY <1>1, <1>4, DpIs DEF IInv, DiskOK, Has, Entries, Searches
<1> HIDE DEF old, taken
<1>6. fr'[p] = Updated(f, Undo(p))
    BY <1>1, <1>2, GoOK DEF files
<1>7. FrameStep(p) /\ fr'[p].at = "drop_link" /\ fr'[p].ip = f.ip /\ fr'[p].dp = None
    BY <1>1, <1>2, <1>3, <1>6, IpIs, UndoIs
<1>8. PutsAre(p, f.dp, None)
    BY <1>1, <1>2, <1>4, PutsOne
<1>9. MemStep(p) /\ \A j \in Inum : inode'[j].ref >= inode[j].ref
  <2>1. CASE taken
    <3>1. MemStep(p) /\ \A j \in Inum : inode'[j].ref = inode[j].ref + Hit(old, j)
        BY <1>1, <1>4, <1>5, <2>1, ReadAndGet
    <3> QED BY <3>1 DEF Hit, IInv, CacheOK
  <2>2. CASE ~taken
    <3>1. MemStep(p) /\ RefsSame
        BY <1>1, <1>4, <2>2, ReadIn
    <3> QED BY <3>1 DEF RefsSame, IInv, CacheOK
  <2> QED BY <2>1, <2>2
<1>10. Overpays(p, f.dp, None)
  <2>1. ASSUME NEW j \in Inum
        PROVE  inode[j].ref + Gains(p, f.dp, None, j) <= inode'[j].ref + Had(p, j)
    <3>1. Gains(p, f.dp, None, j) = Had(p, j) /\ Had(p, j) \in Nat
        BY <1>7 DEF Gains, Had, Hit, None, Inum
    <3>2. inode[j].ref \in Nat /\ inode'[j].ref \in Nat /\ inode'[j].ref >= inode[j].ref
        BY <1>9 DEF IInv, CacheOK, MemStep
    <3> QED BY <3>1, <3>2
  <2> QED BY <2>1 DEF Overpays
<1>11. fr'[p].at \in Unlocked
    BY <1>7 DEF Unlocked, Places, DpLocked, IpLocked
<1> QED BY <1>1, <1>7, <1>8, <1>9, <1>10, <1>11, ForgetsOK

\* The old name is erased, and namex() begins for the destination.
LEMMA MoveEraseOK == ASSUME IInv, NEW p \in Proc, MoveErase(p) PROVE Good
<1> DEFINE f == fr[p]
           i == Entries(f.dp)[f.name]
           x == Start(p, f.call.new)
           ind == Iget(Ilock(f.dp), i)
           less == WithNlink(ind, f.dp, Nlink(f.dp) - 1)
           c == [op |-> "move", name |-> f.name]
           full == CacheFull(i) \/ CacheFull(x)
<1>1. f.at = "move_dir" /\ At(p, f.at) /\ f.dp # None /\ Has(f.dp, f.name)
    BY DEF MoveErase, At
<1>2. CASE full
    BY <1>2, PanicOK DEF MoveErase, Messages
<1>3. CASE ~full
  <2>1. /\ inode' = Iget(less, x) /\ dinode' = WithoutEntry(dinode, f.dp, f.name)
        /\ Go(p, Namex(p, f.call.new, FALSE, "move_dest", f.ip, c), <<>>)
        /\ UNCHANGED <<lock, files, result, buf, panic>>
      BY <1>3 DEF MoveErase
  <2>2. /\ puts[p] = <<>> /\ FrameOK(f)
        /\ DOMAIN puts = Proc /\ DOMAIN result' = Proc /\ DOMAIN buf' = Proc
      BY <1>1, <2>1, AtOK
  <2>3. f.dp \in Inum /\ SafeDir(f.dp) /\ inode[f.dp].ref > 0
      BY <1>1, DpIs DEF Searches, ParentSearches
  <2>4. dinode[f.dp].type = "dir" /\ dinode[f.dp].type # "free"
      BY <2>3 DEF SafeDir
  <2>5. i \in Inum
      BY <1>1, <2>3, <2>4 DEF IInv, DiskOK, Has, Entries
  <2>6. f.ip \in Inum /\ Safe(f.ip)
    <3>1. f.ip # None /\ f.at \notin IpUnsafe
        BY <1>1, <2>2 DEF FrameOK, FrameHolds, Goal, WithIp, IpUnsafe
    <3> QED BY <1>1, <3>1, IpIs
  <2>7. IsPath(f.call.new) /\ x \in Inum /\ f.call.new.elems \in Seq(STRING)
    <3>1. IsPath(f.call.new)
        BY <1>1, <2>2 DEF FrameOK, FrameCall, Goal
    <3> QED BY <1>1, <3>1, StartIs
  <2>8. FrameOK(fr'[p]) /\ fr'[p].at = "namex" /\ fr'[p].dp = x /\ fr'[p].ip = f.ip
    <3>1. PICK parent \in BOOLEAN : parent = FALSE
        OBVIOUS
    <3>2. NamexFor("move_dest", parent, f.ip, c)
        BY <2>6, <3>1 DEF NamexFor, Searches, ParentSearches, WithIp, None, Inum
    <3>3. fr'[p] = Updated(f, Namex(p, f.call.new, parent, "move_dest", f.ip, c))
        BY <2>1, <2>2, <3>1, GoOK DEF files
    <3> HIDE DEF c
    <3> QED BY <2>2, <2>7, <3>2, <3>3, NamexFrame
  <2> HIDE DEF i, x, c
  <2>9. MemStep(p) /\ \A j \in Inum : inode'[j].ref = inode[j].ref + Hit(i, j) + Hit(x, j)
    <3>1. /\ CacheOK(Ilock(f.dp), dinode)
          /\ \A j \in Inum : /\ Ilock(f.dp)[j].ref = inode[j].ref
                             /\ Valid(inode, j) => Valid(Ilock(f.dp), j)
        BY <2>3, <2>4, IlockOK DEF IInv
    <3>2. /\ CacheOK(ind, dinode)
          /\ \A j \in Inum : /\ ind[j].ref = Ilock(f.dp)[j].ref + Hit(j, i)
                             /\ Valid(Ilock(f.dp), j) /\ Ilock(f.dp)[j].ref > 0 => Valid(ind, j)
        BY <2>5, <3>1, IgetOK
    <3> HIDE DEF ind
    <3>3. Nlink(f.dp) - 1 \in Int
        BY <2>3, TypeIs DEF IInv
    <3>4. /\ CacheOK(less, dinode)
          /\ \A j \in Inum : less[j].ref = ind[j].ref /\ less[j].valid = ind[j].valid
        BY <3>2, <3>3, WithNlinkOK
    <3> HIDE DEF less
    <3>5. /\ CacheOK(inode', dinode)
          /\ \A j \in Inum : /\ inode'[j].ref = less[j].ref + Hit(j, x)
                             /\ Valid(less, j) /\ less[j].ref > 0 => Valid(inode', j)
        BY <2>1, <2>7, <3>4, IgetOK
    <3>6. DiskOK(dinode') /\ SameTypes(dinode, dinode')
        BY <2>1, <2>3, WithoutEntryOK DEF IInv
    <3>7. ASSUME NEW j \in Inum
          PROVE  /\ inode'[j].ref = inode[j].ref + Hit(i, j) + Hit(x, j)
                 /\ Valid(inode, j) /\ inode[j].ref > 0 => Valid(inode', j)
      <4>1. inode'[j].ref = inode[j].ref + Hit(i, j) + Hit(x, j)
          BY <3>1, <3>2, <3>4, <3>5 DEF Hit
      <4>2. Valid(inode, j) /\ inode[j].ref > 0 => Valid(ind, j) /\ ind[j].ref > 0
          BY <3>1, <3>2 DEF Hit, IInv, CacheOK
      <4>3. Valid(ind, j) /\ ind[j].ref > 0 => Valid(inode', j)
          BY <3>4, <3>5 DEF Valid
      <4> QED BY <4>1, <4>2, <4>3
    <3>8. MemStep(p)
        BY <3>5, <3>6, <3>7, MemOK
    <3> QED BY <3>7, <3>8
  <2> HIDE DEF ind, less
  <2>10. PutsAre(p, None, None)
      BY <2>1, <2>2, PutsNone
  <2>11. FrameStep(p)
      BY <2>6, <2>8 DEF FrameStep, DpIsDir, ParentSearches, DpLocked
  <2>12. Overpays(p, None, None)
    <3>1. ASSUME NEW j \in Inum
          PROVE  inode[j].ref + Gains(p, None, None, j) <= inode'[j].ref + Had(p, j)
      <4>1. /\ Gains(p, None, None, j) = Hit(f.ip, j) + Hit(x, j)
            /\ Had(p, j) = Hit(f.ip, j) + Hit(f.dp, j)
            /\ inode'[j].ref = inode[j].ref + Hit(i, j) + Hit(x, j)
          BY <2>8, <2>9 DEF Gains, Had, Hit, None, Inum
      <4>2. inode[j].ref \in Nat /\ \A y : Hit(y, j) \in Nat
          BY DEF IInv, CacheOK, Hit
      <4> QED BY <4>1, <4>2
    <3> QED BY <3>1 DEF Overpays
  <2>13. fr'[p].at \in Unlocked
      BY <2>8 DEF Unlocked, Places, DpLocked, IpLocked
  <2> QED BY <1>1, <2>1, <2>9, <2>10, <2>11, <2>12, <2>13, ForgetsOK
<1> QED BY <1>2, <1>3

-----------------------------------------------------------------------------
(* Descriptors *)

\* There are finitely many descriptors, and those on a file are a number.
LEMMA DescriptorsCount ==
    ASSUME NEW g
    PROVE  /\ IsFiniteSet(Proc \X Fd) /\ IsFiniteSet(Descriptors(g))
           /\ Cardinality(Descriptors(g)) \in Nat
<1>1. IsFiniteSet(Fd)
  <2>1. NOFILE - 1 \in Int /\ 0 \in Int
      BY SizeAssumption
  <2> QED BY <2>1, FS_Interval DEF Fd
<1>2. IsFiniteSet(Proc \X Fd)
    BY <1>1, ProcAssumption, FS_Product
<1>3. Descriptors(g) \subseteq Proc \X Fd
    BY DEF Descriptors
<1> QED BY <1>2, <1>3, FS_Subset, FS_CardinalityType

\* The file of a descriptor is in use.
LEMMA FileInUse ==
    ASSUME IInv, NEW p \in Proc, NEW d \in Fd, ofile[p][d] # None
    PROVE  /\ ofile[p][d] \in File /\ file[ofile[p][d]].ref > 0
           /\ Safe(file[ofile[p][d]].ip) /\ file[ofile[p][d]].ip \in Inum
<1>1. PICK g \in File : g = ofile[p][d]
    BY DEF IInv, FdsOK
<1>2. Descriptors(g) # {}
  <2>1. <<p, d>> \in Descriptors(g)
      BY <1>1 DEF Descriptors
  <2> QED BY <2>1
<1>3. Cardinality(Descriptors(g)) # 0 /\ Cardinality(Descriptors(g)) \in Nat
    BY <1>2, DescriptorsCount, FS_EmptySet
<1>4. file[g].ref > 0
    BY <1>3 DEF IInv, FileRefs
<1> QED BY <1>1, <1>4 DEF IInv, FilesOK, Safe

-----------------------------------------------------------------------------
(* System calls that change nothing but the place of the process *)

\* exit() begins.
LEMMA ExitOK == ASSUME IInv, NEW p \in Proc, Exit(p) PROVE Good
<1> DEFINE f == fr[p]
<1>1. /\ f.at = "user" /\ At(p, f.at) /\ Go(p, [at |-> "exit"], <<>>)
      /\ UNCHANGED <<dinode, inode, lock, files, result, buf, panic>>
    BY DEF Exit, User, At
<1>2. /\ puts[p] = <<>> /\ FrameOK(f)
      /\ DOMAIN puts = Proc /\ DOMAIN result' = Proc /\ DOMAIN buf' = Proc
    BY <1>1, AtOK
<1>3. f.ip = None /\ f.dp = None /\ f.want = None
    BY <1>1, <1>2 DEF FrameOK, FrameHolds, FrameWants, Goal, WithIp, IpLocked, Searches,
                      DpLocked, WantsIp
<1>4. /\ DOMAIN fr'[p] = FrameFields
      /\ fr'[p].at = "exit" /\ fr'[p].want = None /\ fr'[p].ip = None
      /\ fr'[p].dp = None /\ fr'[p].path = f.path /\ fr'[p].parent = f.parent
  <2>1. fr'[p] = Updated(f, [at |-> "exit"])
      BY <1>1, <1>2, GoOK DEF files
  <2> QED BY <1>2, <1>3, <2>1 DEF Updated, FrameOK, FrameTyped, FrameFields
<1>5. Goal(fr'[p]) = "exit"
    BY <1>4 DEF Goal
<1>6. FrameOK(fr'[p])
  <2>1. FrameTyped(fr'[p])
      BY <1>2, <1>4 DEF FrameOK, FrameTyped, Places
  <2>2. FrameHolds(fr'[p])
      BY <1>4, <1>5 DEF FrameHolds, WithIp, IpLocked, DpLocked
  <2>3. FrameWants(fr'[p])
      BY <1>4 DEF FrameWants, Searches, WantsIp
  <2>4. FrameCall(fr'[p])
      BY <1>5 DEF FrameCall
  <2> QED BY <2>1, <2>2, <2>3, <2>4 DEF FrameOK
<1>7. FrameStep(p)
    BY <1>4, <1>6 DEF FrameStep
<1>8. PutsAre(p, None, None)
    BY <1>1, <1>2, PutsNone
<1>9. MemStep(p) /\ RefsSame
    BY <1>1, ReadNothing
<1>10. LockStep(p)
  <2>1. f.at \in Unlocked /\ fr'[p].at \in Unlocked
      BY <1>1, <1>4 DEF Unlocked, Places, DpLocked, IpLocked
  <2> QED BY <1>1, <1>2, <1>8, <1>9, <2>1, LockSame
<1>11. Accounted(p, None, None, None)
    BY <1>3, <1>4, <1>9 DEF Accounted, RefsSame, Gains, Had, Hit, None, Inum, IInv, CacheOK
<1> QED BY <1>1, <1>2, <1>7, <1>8, <1>9, <1>10, <1>11, MovesOn

\* A step that answers at once, and changes nothing else but what the program sees.
LEMMA AnswerOK ==
    ASSUME IInv, NEW p \in Proc, UNCHANGED <<dinode, inode, lock, files, fr, puts, panic>>,
           DOMAIN result' = Proc, DOMAIN buf' = Proc
    PROVE  Good
<1>1. /\ UNCHANGED <<dinode, inode, lock, file, ofile, cwd, fr, puts, panic>>
      /\ DOMAIN result' = Proc /\ DOMAIN buf' = Proc
    BY DEF files
<1>2. DiskOK(dinode') /\ CacheOK(inode', dinode') /\ panic' \in Messages
    BY <1>1 DEF IInv
<1>3. FilesOK' /\ FdsOK' /\ FileRefs'
    BY <1>1 DEF IInv, FilesOK, FdsOK, FileRefs, Descriptors, Safe, Freeing
<1>4. LocksOK'
    BY <1>1 DEF IInv, LocksOK, Holds, DpHeld, IpHeld, Freeing
<1>5. ProcsOK'
    BY <1>1 DEF IInv, ProcsOK, OwnOK, Safe, SafeDir, Freeing
<1>6. \A i : References(i)' = References(i)
    BY <1>1 DEF References, Put
<1>7. RefsCover' /\ (InodeRefs => InodeRefs')
    BY <1>1, <1>6 DEF IInv, RefsCover, InodeRefs
<1> QED BY <1>2, <1>3, <1>4, <1>5, <1>7 DEF Good, IInv

\* filewrite() begins, with the inode of the descriptor.
LEMMA WriteOK ==
    ASSUME IInv, NEW p \in Proc, NEW d \in Fd, NEW chunks, Write(p, d, chunks)
    PROVE  Good
<1> DEFINE f == fr[p]
           i == file[ofile[p][d]].ip
           c == [op |-> "write", d |-> d, n |-> Len(chunks), left |-> chunks]
<1>1. /\ f.at = "user" /\ At(p, f.at)
      /\ UNCHANGED <<dinode, inode, lock, files, buf, panic>>
    BY DEF Write, User, At
<1>2. /\ puts[p] = <<>> /\ FrameOK(f)
      /\ DOMAIN puts = Proc /\ DOMAIN result = Proc /\ DOMAIN buf' = Proc
    BY <1>1, AtOK
<1>3. CASE CanWrite(p, d)
  <2>1. Go(p, [at |-> "write", want |-> i, call |-> c], <<>>) /\ UNCHANGED result
      BY <1>3 DEF Write
  <2>2. i \in Inum
    <3>1. ofile[p][d] # None
        BY <1>3 DEF CanWrite
    <3> QED BY <3>1, FileInUse
  <2> HIDE DEF i, c
  <2>3. f.ip = None /\ f.dp = None
      BY <1>1, <1>2 DEF FrameOK, FrameHolds, Goal, WithIp, IpLocked, Searches, DpLocked
  <2>4. /\ DOMAIN fr'[p] = FrameFields
        /\ fr'[p].at = "write" /\ fr'[p].want = i /\ fr'[p].ip = None
        /\ fr'[p].dp = None /\ fr'[p].path = f.path /\ fr'[p].parent = f.parent
    <3>1. fr'[p] = Updated(f, [at |-> "write", want |-> i, call |-> c])
        BY <1>1, <1>2, <2>1, GoOK DEF files
    <3> QED BY <1>2, <2>3, <3>1 DEF Updated, FrameOK, FrameTyped, FrameFields
  <2>5. Goal(fr'[p]) = "write"
      BY <2>4 DEF Goal
  <2>6. FrameOK(fr'[p])
    <3>1. FrameTyped(fr'[p])
        BY <1>2, <2>2, <2>4 DEF FrameOK, FrameTyped, Places
    <3>2. FrameHolds(fr'[p])
        BY <2>4, <2>5 DEF FrameHolds, WithIp, IpLocked, DpLocked
    <3>3. FrameWants(fr'[p])
        BY <2>2, <2>4 DEF FrameWants, Searches, WantsIp, None, Inum
    <3>4. FrameCall(fr'[p])
        BY <2>5 DEF FrameCall
    <3> QED BY <3>1, <3>2, <3>3, <3>4 DEF FrameOK
  <2>7. FrameStep(p)
      BY <2>4, <2>6 DEF FrameStep
  <2>8. PutsAre(p, None, None)
      BY <1>2, <2>1, PutsNone
  <2>9. MemStep(p) /\ RefsSame
      BY <1>1, ReadNothing
  <2>10. LockStep(p)
    <3>1. f.at \in Unlocked /\ fr'[p].at \in Unlocked
        BY <1>1, <2>4 DEF Unlocked, Places, DpLocked, IpLocked
    <3> QED BY <1>1, <1>2, <2>8, <2>9, <3>1, LockSame
  <2>11. Accounted(p, None, None, None)
      BY <2>3, <2>4, <2>9 DEF Accounted, RefsSame, Gains, Had, Hit, None, Inum, IInv, CacheOK
  <2> QED BY <1>1, <1>2, <2>1, <2>7, <2>8, <2>9, <2>10, <2>11, MovesOn
<1>4. CASE ~CanWrite(p, d)
  <2>1. UNCHANGED <<fr, puts>> /\ DOMAIN result' = Proc
      BY <1>2, <1>4 DEF Write, Answer
  <2> QED BY <1>1, <1>2, <2>1, AnswerOK
<1> QED BY <1>3, <1>4

\* filewrite() has written everything.
LEMMA WriteEndOK == ASSUME IInv, NEW p \in Proc, WriteEnd(p) PROVE Good
<1>1. /\ fr[p].at = "write" /\ At(p, fr[p].at) /\ Return(p, fr[p].call.n, <<>>)
      /\ UNCHANGED <<dinode, inode, lock, files, buf, panic>>
    BY DEF WriteEnd
<1>2. puts[p] = <<>> /\ FrameOK(fr[p]) /\ DOMAIN puts = Proc /\ DOMAIN buf' = Proc
    BY <1>1, AtOK
<1>3. fr[p].ip = None /\ fr[p].dp = None
    BY <1>1, <1>2 DEF FrameOK, FrameHolds, Goal, WithIp, IpLocked, Searches, DpLocked
<1>4. PutsAre(p, None, None)
    BY <1>1, <1>2, PutsNone DEF Return
<1>5. MemStep(p) /\ RefsSame
    BY <1>1, ReadNothing
<1>6. Trade(None, None, None, fr[p].ip, fr[p].dp)
    BY <1>3 DEF Trade, Hit, None, Inum
<1>7. LockStep(p)
  <2>1. fr[p].at \in Unlocked /\ fr'[p].at \in Unlocked
      BY <1>1, ReturnIs, IdleIs DEF Unlocked, Places, DpLocked, IpLocked
  <2> QED BY <1>1, <1>2, <1>4, <1>5, <2>1, LockSame
<1> QED BY <1>1, <1>2, <1>4, <1>5, <1>6, <1>7, ReturnsOK

-----------------------------------------------------------------------------
(* iput() *)

\* The inode that p is putting.
LEMMA PuttingIs ==
    ASSUME IInv, NEW p \in Proc, NEW place, Putting(p, place)
    PROVE  /\ Head(puts[p]).i \in Inum /\ Put(p, 1) = Head(puts[p]).i
           /\ puts[p] # <<>> /\ puts[p][1] = Head(puts[p]) /\ puts[p][1] \in Putt
           /\ puts[p][1].at = place /\ puts[p] \in Seq(Putt) /\ Len(puts[p]) \in {1, 2}
           /\ Len(puts[p]) = 2 => puts[p][2].at = "lock"
           /\ DOMAIN puts = Proc /\ panic = ""
<1>1. /\ puts[p] \in Seq(Putt) /\ Len(puts[p]) <= 2 /\ puts[p] # <<>>
      /\ Len(puts[p]) = 2 => puts[p][2].at = "lock"
      /\ DOMAIN puts = Proc /\ Head(puts[p]).at = place /\ panic = ""
    BY DEF IInv, ProcsOK, OwnOK, Putting
<1>2. Len(puts[p]) \in {1, 2} /\ Head(puts[p]) = puts[p][1] /\ puts[p][1] \in Putt
  <2>1. \A s \in Seq(Putt) : Len(s) \in Nat /\ Head(s) = s[1]
      OBVIOUS
  <2>2. \A s \in Seq(Putt) : s = <<>> <=> Len(s) = 0
      OBVIOUS
  <2>3. Len(puts[p]) \in {1, 2}
    <3>1. Len(puts[p]) # 0 /\ Len(puts[p]) \in Nat /\ Len(puts[p]) <= 2
        BY <1>1, <2>1, <2>2
    <3>2. \A n \in Nat : n # 0 /\ n <= 2 => n \in {1, 2}
        OBVIOUS
    <3> QED BY <3>1, <3>2
  <2>4. \A s \in Seq(Putt) : Len(s) \in {1, 2} => s[1] \in Putt
      OBVIOUS
  <2> QED BY <1>1, <2>1, <2>3, <2>4
<1>3. Put(p, 1) = puts[p][1].i /\ puts[p][1].i \in Inum
    BY <1>2 DEF Put, Putt
<1> QED BY <1>1, <1>2, <1>3

\* The iput() goes on to `place`.
LEMMA PutGoesOn ==
    ASSUME IInv, NEW p \in Proc, NEW old, Putting(p, old), NEW place \in {"free", "drop"},
           PutGoes(p, place)
    PROVE  /\ puts'[p] \in Seq(Putt) /\ Len(puts'[p]) <= 2
           /\ Len(puts'[p]) = 2 => puts'[p][2].at = "lock"
           /\ puts'[p] # <<>> /\ puts'[p][1].at = place /\ puts'[p][1].i = Head(puts[p]).i
           /\ Put(p, 1)' = Put(p, 1) /\ Put(p, 2)' = Put(p, 2)
           /\ DOMAIN puts' = Proc /\ \A q \in Proc \ {p} : puts'[q] = puts[q]
<1> DEFINE s == puts[p]
           t == puts'[p]
<1>1. /\ s \in Seq(Putt) /\ Len(s) \in {1, 2} /\ s[1] \in Putt
      /\ Len(s) = 2 => s[2].at = "lock"
      /\ DOMAIN puts = Proc /\ s[1] = Head(s)
    BY PuttingIs
<1>2. /\ DOMAIN puts' = Proc /\ t = [s EXCEPT ![1].at = place]
      /\ \A q \in Proc \ {p} : puts'[q] = puts[q]
    BY <1>1 DEF PutGoes
<1>3. [s[1] EXCEPT !.at = place] \in Putt
    BY <1>1 DEF Putt
<1>4. t = [s EXCEPT ![1] = [s[1] EXCEPT !.at = place]]
    BY <1>2
<1>5. \A m \in Seq(Putt), e \in Putt : Len(m) \in {1, 2} =>
        LET n == [m EXCEPT ![1] = e] IN
        /\ n \in Seq(Putt) /\ Len(n) = Len(m) /\ n[1] = e
        /\ Len(m) = 2 => n[2] = m[2]
    OBVIOUS
<1>6. /\ t \in Seq(Putt) /\ Len(t) = Len(s) /\ t[1] = [s[1] EXCEPT !.at = place]
      /\ Len(s) = 2 => t[2] = s[2]
    BY <1>1, <1>3, <1>4, <1>5
<1>7. t[1].at = place /\ t[1].i = s[1].i
    BY <1>1, <1>6 DEF Putt
<1>8. Len(t) <= 2
  <2>1. \A n \in {1, 2} : n <= 2
      OBVIOUS
  <2> QED BY <1>1, <1>6, <2>1
<1>9. t # <<>>
    BY <1>1, <1>6
<1>10. Put(p, 1)' = Put(p, 1) /\ Put(p, 2)' = Put(p, 2)
    BY <1>1, <1>6, <1>7 DEF Put
<1> QED BY <1>1, <1>2, <1>6, <1>7, <1>8, <1>9, <1>10

\* p stays where it is, and so is safe what it has.
LEMMA OwnKept ==
    ASSUME IInv, NEW p \in Proc, Alone(p), MemStep(p), FreeStep(p),
           fr'[p] = fr[p], cwd'[p] = cwd[p], puts'[p] \in Seq(Putt), Len(puts'[p]) <= 2,
           Len(puts'[p]) = 2 => puts'[p][2].at = "lock"
    PROVE  OwnOK(p)'
<1>1. OwnOK(p)
    BY DEF IInv, ProcsOK
<1>2. FrameOK(fr[p])'
    BY <1>1 DEF OwnOK
<1>3. ASSUME NEW i \in Inum, i = fr[p].ip, fr[p].ip # None, fr[p].at \notin IpUnsafe
      PROVE  Safe(i)'
    BY <1>1, <1>3, SafeKept DEF OwnOK, Used
<1>4. ASSUME NEW i \in Inum, i = fr[p].dp, fr[p].dp # None, fr[p].at \in DpIsDir
      PROVE  SafeDir(i)'
    BY <1>1, <1>4, SafeKept DEF OwnOK, Used, SafeDir
<1>5. ASSUME NEW i \in Inum, i = cwd[p], fr[p].at # "unused" PROVE SafeDir(i)'
    BY <1>1, <1>5, SafeKept DEF OwnOK, Used, SafeDir
<1>6. fr'[p].ip # None /\ fr'[p].at \notin IpUnsafe => Safe(fr[p].ip)'
    BY <1>1, <1>3 DEF OwnOK, FrameOK, FrameTyped, Safe
<1>7. fr'[p].dp # None /\ fr'[p].at \in DpIsDir => SafeDir(fr[p].dp)'
    BY <1>1, <1>4 DEF OwnOK, SafeDir, Safe
<1>8. fr'[p].at # "unused" => SafeDir(cwd[p])'
    BY <1>1, <1>5 DEF OwnOK, SafeDir, Safe
<1> QED BY <1>1, <1>2, <1>6, <1>7, <1>8 DEF OwnOK

\* A step of an iput(): only its list and memory change.
LEMMA IputStepOK ==
    ASSUME IInv, NEW p \in Proc, UNCHANGED <<files, fr, result, buf, panic>>,
           DOMAIN puts' = Proc, \A q \in Proc \ {p} : puts'[q] = puts[q],
           puts'[p] \in Seq(Putt), Len(puts'[p]) <= 2,
           Len(puts'[p]) = 2 => puts'[p][2].at = "lock",
           MemStep(p), LockStep(p), FreeStep(p), Balanced(p)
    PROVE  Good
<1>1. Alone(p) /\ fr'[p] = fr[p] /\ cwd'[p] = cwd[p]
    BY DEF Alone, IInv, ProcsOK, files
<1>2. OwnOK(p)'
    BY <1>1, OwnKept
<1>3. Covered(p)
    BY BalancedCovers
<1>4. UNCHANGED <<file, ofile>> /\ panic' \in Messages
    BY DEF files, IInv
<1>5. fr'[p].at = "unused" => \A d \in Fd : ofile[p][d] = None
    BY DEF IInv, FdsOK
<1> QED BY <1>1, <1>2, <1>3, <1>4, <1>5, StepOK DEF Good

\* The pointers of p, with the same to iput().
LEMMA SamePointers ==
    ASSUME NEW p, fr'[p] = fr[p], cwd'[p] = cwd[p], NEW i,
           Put(p, 1)' = Put(p, 1), Put(p, 2)' = Put(p, 2)
    PROVE  Own(p, i)' = Own(p, i)
BY DEF Own

\* It is not the last reference: the inode stays.
LEMMA IputKeepOK == ASSUME IInv, NEW p \in Proc, IputKeep(p) PROVE Good
<1>1. /\ Putting(p, "lock") /\ PutGoes(p, "drop")
      /\ UNCHANGED <<dinode, inode, lock, files, fr, result, buf, panic>>
    BY DEF IputKeep
<1>2. /\ puts'[p] \in Seq(Putt) /\ Len(puts'[p]) <= 2
      /\ Len(puts'[p]) = 2 => puts'[p][2].at = "lock"
      /\ puts'[p][1].at = "drop"
      /\ Put(p, 1)' = Put(p, 1) /\ Put(p, 2)' = Put(p, 2)
      /\ DOMAIN puts' = Proc /\ \A q \in Proc \ {p} : puts'[q] = puts[q]
    BY <1>1, PutGoesOn
<1>3. puts[p][1].at = "lock"
    BY <1>1, <1>2, PuttingIs
<1>4. ASSUME NEW j PROVE ~Freeing(p, j) /\ ~Freeing(p, j)'
    BY <1>2, <1>3 DEF Freeing
<1>5. MemStep(p)
    BY <1>1, ReadNothing
<1>6. LockStep(p)
  <2>1. ASSUME NEW j \in Inum PROVE Holds(p, j)' <=> Holds(p, j)
      BY <1>1, <1>4 DEF Holds, DpHeld, IpHeld
  <2>2. ASSUME NEW j \in Inum
        PROVE  (lock[j] = p <=> Holds(p, j)) /\ (Holds(p, j) => Valid(inode, j))
      BY ProcAssumption DEF IInv, LocksOK
  <2>3. UNCHANGED <<lock, inode>>
      BY <1>1
  <2>4. \A j \in Inum : Valid(inode', j) <=> Valid(inode, j)
      BY <2>3
  <2> QED BY <2>1, <2>2, <2>3, <2>4 DEF LockStep, IInv, LocksOK
<1>7. FreeStep(p)
    BY <1>4 DEF FreeStep
<1>8. Balanced(p)
    BY <1>1, <1>2, SamePointers DEF Balanced, files
<1> QED BY <1>1, <1>2, <1>3, <1>5, <1>6, <1>7, <1>8, IputStepOK

\* The last reference to an inode without links: nobody else can reach it.
LEMMA IputLastOK == ASSUME IInv, NEW p \in Proc, IputLast(p) PROVE Good
<1> DEFINE i == Head(puts[p]).i
<1>1. /\ Putting(p, "lock") /\ lock[i] = NoProc /\ LastPut(i) /\ Take(p, i)
      /\ PutGoes(p, "free") /\ UNCHANGED <<dinode, inode, files, fr, result, buf, panic>>
    BY DEF IputLast
<1>2. /\ puts'[p] \in Seq(Putt) /\ Len(puts'[p]) <= 2
      /\ Len(puts'[p]) = 2 => puts'[p][2].at = "lock"
      /\ puts'[p] # <<>> /\ puts'[p][1].at = "free" /\ puts'[p][1].i = i
      /\ Put(p, 1)' = Put(p, 1) /\ Put(p, 2)' = Put(p, 2)
      /\ DOMAIN puts' = Proc /\ \A q \in Proc \ {p} : puts'[q] = puts[q]
    BY <1>1, PutGoesOn
<1>3. puts[p][1].at = "lock" /\ i \in Inum /\ Put(p, 1) = i
    BY <1>1, <1>2, PuttingIs
<1> HIDE DEF i
<1>4. ASSUME NEW j PROVE ~Freeing(p, j) /\ (Freeing(p, j)' <=> j = i)
    BY <1>2, <1>3 DEF Freeing
<1>5. MemStep(p)
    BY <1>1, ReadNothing
<1>6. LockStep(p)
  <2>1. ASSUME NEW j \in Inum PROVE Holds(p, j)' <=> Holds(p, j) \/ j = i
      BY <1>1, <1>4 DEF Holds, DpHeld, IpHeld
  <2>2. ASSUME NEW j \in Inum
        PROVE  (lock[j] = p <=> Holds(p, j)) /\ (Holds(p, j) => Valid(inode, j))
      BY ProcAssumption DEF IInv, LocksOK
  <2>3. DOMAIN lock' = Inum /\ \A j \in Inum : lock'[j] = IF j = i THEN p ELSE lock[j]
      BY <1>1 DEF Take, IInv, LocksOK
  <2>4. \A j \in Inum : Valid(inode', j) <=> Valid(inode, j)
      BY <1>1
  <2>5. Valid(inode, i)
      BY <1>1, <1>3 DEF LastPut, Valid, IInv, CacheOK
  <2> QED BY <1>1, <2>1, <2>2, <2>3, <2>4, <2>5 DEF LockStep
<1>7. FreeStep(p)
  <2>1. ~Used(i)
    <3>1. inode[i].ref = 1
        BY <1>1 DEF LastPut
    <3>2. References(i) <= 1
        BY <1>3, <3>1 DEF IInv, RefsCover
    <3>3. Used(i) => References(i) >= 2 /\ References(i) \in Nat
        BY <1>3, RefsNat DEF IInv, ProcsOK
    <3> QED BY <3>2, <3>3
  <2> QED BY <1>4, <2>1 DEF FreeStep
<1>8. Balanced(p)
    BY <1>1, <1>2, SamePointers DEF Balanced, files
<1> QED BY <1>1, <1>2, <1>3, <1>5, <1>6, <1>7, <1>8, IputStepOK

\* The inode is free now: nobody has held its lock but p, for this iput().
LEMMA IputFreeOK == ASSUME IInv, NEW p \in Proc, IputFree(p) PROVE Good
<1> DEFINE i == Head(puts[p]).i
<1>1. /\ Putting(p, "free") /\ dinode' = [dinode EXCEPT ![i] = FreeDinode]
      /\ inode' = [inode EXCEPT ![i].type = "free", ![i].valid = FALSE]
      /\ Release(i) /\ PutGoes(p, "drop") /\ UNCHANGED <<files, fr, result, buf, panic>>
    BY DEF IputFree
<1>2. /\ puts'[p] \in Seq(Putt) /\ Len(puts'[p]) <= 2
      /\ Len(puts'[p]) = 2 => puts'[p][2].at = "lock"
      /\ puts'[p] # <<>> /\ puts'[p][1].at = "drop"
      /\ Put(p, 1)' = Put(p, 1) /\ Put(p, 2)' = Put(p, 2)
      /\ DOMAIN puts' = Proc /\ \A q \in Proc \ {p} : puts'[q] = puts[q]
    BY <1>1, PutGoesOn
<1>3. puts[p] # <<>> /\ puts[p][1].at = "free" /\ puts[p][1].i = i /\ i \in Inum
    BY <1>1, PuttingIs
<1> HIDE DEF i
<1>4. ASSUME NEW j PROVE ~Freeing(p, j)' /\ (Freeing(p, j) <=> j = i)
    BY <1>2, <1>3 DEF Freeing
<1>5. MemStep(p) /\ RefsSame /\ \A j \in Inum \ {i} : Valid(inode, j) => Valid(inode', j)
  <2>1. /\ DOMAIN dinode' = Inum
        /\ \A j \in Inum : dinode'[j] = IF j = i THEN FreeDinode ELSE dinode[j]
      BY <1>1, <1>3 DEF IInv, DiskOK
  <2>2. DiskOK(dinode')
      BY <2>1 DEF IInv, DiskOK, FreeDinode, Types
  <2>3. ASSUME NEW j \in Inum
        PROVE  /\ DOMAIN inode'[j] = {"ref", "valid", "type", "nlink"}
               /\ inode'[j].ref = inode[j].ref /\ inode'[j].nlink = inode[j].nlink
               /\ j = i => inode'[j].valid = FALSE
               /\ j # i => inode'[j] = inode[j]
      BY <1>1, <1>3 DEF IInv, CacheOK
  <2>4. DOMAIN inode' = Inum
      BY <1>1, <1>3 DEF IInv, CacheOK
  <2>5. CacheOK(inode', dinode')
      BY <2>1, <2>3, <2>4 DEF IInv, CacheOK, Valid
  <2>6. \A j \in Inum : dinode[j].type # "free" => dinode'[j].type = dinode[j].type \/ j = i
      BY <2>1
  <2> QED BY <1>4, <2>2, <2>3, <2>5, <2>6 DEF MemStep, RefsSame, Valid
<1>6. LockStep(p)
  <2>1. ~DpHeld(p, i) /\ ~IpHeld(p, i)
    <3>1. ~Safe(i)
        BY <1>4 DEF Safe
    <3>2. OwnOK(p)
        BY DEF IInv, ProcsOK
    <3>3. ~DpHeld(p, i)
        BY <1>3, <3>1, <3>2 DEF DpHeld, OwnOK, DpIsDir, SafeDir, None, Inum
    <3>4. IpLocked \cap IpUnsafe = {} /\ i # None
        BY <1>3 DEF IpLocked, IpUnsafe, None, Inum
    <3>5. ~IpHeld(p, i)
        BY <3>1, <3>2, <3>4 DEF IpHeld, OwnOK
    <3> QED BY <3>3, <3>5
  <2>2. ASSUME NEW j \in Inum PROVE Holds(p, j)' <=> Holds(p, j) /\ j # i
      BY <1>1, <1>4, <2>1 DEF Holds, DpHeld, IpHeld
  <2>3. ASSUME NEW j \in Inum
        PROVE  (lock[j] = p <=> Holds(p, j)) /\ (Holds(p, j) => Valid(inode, j))
      BY ProcAssumption DEF IInv, LocksOK
  <2>4. DOMAIN lock' = Inum /\ \A j \in Inum : lock'[j] = IF j = i THEN NoProc ELSE lock[j]
      BY <1>1 DEF Release, IInv, LocksOK
  <2>5. lock[i] = p
      BY <1>3, <1>4, <2>3 DEF Holds
  <2>6. ASSUME NEW j \in Inum PROVE /\ \/ lock'[j] = lock[j]
                                       \/ lock[j] = p /\ lock'[j] = NoProc
                                    /\ lock'[j] = p <=> Holds(p, j)'
      BY <2>2, <2>3, <2>4, <2>5, ProcAssumption
  <2>7. ASSUME NEW j \in Inum, Holds(p, j)' PROVE Valid(inode', j)
      BY <1>5, <2>2, <2>3, <2>7
  <2> QED BY <2>4, <2>6, <2>7 DEF LockStep
<1>7. FreeStep(p)
    BY <1>4 DEF FreeStep
<1>8. Balanced(p)
  <2>1. \A j \in Inum : Own(p, j)' = Own(p, j)
      BY <1>1, <1>2, SamePointers DEF files
  <2> QED BY <1>5, <2>1 DEF Balanced, RefsSame
<1> QED BY <1>1, <1>2, <1>5, <1>6, <1>7, <1>8, IputStepOK

\* A reference less, and a pointer less.
LEMMA IputDropOK == ASSUME IInv, NEW p \in Proc, IputDrop(p) PROVE Good
<1> DEFINE i == Head(puts[p]).i
<1>1. /\ Putting(p, "drop") /\ inode' = [inode EXCEPT ![i].ref = @ - 1]
      /\ puts' = [puts EXCEPT ![p] = Tail(@)]
      /\ UNCHANGED <<dinode, lock, files, fr, result, buf, panic>>
    BY DEF IputDrop
<1>2. /\ puts[p] # <<>> /\ puts[p][1].at = "drop" /\ i \in Inum /\ Put(p, 1) = i
      /\ puts[p] \in Seq(Putt) /\ Len(puts[p]) \in {1, 2}
      /\ Len(puts[p]) = 2 => puts[p][2].at = "lock"
      /\ DOMAIN puts = Proc
    BY <1>1, PuttingIs
<1>3. /\ DOMAIN puts' = Proc /\ puts'[p] = Tail(puts[p])
      /\ \A q \in Proc \ {p} : puts'[q] = puts[q]
    BY <1>1, <1>2
<1> HIDE DEF i
<1>4. /\ puts'[p] \in Seq(Putt) /\ Len(puts'[p]) = Len(puts[p]) - 1
      /\ Len(puts[p]) = 2 => puts'[p][1] = puts[p][2]
  <2>1. \A s \in Seq(Putt) : s # <<>> => Tail(s) \in Seq(Putt) /\ Len(Tail(s)) = Len(s) - 1
      OBVIOUS
  <2>2. ASSUME NEW s \in Seq(Putt), Len(s) = 2 PROVE Tail(s)[1] = s[2]
    <3>1. s # <<>> /\ 1 \in 1..(Len(s) - 1)
        BY <2>2
    <3>2. Len(Tail(s)) = Len(s) - 1 /\ \A k \in 1..Len(Tail(s)) : Tail(s)[k] = s[k + 1]
        BY <3>1, HeadTailProperties
    <3> QED BY <3>1, <3>2
  <2> QED BY <1>2, <1>3, <2>1, <2>2
<1>5. /\ Len(puts'[p]) <= 2 /\ Len(puts'[p]) # 2
      /\ Put(p, 1)' = Put(p, 2) /\ Put(p, 2)' = None
      /\ puts'[p] # <<>> => puts'[p][1].at = "lock"
  <2>1. CASE Len(puts[p]) = 1
    <3>1. Len(puts'[p]) = 0
        BY <1>4, <2>1
    <3>2. puts'[p] = <<>>
        BY <1>4, <3>1
    <3> QED BY <2>1, <3>1, <3>2 DEF Put
  <2>2. CASE Len(puts[p]) = 2
    <3>1. Len(puts'[p]) = 1
        BY <1>4, <2>2
    <3> QED BY <1>2, <1>4, <2>2, <3>1 DEF Put
  <2> QED BY <1>2, <2>1, <2>2
<1>6. ASSUME NEW j PROVE ~Freeing(p, j)' /\ ~Freeing(p, j)
    BY <1>2, <1>5 DEF Freeing
<1>7. inode[i].ref >= 1
  <2>1. References(i) >= 1 /\ References(i) \in Nat
      BY <1>2, RefsNat DEF IInv, ProcsOK
  <2> QED BY <1>2, <2>1 DEF IInv, RefsCover, CacheOK
<1>8. /\ DOMAIN inode' = Inum
      /\ \A j \in Inum : /\ DOMAIN inode'[j] = {"ref", "valid", "type", "nlink"}
                         /\ inode'[j].ref = inode[j].ref - Hit(i, j)
                         /\ inode'[j].valid = inode[j].valid
                         /\ inode'[j].type = inode[j].type
                         /\ inode'[j].nlink = inode[j].nlink
  <2>1. ASSUME NEW j \in Inum
        PROVE  /\ DOMAIN inode'[j] = {"ref", "valid", "type", "nlink"}
               /\ inode'[j].ref = inode[j].ref - Hit(i, j)
               /\ inode'[j].valid = inode[j].valid
               /\ inode'[j].type = inode[j].type
               /\ inode'[j].nlink = inode[j].nlink
      BY <1>1, <1>2 DEF IInv, CacheOK, Hit
  <2>2. DOMAIN inode' = Inum
      BY <1>1 DEF IInv, CacheOK
  <2> QED BY <2>1, <2>2
<1>9. MemStep(p)
  <2>1. \A j \in Inum : inode'[j].ref \in Nat
      BY <1>2, <1>7, <1>8 DEF Hit, IInv, CacheOK
  <2>2. CacheOK(inode', dinode')
      BY <1>1, <1>8, <2>1 DEF IInv, CacheOK, Valid
  <2> QED BY <1>1, <1>8, <2>2 DEF MemStep, IInv, Valid
<1>10. LockStep(p)
  <2>1. ASSUME NEW j \in Inum PROVE Holds(p, j)' <=> Holds(p, j)
      BY <1>1, <1>6 DEF Holds, DpHeld, IpHeld
  <2>2. ASSUME NEW j \in Inum
        PROVE  (lock[j] = p <=> Holds(p, j)) /\ (Holds(p, j) => Valid(inode, j))
      BY ProcAssumption DEF IInv, LocksOK
  <2>3. \A j \in Inum : Valid(inode', j) <=> Valid(inode, j)
      BY <1>8 DEF Valid
  <2> QED BY <1>1, <2>1, <2>2, <2>3 DEF LockStep, IInv, LocksOK
<1>11. FreeStep(p)
    BY <1>6 DEF FreeStep
<1>12. Balanced(p)
  <2>1. ASSUME NEW j \in Inum
        PROVE  inode[j].ref + Own(p, j)' = inode'[j].ref + Own(p, j)
    <3>1. /\ fr'[p] = fr[p] /\ cwd'[p] = cwd[p] /\ Hit(None, j) = 0
          /\ inode[j].ref \in Nat /\ \A x : Hit(x, j) \in Nat
        BY <1>1 DEF files, Hit, None, Inum, IInv, CacheOK
    <3>2. Own(p, j) = Hit(fr[p].ip, j) + Hit(fr[p].dp, j) + Hit(i, j) + Hit(Put(p, 2), j)
                        + Hit(cwd[p], j)
        BY <1>2 DEF Own
    <3>3. Own(p, j)' = Hit(fr[p].ip, j) + Hit(fr[p].dp, j) + Hit(Put(p, 2), j)
                         + Hit(None, j) + Hit(cwd[p], j)
        BY <1>5, <3>1 DEF Own
    <3> QED BY <1>8, <3>1, <3>2, <3>3
  <2> QED BY <2>1 DEF Balanced
<1> QED BY <1>1, <1>3, <1>4, <1>5, <1>9, <1>10, <1>11, <1>12, IputStepOK

-----------------------------------------------------------------------------
(* Current directories *)

\* chdir() keeps the new directory, and puts the old one.
LEMMA ChdirDirOK == ASSUME IInv, NEW p \in Proc, ChdirDir(p) PROVE Good
<1> DEFINE f == fr[p]
<1>1. /\ f.at = "chdir_dir" /\ At(p, f.at) /\ f.dp # None /\ Type(f.dp) = "dir"
      /\ inode' = Ilock(f.dp) /\ cwd' = [cwd EXCEPT ![p] = f.dp] /\ Return(p, 0, <<cwd[p]>>)
      /\ UNCHANGED <<dinode, lock, file, ofile, buf, panic>>
    BY DEF ChdirDir, At
<1>2. /\ puts[p] = <<>> /\ FrameOK(f) /\ panic' \in Messages
      /\ DOMAIN puts = Proc /\ DOMAIN buf' = Proc
    BY <1>1, AtOK
<1>3. f.dp \in Inum /\ Safe(f.dp) /\ dinode[f.dp].type = "dir"
    BY <1>1, DpIs DEF Searches
<1>4. cwd[p] \in Inum /\ DOMAIN cwd = Proc
    BY <1>1 DEF IInv, ProcsOK, OwnOK, SafeDir, Safe
<1>5. f.ip = None
    BY <1>1, <1>2 DEF FrameOK, FrameHolds, Goal, WithIp, IpLocked
<1>6. fr'[p] = Idle /\ DOMAIN result' = Proc
    BY <1>1, ReturnIs
<1>7. Alone(p) /\ cwd'[p] = f.dp
    BY <1>1, <1>2, <1>4, <1>6 DEF Return, Go, Alone, IInv, ProcsOK
<1>8. PutsAre(p, cwd[p], None)
    BY <1>1, <1>2, <1>4, PutsOne DEF Return
<1>9. MemStep(p) /\ RefsSame
    BY <1>1, <1>3, ReadIn
<1>10. LockStep(p)
  <2>1. f.at \in Unlocked /\ fr'[p].at \in Unlocked
      BY <1>1, <1>6, IdleIs DEF Unlocked, Places, Searches, DpLocked, IpLocked
  <2> QED BY <1>1, <1>2, <1>8, <1>9, <2>1, LockSame
<1>11. FreeStep(p)
    BY <1>8 DEF FreeStep, PutsAre
<1>12. ASSUME NEW i \in Inum, i = f.dp PROVE SafeDir(i)'
    BY <1>3, <1>7, <1>9, <1>11, <1>12, SafeKept DEF SafeDir, Used
<1>13. OwnOK(p)'
  <2>1. SafeDir(cwd[p])'
      BY <1>3, <1>7, <1>12 DEF SafeDir, Safe
  <2> QED BY <1>6, <1>8, <2>1, IdleIs DEF OwnOK, PutsAre
<1>14. Balanced(p)
  <2>1. ASSUME NEW j \in Inum
        PROVE  inode[j].ref + Own(p, j)' = inode'[j].ref + Own(p, j)
    <3>1. /\ Hit(None, j) = 0 /\ inode[j].ref \in Nat /\ \A x : Hit(x, j) \in Nat
          /\ inode'[j].ref = inode[j].ref
        BY <1>9 DEF Hit, None, Inum, IInv, CacheOK, RefsSame
    <3>2. Own(p, j) = Hit(None, j) + Hit(f.dp, j) + Hit(None, j) + Hit(None, j) + Hit(cwd[p], j)
        BY <1>2, <1>5, NoPuts DEF Own
    <3>3. Own(p, j)' = Hit(None, j) + Hit(None, j) + Hit(cwd[p], j) + Hit(None, j) + Hit(f.dp, j)
        BY <1>6, <1>7, <1>8, IdleIs DEF Own, PutsAre
    <3> QED BY <3>1, <3>2, <3>3
  <2> QED BY <2>1 DEF Balanced
<1>15. Covered(p)
    BY <1>9, <1>14, BalancedCovers
<1>16. UNCHANGED <<file, ofile>> /\ fr'[p].at # "unused"
    BY <1>1, <1>6, IdleIs
<1> QED BY <1>2, <1>7, <1>9, <1>10, <1>11, <1>13, <1>14, <1>15, <1>16, StepOK DEF Good

\* What is left of a process after exit().
LEMMA UnusedIs ==
    /\ FrameOK(Unused) /\ Unused.at = "unused" /\ Unused.ip = None /\ Unused.dp = None
    /\ DOMAIN Unused = FrameFields
<1>1. /\ DOMAIN Unused = FrameFields
      /\ Unused.at = "unused" /\ Unused.want = None /\ Unused.ip = None /\ Unused.dp = None
      /\ Unused.path = <<>> /\ Unused.parent \in BOOLEAN
  <2>1. /\ DOMAIN Idle = FrameFields
        /\ Idle.want = None /\ Idle.ip = None /\ Idle.dp = None
        /\ Idle.path = <<>> /\ Idle.parent \in BOOLEAN
      BY DEF Idle, FrameFields
  <2>2. Unused = Updated(Idle, [at |-> "unused"])
      BY DEF Unused
  <2> HIDE DEF Idle
  <2> QED BY <2>1, <2>2 DEF Updated, FrameFields
<1>2. Goal(Unused) = "unused"
    BY <1>1 DEF Goal
<1>3. FrameTyped(Unused)
    BY <1>1 DEF FrameTyped, Places, None
<1>4. FrameHolds(Unused)
    BY <1>1, <1>2 DEF FrameHolds, WithIp, IpLocked, Searches, DpLocked, None
<1>5. FrameWants(Unused)
    BY <1>1 DEF FrameWants, Searches, WantsIp, None
<1>6. FrameCall(Unused)
    BY <1>2 DEF FrameCall
<1> QED BY <1>1, <1>3, <1>4, <1>5, <1>6 DEF FrameOK

\* exit() puts the current directory, when all files are closed.
LEMMA ExitCwdOK == ASSUME IInv, NEW p \in Proc, ExitCwd(p) PROVE Good
<1> DEFINE f == fr[p]
<1>1. /\ f.at = "exit" /\ At(p, f.at) /\ FreeFds(p) = Fd /\ Go(p, Unused, <<cwd[p]>>)
      /\ cwd' = [cwd EXCEPT ![p] = None]
      /\ UNCHANGED <<dinode, inode, lock, file, ofile, result, buf, panic>>
    BY DEF ExitCwd, At
<1>2. /\ puts[p] = <<>> /\ FrameOK(f) /\ panic' \in Messages
      /\ DOMAIN puts = Proc /\ DOMAIN buf' = Proc /\ DOMAIN result' = Proc
    BY <1>1, AtOK
<1>3. cwd[p] \in Inum /\ DOMAIN cwd = Proc
    BY <1>1 DEF IInv, ProcsOK, OwnOK, SafeDir, Safe
<1>4. f.ip = None /\ f.dp = None
    BY <1>1, <1>2 DEF FrameOK, FrameHolds, Goal, WithIp, IpLocked, Searches, DpLocked
<1>5. fr'[p] = Unused
  <2>1. fr'[p] = Updated(f, Unused)
      BY <1>1 DEF Go, IInv, ProcsOK
  <2>2. DOMAIN f = DOMAIN Unused /\ Unused = [k \in DOMAIN Unused |-> Unused[k]]
    <3>1. DOMAIN f = DOMAIN Unused
        BY <1>2, UnusedIs DEF FrameOK, FrameTyped
    <3> QED BY <3>1 DEF Unused, Updated
  <2> QED BY <2>1, <2>2 DEF Updated
<1>6. Alone(p) /\ cwd'[p] = None
    BY <1>1, <1>2, <1>3 DEF Go, Alone, IInv, ProcsOK
<1>7. PutsAre(p, cwd[p], None)
    BY <1>1, <1>2, <1>3, PutsOne
<1>8. MemStep(p) /\ RefsSame
    BY <1>1, ReadNothing
<1>9. LockStep(p)
  <2>1. f.at \in Unlocked /\ fr'[p].at \in Unlocked
      BY <1>1, <1>5, UnusedIs DEF Unlocked, Places, DpLocked, IpLocked
  <2> QED BY <1>1, <1>2, <1>7, <1>8, <2>1, LockSame
<1>10. FreeStep(p)
    BY <1>7 DEF FreeStep, PutsAre
<1>11. OwnOK(p)'
    BY <1>5, <1>6, <1>7, UnusedIs DEF OwnOK, PutsAre
<1>12. Balanced(p)
  <2>1. ASSUME NEW j \in Inum
        PROVE  inode[j].ref + Own(p, j)' = inode'[j].ref + Own(p, j)
    <3>1. /\ Hit(None, j) = 0 /\ inode[j].ref \in Nat /\ \A x : Hit(x, j) \in Nat
          /\ inode'[j].ref = inode[j].ref
        BY <1>8 DEF Hit, None, Inum, IInv, CacheOK, RefsSame
    <3>2. Own(p, j) = Hit(None, j) + Hit(None, j) + Hit(None, j) + Hit(None, j) + Hit(cwd[p], j)
        BY <1>2, <1>4, NoPuts DEF Own
    <3>3. Own(p, j)' = Hit(None, j) + Hit(None, j) + Hit(cwd[p], j) + Hit(None, j) + Hit(None, j)
        BY <1>5, <1>6, <1>7, UnusedIs DEF Own, PutsAre
    <3> QED BY <3>1, <3>2, <3>3
  <2> QED BY <2>1 DEF Balanced
<1>13. Covered(p)
    BY <1>8, <1>12, BalancedCovers
<1>14. UNCHANGED <<file, ofile>> /\ \A d \in Fd : ofile[p][d] = None
    BY <1>1 DEF FreeFds
<1> QED BY <1>2, <1>6, <1>8, <1>9, <1>10, <1>11, <1>12, <1>13, <1>14, StepOK DEF Good

-----------------------------------------------------------------------------
(* Steps that change files *)

FileFields == {"ref", "ip", "off", "readable", "writable"}

\* The files after the step: what is new to them is safe.
FilesStep ==
    /\ DOMAIN file' = File
    /\ \A f \in File :
         /\ DOMAIN file'[f] = FileFields /\ file'[f].ref \in Nat
         /\ file'[f].ref = 0 => file'[f].ip = None
         /\ file'[f].ref > 0 =>
              \/ file[f].ref > 0 /\ file'[f].ip = file[f].ip
              \/ Used(file'[f].ip) /\ Safe(file'[f].ip)

\* Only g gets another inode, and p and g pay for what they gain.
Settled(p, g) ==
    /\ \A f \in File \ {g} : file'[f].ip = file[f].ip
    /\ \A i \in Inum : inode[i].ref + Own(p, i)' + Hit(file'[g].ip, i)
                         = inode'[i].ref + Own(p, i) + Hit(file[g].ip, i)

\* A step that changes files, descriptors, or the inode of file g.
LEMMA FileStepOK ==
    ASSUME IInv, NEW p \in Proc, NEW g \in File, Alone(p), MemStep(p), LockStep(p), FreeStep(p),
           OwnOK(p)', panic' \in Messages, FilesStep, FdsOK', FileRefs', Settled(p, g)
    PROVE  Good
<1>1. /\ ProcsOK' /\ LocksOK'
      /\ \A f \in File, i \in Inum : file[f].ref > 0 /\ file[f].ip = i => Safe(i)'
    BY OthersKept
<1>2. FilesOK'
  <2>1. ASSUME NEW f \in File, NEW i \in Inum, file'[f].ref > 0, file'[f].ip = i
        PROVE  Safe(i)'
    <3>1. CASE file[f].ref > 0 /\ file'[f].ip = file[f].ip
        BY <1>1, <2>1, <3>1
    <3>2. CASE Used(file'[f].ip) /\ Safe(file'[f].ip)
        BY <2>1, <3>2, SafeKept
    <3> QED BY <2>1, <3>1, <3>2 DEF FilesStep
  <2>2. ASSUME NEW f \in File, file'[f].ref > 0 PROVE file'[f].ip \in Inum
      BY <2>2 DEF FilesStep, IInv, FilesOK, Safe
  <2>3. \A f \in File : file'[f].ref > 0 => Safe(file[f].ip)'
    <3>1. ASSUME NEW f \in File, file'[f].ref > 0 PROVE Safe(file[f].ip)'
      <4>1. PICK i \in Inum : file'[f].ip = i
          BY <2>2, <3>1
      <4>2. Safe(i)'
          BY <2>1, <3>1, <4>1
      <4> QED BY <4>1, <4>2 DEF Safe
    <3> QED BY <3>1
  <2> QED BY <2>3 DEF FilesStep, FilesOK, FileFields
<1>3. ASSUME NEW i \in Inum
      PROVE  /\ References(i)' + Own(p, i) + Hit(file[g].ip, i)
                  = References(i) + Own(p, i)' + Hit(file'[g].ip, i)
             /\ References(i) \in Nat /\ References(i)' \in Nat
             /\ Own(p, i) \in Nat /\ Own(p, i)' \in Nat
             /\ Hit(file[g].ip, i) \in Nat /\ Hit(file'[g].ip, i) \in Nat
             /\ inode[i].ref \in Nat /\ inode'[i].ref \in Nat
             /\ inode[i].ref + Own(p, i)' + Hit(file'[g].ip, i)
                  = inode'[i].ref + Own(p, i) + Hit(file[g].ip, i)
  <2>1. DOMAIN cwd = Proc
      BY DEF IInv, ProcsOK
  <2>2. Own(p, i) \in Nat /\ Own(p, i)' \in Nat
      BY DEF Own, Hit
  <2>3. inode[i].ref \in Nat /\ inode'[i].ref \in Nat
      BY DEF IInv, CacheOK, MemStep
  <2>4. /\ References(i)' + Own(p, i) + Hit(file[g].ip, i)
             = References(i) + Own(p, i)' + Hit(file'[g].ip, i)
        /\ References(i) \in Nat /\ References(i)' \in Nat
      BY <2>1, RefsChange DEF Settled
  <2>5. Hit(file[g].ip, i) \in Nat /\ Hit(file'[g].ip, i) \in Nat
      BY DEF Hit
  <2>6. inode[i].ref + Own(p, i)' + Hit(file'[g].ip, i)
          = inode'[i].ref + Own(p, i) + Hit(file[g].ip, i)
      BY DEF Settled
  <2> QED BY <2>2, <2>3, <2>4, <2>5, <2>6
<1>4. ASSUME NEW i \in Inum
      PROVE  /\ References(i) <= inode[i].ref => References(i)' <= inode'[i].ref
             /\ inode[i].ref = References(i) => inode'[i].ref = References(i)'
  <2> DEFINE r == References(i)
             q == References(i)'
             o == Own(p, i)
             m == Own(p, i)'
             h == Hit(file[g].ip, i)
             k == Hit(file'[g].ip, i)
             s == inode[i].ref
             t == inode'[i].ref
  <2>1. /\ r \in Nat /\ q \in Nat /\ o \in Nat /\ m \in Nat /\ h \in Nat /\ k \in Nat
        /\ s \in Nat /\ t \in Nat
        /\ q + o + h = r + m + k /\ s + m + k = t + o + h
      BY <1>3
  <2> HIDE DEF r, q, o, m, h, k, s, t
  <2>2. (r <= s => q <= t) /\ (s = r => t = q)
      BY <2>1
  <2> QED BY <2>2 DEF r, q, s, t
<1>5. RefsCover'
    BY <1>4 DEF IInv, RefsCover
<1>6. InodeRefs => InodeRefs'
    BY <1>4 DEF InodeRefs
<1>7. IInv'
    BY <1>1, <1>2, <1>5 DEF IInv, MemStep
<1> QED BY <1>6, <1>7 DEF Good

\* One descriptor changes from file x to y: so does the number of theirs.
LEMMA DescriptorChange ==
    ASSUME NEW p \in Proc, NEW d \in Fd, ofile \in [Proc -> [Fd -> File \cup {None}]],
           NEW y, ofile' = [ofile EXCEPT ![p][d] = y], NEW f
    PROVE  /\ Cardinality(Descriptors(f)') + Hit(ofile[p][d], f)
                = Cardinality(Descriptors(f)) + Hit(y, f)
           /\ Cardinality(Descriptors(f)') \in Nat
<1> DEFINE S == Proc \X Fd
           old == [x \in Proc \X Fd |-> ofile[x[1]][x[2]]]
           new == [x \in Proc \X Fd |-> ofile'[x[1]][x[2]]]
           k == <<p, d>>
<1>1. Cardinality(Descriptors(f)) = Uses(old, f) /\ Cardinality(Descriptors(f)') = Uses(new, f)
  <2>1. Descriptors(f) = {x \in DOMAIN old : old[x] = f}
      BY DEF Descriptors
  <2>2. Descriptors(f)' = {x \in DOMAIN new : new[x] = f}
      BY DEF Descriptors
  <2> QED BY <2>1, <2>2 DEF Uses
<1>2. /\ k \in S /\ old[k] = ofile[p][d] /\ new[k] = y
      /\ \A x \in S \ {k} : new[x] = old[x]
  <2>1. old[k] = ofile[p][d] /\ new[k] = y
      OBVIOUS
  <2>2. ASSUME NEW q \in Proc, NEW e \in Fd, <<q, e>> # k PROVE ofile'[q][e] = ofile[q][e]
      BY <2>2
  <2>3. \A x \in (Proc \X Fd) \ {k} : new[x] = old[x]
    <3>1. ASSUME NEW x \in (Proc \X Fd) \ {k} PROVE new[x] = old[x]
      <4>1. x = <<x[1], x[2]>> /\ x[1] \in Proc /\ x[2] \in Fd
          OBVIOUS
      <4>2. ofile'[x[1]][x[2]] = ofile[x[1]][x[2]]
          BY <2>2, <3>1, <4>1
      <4> QED BY <4>1, <4>2
    <3> QED BY <3>1
  <2> QED BY <2>1, <2>3
<1>3. DOMAIN old = S /\ DOMAIN new = S /\ IsFiniteSet(S)
    BY DescriptorsCount
<1> HIDE DEF S, old, new, k
<1>4. Uses(new, f) + Hit(old[k], f) = Uses(old, f) + Hit(new[k], f)
    BY <1>2, <1>3, UsesChange
<1>5. Uses(new, f) \in Nat
    BY <1>3, UsesCount
<1> QED BY <1>1, <1>2, <1>4, <1>5

\* A step of p in the same place, without locks or iput()s.
LEMMA StaysOK ==
    ASSUME IInv, NEW p \in Proc, puts[p] = <<>>, puts'[p] = <<>>, Alone(p), OwnOK(p)',
           MemStep(p), RefsSame, UNCHANGED <<lock, cwd, panic>>, fr[p].at \in Unlocked,
           fr'[p].at = fr[p].at, fr'[p].ip = fr[p].ip, fr'[p].dp = fr[p].dp,
           FilesStep, \A f \in File : file'[f].ip = file[f].ip, FdsOK', FileRefs'
    PROVE  Good
<1>1. 1 \in File
    BY SizeAssumption DEF File
<1>2. PutsAre(p, None, None)
    BY DEF PutsAre, Put, Freeing
<1>3. LockStep(p)
    BY <1>2, LockSame
<1>4. FreeStep(p)
    BY <1>2 DEF FreeStep, PutsAre
<1>5. panic' \in Messages
    BY DEF IInv
<1>6. Settled(p, 1)
  <2>1. ASSUME NEW i \in Inum
        PROVE  inode[i].ref + Own(p, i)' + Hit(file'[1].ip, i)
                 = inode'[i].ref + Own(p, i) + Hit(file[1].ip, i)
    <3>1. Own(p, i)' = Own(p, i)
        BY DEF Own, Put
    <3>2. inode'[i].ref = inode[i].ref
        BY DEF RefsSame
    <3> QED BY <1>1, <3>1, <3>2
  <2> QED BY <1>1, <2>1 DEF Settled
<1> QED BY <1>1, <1>3, <1>4, <1>5, <1>6, FileStepOK

\* What the descriptors of p are.
LEMMA FreeFdIs ==
    ASSUME NEW p \in Proc, FreeFds(p) # {}
    PROVE  Min(FreeFds(p)) \in Fd /\ ofile[p][Min(FreeFds(p))] = None
<1>1. FreeFds(p) \subseteq Nat
    BY DEF FreeFds, Fd
<1>2. Min(FreeFds(p)) \in FreeFds(p)
    BY <1>1, MinIsIn
<1> QED BY <1>2 DEF FreeFds

\* One descriptor changes, of a process that is there.
LEMMA FdChangeOK ==
    ASSUME IInv, NEW p \in Proc, NEW d \in Fd, NEW y \in File \cup {None},
           ofile' = [ofile EXCEPT ![p][d] = y], Alone(p), fr'[p].at # "unused"
    PROVE  FdsOK'
<1>1. ofile' \in [Proc -> [Fd -> File \cup {None}]]
    BY DEF IInv, FdsOK
<1>2. ASSUME NEW q \in Proc, fr'[q].at = "unused", NEW e \in Fd PROVE ofile'[q][e] = None
    BY <1>2 DEF IInv, FdsOK, Alone
<1> QED BY <1>1, <1>2 DEF FdsOK

\* dup(): one more descriptor on the file.
LEMMA DupOK == ASSUME IInv, NEW p \in Proc, NEW d \in Fd, Dup(p, d) PROVE Good
<1> DEFINE f == ofile[p][d]
           e == Min(FreeFds(p))
           bad == f = None \/ FreeFds(p) = {}
<1>1. /\ At(p, "user") /\ UNCHANGED <<dinode, inode, lock, cwd, fr, puts, buf, panic>>
    BY DEF Dup, User
<1>2. /\ puts[p] = <<>> /\ fr[p].at = "user" /\ DOMAIN result = Proc /\ DOMAIN buf' = Proc
    BY <1>1, AtOK
<1>3. CASE bad
  <2>1. UNCHANGED files /\ DOMAIN result' = Proc
      BY <1>1, <1>2, <1>3 DEF Dup, Answer, files
  <2> QED BY <1>1, <1>2, <2>1, AnswerOK
<1>4. CASE ~bad
  <2>1. /\ ofile' = [ofile EXCEPT ![p][e] = f] /\ file' = [file EXCEPT ![f].ref = @ + 1]
        /\ DOMAIN result' = Proc
      BY <1>2, <1>4 DEF Dup, Answer
  <2>2. f \in File /\ file[f].ref > 0
      BY <1>4, FileInUse
  <2>3. e \in Fd /\ ofile[p][e] = None
      BY <1>4, FreeFdIs
  <2> HIDE DEF f, e, bad
  <2>4. Alone(p) /\ fr'[p] = fr[p] /\ puts'[p] = <<>>
      BY <1>1, <1>2, <2>1 DEF Alone, IInv, ProcsOK
  <2>5. MemStep(p) /\ RefsSame
      BY <1>1, ReadNothing
  <2>6. FreeStep(p) /\ puts'[p] \in Seq(Putt) /\ Len(puts'[p]) = 0
      BY <2>4 DEF FreeStep, Freeing
  <2>7. OwnOK(p)'
    <3>1. Len(puts'[p]) <= 2 /\ Len(puts'[p]) # 2
        BY <2>6
    <3> QED BY <1>1, <2>4, <2>5, <2>6, <3>1, OwnKept
  <2>8. /\ DOMAIN file' = File
        /\ \A j \in File : /\ DOMAIN file'[j] = FileFields
                           /\ file'[j].ref = file[j].ref + Hit(f, j)
                           /\ file'[j].ip = file[j].ip
      BY <2>1, <2>2 DEF IInv, FilesOK, FileFields, Hit
  <2>9. FilesStep
      BY <2>2, <2>8 DEF FilesStep, IInv, FilesOK, Hit
  <2>10. FdsOK'
      BY <1>2, <2>1, <2>2, <2>3, <2>4, FdChangeOK
  <2>11. FileRefs'
    <3>1. ASSUME NEW j \in File PROVE file'[j].ref = Cardinality(Descriptors(j)')
      <4>1. /\ Cardinality(Descriptors(j)') + Hit(ofile[p][e], j)
                 = Cardinality(Descriptors(j)) + Hit(f, j)
            /\ Cardinality(Descriptors(j)') \in Nat
          BY <2>1, <2>3, DescriptorChange DEF IInv, FdsOK
      <4>2. Hit(ofile[p][e], j) = 0 /\ file[j].ref = Cardinality(Descriptors(j))
          BY <2>3 DEF Hit, None, File, IInv, FileRefs
      <4> QED BY <2>8, <4>1, <4>2
    <3> QED BY <3>1 DEF FileRefs
  <2>12. fr[p].at \in Unlocked
      BY <1>2 DEF Unlocked, Places, DpLocked, IpLocked
  <2> QED BY <1>1, <1>2, <2>4, <2>5, <2>7, <2>8, <2>9, <2>10, <2>11, <2>12, StaysOK
<1> QED BY <1>3, <1>4

\* Only offsets change.
FilesSame ==
    /\ DOMAIN file' = File
    /\ \A f \in File : /\ DOMAIN file'[f] = FileFields
                       /\ file'[f].ref = file[f].ref /\ file'[f].ip = file[f].ip

\* A step that reads or writes the file of an inode, and moves the offset.
LEMMA OffsetOK ==
    ASSUME IInv, NEW p \in Proc, puts[p] = <<>>, puts'[p] = <<>>, Alone(p), OwnOK(p)',
           MemStep(p), RefsSame, UNCHANGED <<lock, ofile, cwd, panic>>, fr[p].at \in Unlocked,
           fr'[p].at = fr[p].at, fr'[p].ip = fr[p].ip, fr'[p].dp = fr[p].dp, FilesSame
    PROVE  Good
<1>1. FilesStep
    BY DEF FilesStep, FilesSame, IInv, FilesOK
<1>2. FdsOK'
    BY DEF IInv, FdsOK, Alone
<1>3. FileRefs'
  <2>1. \A f \in File : file'[f].ref = file[f].ref /\ Descriptors(f)' = Descriptors(f)
      BY DEF FilesSame, Descriptors
  <2> QED BY <2>1 DEF IInv, FileRefs
<1> QED BY <1>1, <1>2, <1>3, StaysOK DEF FilesSame

\* fileread() or filestat(): the inode is read in, the process stays.
LEMMA LookOK ==
    ASSUME IInv, NEW p \in Proc, NEW d \in Fd, User(p), ofile[p][d] # None,
           Locking(p, d), UNCHANGED dinode, FilesSame,
           DOMAIN result' = Proc, DOMAIN buf' = Proc
    PROVE  Good
<1> DEFINE i == file[ofile[p][d]].ip
<1>1. /\ At(p, "user") /\ inode' = Ilock(i) /\ UNCHANGED <<lock, ofile, cwd, fr, puts, panic>>
    BY DEF User, Locking
<1>2. puts[p] = <<>> /\ fr[p].at = "user"
    BY <1>1, AtOK
<1>3. i \in Inum /\ dinode[i].type # "free"
    BY FileInUse DEF Safe
<1> HIDE DEF i
<1>4. MemStep(p) /\ RefsSame
    BY <1>1, <1>3, ReadIn
<1>5. Alone(p) /\ fr'[p] = fr[p] /\ puts'[p] = <<>>
    BY <1>1, <1>2 DEF Alone, IInv, ProcsOK
<1>6. FreeStep(p) /\ puts'[p] \in Seq(Putt) /\ Len(puts'[p]) = 0
    BY <1>5 DEF FreeStep, Freeing
<1>7. OwnOK(p)'
  <2>1. Len(puts'[p]) <= 2 /\ Len(puts'[p]) # 2
      BY <1>6
  <2> QED BY <1>1, <1>4, <1>5, <1>6, <2>1, OwnKept
<1>8. fr[p].at \in Unlocked
    BY <1>2 DEF Unlocked, Places, DpLocked, IpLocked
<1> QED BY <1>1, <1>2, <1>4, <1>5, <1>7, <1>8, OffsetOK

\* read(): the offset moves past what was read.
LEMMA ReadOK == ASSUME IInv, NEW p \in Proc, NEW d \in Fd, NEW n \in Nat, Read(p, d, n) PROVE Good
<1>1. User(p) /\ DOMAIN result = Proc /\ DOMAIN buf = Proc
    BY DEF Read, IInv, ProcsOK
<1>2. CASE CanRead(p, d)
  <2> DEFINE f == ofile[p][d]
  <2>1. /\ Locking(p, d) /\ file' = [file EXCEPT ![f].off = @ + Len(ReadAt(p, d, n))]
        /\ DOMAIN result' = Proc /\ DOMAIN buf' = Proc /\ UNCHANGED dinode
      BY <1>1, <1>2 DEF Read, Copyout, Answer
  <2>2. f # None /\ f \in File
      BY <1>2, FileInUse DEF CanRead
  <2>3. FilesSame
      BY <2>1, <2>2 DEF FilesSame, IInv, FilesOK, FileFields
  <2> QED BY <1>1, <2>1, <2>2, <2>3, LookOK
<1>3. CASE ~CanRead(p, d)
  <2>1. /\ UNCHANGED <<dinode, inode, lock, files, fr, puts, panic>>
        /\ DOMAIN result' = Proc /\ DOMAIN buf' = Proc
      BY <1>1, <1>3 DEF Read, Answer
  <2> QED BY <2>1, AnswerOK
<1> QED BY <1>2, <1>3

\* fstat(): nothing but the cache changes.
LEMMA FstatOK == ASSUME IInv, NEW p \in Proc, NEW d \in Fd, Fstat(p, d) PROVE Good
<1>1. User(p) /\ DOMAIN result = Proc /\ DOMAIN buf = Proc
    BY DEF Fstat, IInv, ProcsOK
<1>2. CASE ofile[p][d] # None
  <2>1. /\ Locking(p, d) /\ DOMAIN result' = Proc /\ DOMAIN buf' = Proc
        /\ UNCHANGED <<dinode, file>>
      BY <1>1, <1>2 DEF Fstat, Copyout, Answer
  <2>2. FilesSame
      BY <2>1 DEF FilesSame, IInv, FilesOK, FileFields
  <2> QED BY <1>1, <1>2, <2>1, <2>2, LookOK
<1>3. CASE ofile[p][d] = None
  <2>1. /\ UNCHANGED <<dinode, inode, lock, files, fr, puts, panic>>
        /\ DOMAIN result' = Proc /\ DOMAIN buf' = Proc
      BY <1>1, <1>3 DEF Fstat, Answer
  <2> QED BY <2>1, AnswerOK
<1> QED BY <1>2, <1>3

\* filewrite() writes a chunk: what it writes to is a file, and no directory.
LEMMA WriteChunkOK == ASSUME IInv, NEW p \in Proc, WriteChunk(p) PROVE Good
<1> DEFINE f == fr[p]
           i == f.want
           g == ofile[p][f.call.d]
           body == Overwrite(dinode[i].body, file[g].off, <<Head(f.call.left)>>)
           c == Updated(f.call, [left |-> Tail(f.call.left)])
<1>1. /\ f.at = "write" /\ At(p, f.at) /\ Type(i) = "file" /\ inode' = Ilock(i)
      /\ dinode' = WithBody(dinode, i, body)
      /\ file' = [file EXCEPT ![g].off = @ + 1] /\ Go(p, [call |-> c], <<>>)
      /\ UNCHANGED <<lock, ofile, cwd, result, buf, panic>>
    BY DEF WriteChunk, At, WithBody
<1> HIDE DEF body, c, g
<1>2. /\ puts[p] = <<>> /\ FrameOK(f)
      /\ DOMAIN puts = Proc /\ DOMAIN result' = Proc /\ DOMAIN buf' = Proc
    BY <1>1, AtOK
<1>3. f.ip = None /\ f.dp = None /\ i # None
    BY <1>1, <1>2 DEF FrameOK, FrameHolds, FrameWants, Goal, WithIp, IpLocked, Searches, DpLocked
<1>4. i \in Inum /\ dinode[i].type = "file"
    BY <1>1, <1>2, <1>3, TypeIs DEF FrameOK, FrameTyped, IInv
<1>5. MemStep(p) /\ RefsSame
  <2>1. /\ CacheOK(inode', dinode)
        /\ \A j \in Inum : /\ inode'[j].ref = inode[j].ref
                           /\ Valid(inode, j) => Valid(inode', j)
      BY <1>1, <1>4, IlockOK DEF IInv
  <2>2. DiskOK(dinode') /\ SameTypes(dinode, dinode')
      BY <1>1, <1>4, WithBodyOK DEF IInv
  <2> QED BY <2>1, <2>2, MemOK DEF RefsSame
<1>6. Alone(p) /\ fr'[p] = Updated(f, [call |-> c])
    BY <1>1, <1>2, GoOK
<1>7. /\ DOMAIN fr'[p] = FrameFields
      /\ fr'[p].at = "write" /\ fr'[p].want = i /\ fr'[p].ip = None
      /\ fr'[p].dp = None /\ fr'[p].path = f.path /\ fr'[p].parent = f.parent
    BY <1>1, <1>2, <1>3, <1>6 DEF Updated, FrameOK, FrameTyped, FrameFields
<1>8. Goal(fr'[p]) = "write"
    BY <1>7 DEF Goal
<1>9. FrameOK(fr'[p])
  <2>1. FrameTyped(fr'[p])
      BY <1>2, <1>4, <1>7 DEF FrameOK, FrameTyped, Places
  <2>2. FrameHolds(fr'[p])
      BY <1>7, <1>8 DEF FrameHolds, WithIp, IpLocked, DpLocked
  <2>3. FrameWants(fr'[p])
      BY <1>3, <1>7 DEF FrameWants, Searches, WantsIp
  <2>4. FrameCall(fr'[p])
      BY <1>8 DEF FrameCall
  <2> QED BY <2>1, <2>2, <2>3, <2>4 DEF FrameOK
<1>10. PutsAre(p, None, None) /\ puts'[p] = <<>>
    BY <1>1, <1>2, PutsNone
<1>11. OwnOK(p)'
  <2>1. FreeStep(p)
      BY <1>10 DEF FreeStep, PutsAre
  <2>2. SafeDir(cwd[p])
      BY <1>1 DEF IInv, ProcsOK, OwnOK
  <2>3. ASSUME NEW j \in Inum, j = cwd[p] PROVE SafeDir(j)'
      BY <1>5, <1>6, <2>1, <2>2, <2>3, SafeKept DEF SafeDir, Used
  <2>4. SafeDir(cwd[p])'
      BY <1>1, <2>2, <2>3 DEF SafeDir, Safe
  <2> QED BY <1>7, <1>9, <1>10, <2>4 DEF OwnOK, PutsAre
<1>12. FilesSame
  <2>1. DOMAIN file' = File
      BY <1>1 DEF IInv, FilesOK
  <2>2. ASSUME NEW j \in File
        PROVE  /\ DOMAIN file'[j] = FileFields
               /\ file'[j].ref = file[j].ref /\ file'[j].ip = file[j].ip
      BY <1>1 DEF IInv, FilesOK, FileFields
  <2> QED BY <2>1, <2>2 DEF FilesSame
<1>13. f.at \in Unlocked
    BY <1>1 DEF Unlocked, Places, DpLocked, IpLocked
<1> QED BY <1>1, <1>2, <1>3, <1>5, <1>6, <1>7, <1>10, <1>11, <1>12, <1>13, OffsetOK

\* fileclose() of descriptor d, where p goes on in a place without locals.
LEMMA FileCloseOK ==
    ASSUME IInv, NEW p \in Proc, NEW d \in Fd, ofile[p][d] # None,
           fr[p].at \in {"user", "exit"}, At(p, fr[p].at), NEW fields, FileClose(p, d, fields),
           FrameOK(fr'[p]), fr'[p].at \in {"user", "exit"},
           UNCHANGED <<dinode, inode, lock, cwd, buf, panic>>, DOMAIN result' = Proc
    PROVE  Good
<1> DEFINE g == ofile[p][d]
           i == file[g].ip
           closes == file[g].ref = 1
<1>1. /\ ofile' = [ofile EXCEPT ![p][d] = None]
      /\ file' = [file EXCEPT ![g] = IF closes THEN FreeFile
                                     ELSE Updated(file[g], [ref |-> file[g].ref - 1])]
      /\ Go(p, fields, IF closes THEN <<i>> ELSE <<>>)
    BY DEF FileClose, Closes
<1>2. /\ puts[p] = <<>> /\ FrameOK(fr[p]) /\ panic' \in Messages
      /\ DOMAIN puts = Proc /\ DOMAIN buf' = Proc
    BY AtOK
<1>3. g \in File /\ file[g].ref > 0 /\ file[g].ref \in Nat /\ Safe(i) /\ i \in Inum
    BY FileInUse DEF IInv, FilesOK
<1>4. /\ fr[p].ip = None /\ fr[p].dp = None /\ fr'[p].ip = None /\ fr'[p].dp = None
      /\ fr[p].at \in Unlocked /\ fr'[p].at \in Unlocked
    BY <1>2 DEF FrameOK, FrameHolds, Goal, WithIp, IpLocked, Searches, DpLocked, Unlocked, Places
<1>5. DOMAIN file' = File
    BY <1>1 DEF IInv, FilesOK
<1>6. ASSUME NEW j \in File
      PROVE  /\ DOMAIN file'[j] = FileFields
             /\ file'[j].ref = file[j].ref - Hit(g, j)
             /\ file'[j].ip = IF j = g /\ closes THEN None ELSE file[j].ip
  <2>1. DOMAIN file[j] = FileFields /\ file[j].ref \in Nat
      BY DEF IInv, FilesOK, FileFields
  <2>2. CASE j # g
      BY <1>1, <1>3, <2>1, <2>2 DEF IInv, FilesOK, Hit
  <2>3. CASE j = g /\ closes
    <3>1. file'[j] = FreeFile
        BY <1>1, <2>3 DEF IInv, FilesOK
    <3>2. DOMAIN FreeFile = FileFields /\ FreeFile.ref = 0 /\ FreeFile.ip = None
        BY DEF FreeFile, FileFields
    <3> QED BY <2>3, <3>1, <3>2 DEF Hit
  <2>4. CASE j = g /\ ~closes
    <3>1. file'[j] = Updated(file[g], [ref |-> file[g].ref - 1])
        BY <1>1, <2>4 DEF IInv, FilesOK
    <3> QED BY <2>1, <2>4, <3>1 DEF Updated, FileFields, Hit
  <2> QED BY <2>2, <2>3, <2>4
<1>7. PutsAre(p, IF closes THEN i ELSE None, None)
  <2>1. CASE closes
    <3>1. Go(p, fields, <<i>>)
        BY <1>1, <2>1
    <3> QED BY <1>2, <1>3, <2>1, <3>1, PutsOne
  <2>2. CASE ~closes
    <3>1. Go(p, fields, <<>>)
        BY <1>1, <2>2
    <3> QED BY <1>2, <2>2, <3>1, PutsNone
  <2> QED BY <2>1, <2>2
<1>8. Alone(p)
    BY <1>1, <1>2, GoOK
<1> HIDE DEF g, i, closes
<1>9. MemStep(p) /\ RefsSame
    BY ReadNothing
<1>10. LockStep(p)
    BY <1>2, <1>4, <1>7, <1>9, LockSame
<1>11. FreeStep(p)
    BY <1>7 DEF FreeStep, PutsAre
<1>12. OwnOK(p)'
  <2>1. SafeDir(cwd[p]) /\ cwd'[p] = cwd[p]
      BY DEF IInv, ProcsOK, OwnOK
  <2>2. ASSUME NEW j \in Inum, j = cwd[p] PROVE SafeDir(j)'
      BY <1>8, <1>9, <1>11, <2>1, <2>2, SafeKept DEF SafeDir, Used
  <2>3. SafeDir(cwd[p])'
      BY <2>1, <2>2 DEF SafeDir, Safe
  <2> QED BY <1>4, <1>7, <2>3 DEF OwnOK, PutsAre
<1>13. FilesStep
  <2>1. ASSUME NEW j \in File
        PROVE  /\ DOMAIN file'[j] = FileFields /\ file'[j].ref \in Nat
               /\ file'[j].ref = 0 => file'[j].ip = None
               /\ file'[j].ref > 0 => file[j].ref > 0 /\ file'[j].ip = file[j].ip
    <3>1. /\ file[j].ref \in Nat /\ (file[j].ref = 0 => file[j].ip = None)
          /\ j = g => file[j].ref > 0
        BY <1>3 DEF IInv, FilesOK
    <3> QED BY <1>6, <3>1 DEF Hit, closes
  <2> QED BY <1>5, <2>1 DEF FilesStep
<1>14. FdsOK'
    BY <1>1, <1>8, FdChangeOK
<1>15. FileRefs'
  <2>1. ASSUME NEW j \in File PROVE file'[j].ref = Cardinality(Descriptors(j)')
    <3>1. /\ Cardinality(Descriptors(j)') + Hit(g, j) = Cardinality(Descriptors(j)) + Hit(None, j)
          /\ Cardinality(Descriptors(j)') \in Nat
        BY <1>1, DescriptorChange DEF IInv, FdsOK, g
    <3>2. Hit(None, j) = 0 /\ file[j].ref = Cardinality(Descriptors(j)) /\ Hit(g, j) \in Nat
          /\ file[j].ref \in Nat
        BY DEF Hit, None, File, IInv, FileRefs, FilesOK
    <3> QED BY <1>6, <3>1, <3>2
  <2> QED BY <2>1 DEF FileRefs
<1>16. Settled(p, g)
  <2>1. ASSUME NEW j \in Inum
        PROVE  inode[j].ref + Own(p, j)' + Hit(file'[g].ip, j)
                 = inode'[j].ref + Own(p, j) + Hit(file[g].ip, j)
    <3>1. /\ inode'[j].ref = inode[j].ref /\ inode[j].ref \in Nat /\ cwd'[p] = cwd[p]
          /\ Hit(None, j) = 0 /\ \A x : Hit(x, j) \in Nat
        BY DEF Hit, None, Inum, IInv, CacheOK
    <3>2. Own(p, j) = Hit(cwd[p], j)
        BY <1>2, <1>4, <3>1, NoPuts DEF Own
    <3>3. Own(p, j)' = Hit(IF closes THEN i ELSE None, j) + Hit(cwd[p], j)
        BY <1>4, <1>7, <3>1 DEF Own, PutsAre
    <3>4. file'[g].ip = (IF closes THEN None ELSE i) /\ file[g].ip = i
        BY <1>3, <1>6 DEF i
    <3> QED BY <3>1, <3>2, <3>3, <3>4
  <2> QED BY <1>6, <2>1 DEF Settled
<1> QED BY <1>2, <1>3, <1>8, <1>9, <1>10, <1>11, <1>12, <1>13, <1>14, <1>15, <1>16, FileStepOK

\* close(): the call is over.
LEMMA CloseOK == ASSUME IInv, NEW p \in Proc, NEW d \in Fd, Close(p, d) PROVE Good
<1>1. /\ fr[p].at = "user" /\ At(p, fr[p].at)
      /\ UNCHANGED <<dinode, inode, lock, cwd, buf, panic>>
    BY DEF Close, User, At
<1>2. DOMAIN result = Proc /\ DOMAIN buf' = Proc /\ FrameOK(fr[p])
    BY <1>1, AtOK
<1>3. CASE ofile[p][d] = None
  <2>1. UNCHANGED <<files, fr, puts>> /\ DOMAIN result' = Proc
      BY <1>1, <1>2, <1>3 DEF Close, Answer, files
  <2> QED BY <1>1, <1>2, <2>1, AnswerOK
<1>4. CASE ofile[p][d] # None
  <2>1. FileClose(p, d, Idle) /\ DOMAIN result' = Proc
      BY <1>2, <1>4 DEF Close, Answer
  <2>2. fr'[p] = Idle
    <3>1. fr'[p] = Updated(fr[p], Idle)
        BY <2>1 DEF FileClose, Go, IInv, ProcsOK
    <3>2. DOMAIN fr[p] = DOMAIN Idle
        BY <1>2 DEF FrameOK, FrameTyped, FrameFields, Idle
    <3>3. Updated(fr[p], Idle) = [k \in DOMAIN Idle |-> Idle[k]]
        BY <3>2 DEF Updated
    <3> QED BY <3>1, <3>3 DEF Idle
  <2> QED BY <1>1, <1>4, <2>1, <2>2, IdleIs, FileCloseOK
<1> QED BY <1>3, <1>4

\* exit() closes its files one after the other.
LEMMA ExitCloseOK == ASSUME IInv, NEW p \in Proc, ExitClose(p) PROVE Good
<1> DEFINE f == fr[p]
           d == Min(Fd \ FreeFds(p))
<1>1. /\ f.at = "exit" /\ At(p, f.at) /\ FreeFds(p) # Fd
      /\ FileClose(p, d, [at |-> "exit"])
      /\ UNCHANGED <<dinode, inode, lock, cwd, result, buf, panic>>
    BY DEF ExitClose, At
<1>2. FrameOK(f) /\ DOMAIN result' = Proc
    BY <1>1, AtOK
<1>3. d \in Fd /\ ofile[p][d] # None
  <2>1. Fd \ FreeFds(p) \subseteq Nat /\ Fd \ FreeFds(p) # {}
      BY <1>1 DEF FreeFds, Fd
  <2>2. d \in Fd \ FreeFds(p)
      BY <2>1, MinIsIn
  <2> QED BY <2>2 DEF FreeFds
<1> HIDE DEF d
<1>4. /\ DOMAIN fr'[p] = FrameFields /\ fr'[p].at = "exit"
      /\ fr'[p].want = f.want /\ fr'[p].ip = f.ip /\ fr'[p].dp = f.dp
      /\ fr'[p].path = f.path /\ fr'[p].parent = f.parent
  <2>1. fr'[p] = Updated(f, [at |-> "exit"])
      BY <1>1 DEF FileClose, Go, IInv, ProcsOK
  <2> QED BY <1>2, <2>1 DEF Updated, FrameOK, FrameTyped, FrameFields
<1>5. Goal(fr'[p]) = "exit" /\ Goal(f) = "exit"
    BY <1>1, <1>4 DEF Goal
<1>6. FrameOK(fr'[p])
  <2>1. FrameTyped(fr'[p])
      BY <1>2, <1>4 DEF FrameOK, FrameTyped, Places
  <2>2. FrameHolds(fr'[p])
      BY <1>1, <1>2, <1>4, <1>5 DEF FrameOK, FrameHolds
  <2>3. FrameWants(fr'[p])
      BY <1>1, <1>2, <1>4 DEF FrameOK, FrameWants
  <2>4. FrameCall(fr'[p])
      BY <1>5 DEF FrameCall
  <2> QED BY <2>1, <2>2, <2>3, <2>4 DEF FrameOK
<1> QED BY <1>1, <1>2, <1>3, <1>4, <1>6, FileCloseOK

\* fork(): the child shares the files and the current directory.
LEMMA ForkOK == ASSUME IInv, NEW p \in Proc, NEW q \in Proc, Fork(p, q) PROVE Good
<1> DEFINE On(j) == {d \in Fd : ofile[p][d] = j}
<1>1. /\ At(p, "user") /\ fr[q].at = "unused" /\ puts[q] = <<>>
      /\ ofile' = [ofile EXCEPT ![q] = ofile[p]]
      /\ file' = [j \in File |-> Updated(file[j], [ref |-> file[j].ref + Cardinality(On(j))])]
      /\ cwd' = [cwd EXCEPT ![q] = cwd[p]] /\ inode' = [inode EXCEPT ![cwd[p]].ref = @ + 1]
      /\ fr' = [fr EXCEPT ![q] = Idle]
      /\ UNCHANGED <<dinode, lock, puts, result, buf, panic>>
    BY DEF Fork, User
<1>2. /\ fr[p].at = "user" /\ panic' \in Messages
      /\ DOMAIN puts = Proc /\ DOMAIN buf' = Proc /\ DOMAIN result' = Proc
    BY <1>1, AtOK
<1>3. OwnOK(q) /\ SafeDir(cwd[p]) /\ cwd[p] \in Inum /\ DOMAIN cwd = Proc /\ DOMAIN fr = Proc
    BY <1>2 DEF IInv, ProcsOK, OwnOK, SafeDir, Safe
<1>4. /\ fr[q].ip = None /\ fr[q].dp = None /\ cwd[q] = None
      /\ \A d \in Fd : ofile[q][d] = None
  <2>1. FrameOK(fr[q]) /\ cwd[q] = None
      BY <1>1, <1>3 DEF OwnOK
  <2>2. \A d \in Fd : ofile[q][d] = None
      BY <1>1 DEF IInv, FdsOK
  <2> QED BY <1>1, <2>1, <2>2 DEF FrameOK, FrameHolds, Goal, WithIp, IpLocked, Searches, DpLocked
<1>5. q # p
    BY <1>1, <1>2
<1>6. ASSUME NEW j
      PROVE  IsFiniteSet(On(j)) /\ Cardinality(On(j)) \in Nat
  <2>1. IsFiniteSet(Fd)
    <3>1. NOFILE - 1 \in Int /\ 0 \in Int
        BY SizeAssumption
    <3> QED BY <3>1, FS_Interval DEF Fd
  <2> QED BY <2>1, FS_Subset, FS_CardinalityType
<1>7. ASSUME NEW j \in File
      PROVE  Cardinality(Descriptors(j)') = Cardinality(Descriptors(j)) + Cardinality(On(j))
  <2>1. Descriptors(j)' = Descriptors(j) \cup ({q} \X On(j))
    <3>1. j # None
        BY DEF File, None
    <3>2. ASSUME NEW r \in Proc
          PROVE  ofile'[r] = IF r = q THEN ofile[p] ELSE ofile[r]
        BY <1>1 DEF IInv, FdsOK
    <3>3. \A x : x \in Descriptors(j)' => x \in Descriptors(j) \cup ({q} \X On(j))
        BY <3>2 DEF Descriptors
    <3>4. \A x : x \in Descriptors(j) => x \in Descriptors(j)'
        BY <1>4, <3>1, <3>2 DEF Descriptors
    <3>5. \A x : x \in {q} \X On(j) => x \in Descriptors(j)'
        BY <3>2 DEF Descriptors
    <3> QED BY <3>3, <3>4, <3>5
  <2>2. Descriptors(j) \cap ({q} \X On(j)) = {}
    <3>1. j # None
        BY DEF File, None
    <3> QED BY <1>4, <3>1 DEF Descriptors
  <2>3. IsFiniteSet({q}) /\ Cardinality({q}) = 1
      BY FS_Singleton
  <2>4. IsFiniteSet(On(j)) /\ Cardinality(On(j)) \in Nat
      BY <1>6
  <2> HIDE DEF On
  <2>5. IsFiniteSet({q} \X On(j)) /\ Cardinality({q} \X On(j)) = 1 * Cardinality(On(j))
      BY <2>3, <2>4, FS_Product
  <2>6. IsFiniteSet(Descriptors(j)) /\ Cardinality(Descriptors(j)) \in Nat
      BY DescriptorsCount
  <2>7. Cardinality(Descriptors(j) \cup ({q} \X On(j)))
          = Cardinality(Descriptors(j)) + Cardinality({q} \X On(j)) - Cardinality({})
      BY <2>2, <2>5, <2>6, FS_Union
  <2>8. Cardinality({}) = 0
      BY FS_EmptySet
  <2> QED BY <2>1, <2>4, <2>5, <2>6, <2>7, <2>8
<1>8. /\ DOMAIN file' = File
      /\ \A j \in File : /\ DOMAIN file'[j] = FileFields
                         /\ file'[j].ref = file[j].ref + Cardinality(On(j))
                         /\ file'[j].ip = file[j].ip
    BY <1>1 DEF IInv, FilesOK, FileFields, Updated
<1>9. FileRefs'
    BY <1>7, <1>8 DEF IInv, FileRefs
<1>10. FilesStep
  <2>1. ASSUME NEW j \in File
        PROVE  /\ DOMAIN file'[j] = FileFields /\ file'[j].ref \in Nat
               /\ file'[j].ref = 0 => file'[j].ip = None
               /\ file'[j].ref > 0 => file[j].ref > 0 /\ file'[j].ip = file[j].ip
    <3>1. Cardinality(On(j)) \in Nat /\ file[j].ref \in Nat
          /\ (file[j].ref = 0 => file[j].ip = None)
        BY <1>6 DEF IInv, FilesOK
    <3>2. Cardinality(On(j)) > 0 => file[j].ref > 0
      <4>1. CASE On(j) = {}
          BY <4>1, FS_EmptySet
      <4>2. CASE On(j) # {}
        <5>1. PICK d \in Fd : ofile[p][d] = j
            BY <4>2
        <5>2. ofile[p][d] # None
            BY <5>1 DEF File, None
        <5> QED BY <5>1, <5>2, FileInUse
      <4> QED BY <4>1, <4>2
    <3> HIDE DEF On
    <3> QED BY <1>8, <3>1, <3>2
  <2> QED BY <1>8, <2>1 DEF FilesStep
<1> HIDE DEF On
<1>11. Alone(q) /\ fr'[q] = Idle /\ cwd'[q] = cwd[p]
    BY <1>1, <1>2, <1>3 DEF Alone
<1>12. FdsOK'
  <2>1. ofile' \in [Proc -> [Fd -> File \cup {None}]]
      BY <1>1 DEF IInv, FdsOK
  <2>2. ASSUME NEW r \in Proc, fr'[r].at = "unused", NEW d \in Fd PROVE ofile'[r][d] = None
    <3>1. r # q
        BY <1>11, <2>2, IdleIs
    <3> QED BY <1>1, <1>11, <2>2, <3>1 DEF IInv, FdsOK, Alone
  <2> QED BY <2>1, <2>2 DEF FdsOK
<1>13. MemStep(q) /\ \A j \in Inum : inode'[j].ref = inode[j].ref + Hit(cwd[p], j)
  <2>1. DOMAIN inode' = Inum
      BY <1>1 DEF IInv, CacheOK
  <2>2. ASSUME NEW j \in Inum
        PROVE  /\ DOMAIN inode'[j] = {"ref", "valid", "type", "nlink"}
               /\ inode'[j].ref = inode[j].ref + Hit(cwd[p], j)
               /\ inode'[j].valid = inode[j].valid /\ inode'[j].type = inode[j].type
               /\ inode'[j].nlink = inode[j].nlink
      BY <1>1, <1>3 DEF IInv, CacheOK, Hit
  <2>3. CacheOK(inode', dinode)
      BY <2>1, <2>2 DEF IInv, CacheOK, Valid, Hit
  <2>4. DiskOK(dinode') /\ SameTypes(dinode, dinode')
      BY <1>1 DEF IInv, SameTypes
  <2> QED BY <2>2, <2>3, <2>4, MemOK DEF Valid
<1>14. PutsAre(q, None, None)
  <2>1. puts'[q] = <<>>
      BY <1>1
  <2> QED BY <2>1 DEF PutsAre, Put, Freeing
<1>15. LockStep(q)
  <2>1. fr[q].at \in Unlocked /\ fr'[q].at \in Unlocked
      BY <1>1, <1>11, IdleIs DEF Unlocked, Places, DpLocked, IpLocked
  <2> QED BY <1>1, <1>13, <1>14, <2>1, LockSame
<1>16. FreeStep(q)
    BY <1>14 DEF FreeStep, PutsAre
<1>17. OwnOK(q)'
  <2>1. ASSUME NEW j \in Inum, j = cwd[p] PROVE SafeDir(j)'
      BY <1>3, <1>11, <1>13, <1>16, <2>1, SafeKept DEF SafeDir, Used
  <2>2. SafeDir(cwd[q])'
      BY <1>3, <1>11, <2>1 DEF SafeDir, Safe
  <2> QED BY <1>11, <1>14, <2>2, IdleIs DEF OwnOK, PutsAre
<1>18. 1 \in File
    BY SizeAssumption DEF File
<1>19. Settled(q, 1)
  <2>1. ASSUME NEW j \in Inum
        PROVE  inode[j].ref + Own(q, j)' + Hit(file'[1].ip, j)
                 = inode'[j].ref + Own(q, j) + Hit(file[1].ip, j)
    <3>1. /\ inode[j].ref \in Nat /\ Hit(None, j) = 0 /\ \A x : Hit(x, j) \in Nat
          /\ file'[1].ip = file[1].ip /\ inode'[j].ref = inode[j].ref + Hit(cwd[p], j)
        BY <1>8, <1>13, <1>18 DEF Hit, None, Inum, IInv, CacheOK
    <3>2. Own(q, j) = 0
        BY <1>1, <1>4, <3>1, NoPuts DEF Own
    <3>3. Own(q, j)' = Hit(cwd[p], j)
        BY <1>11, <1>14, <3>1, IdleIs DEF Own, PutsAre
    <3> QED BY <3>1, <3>2, <3>3
  <2> QED BY <1>8, <2>1 DEF Settled
<1> QED BY <1>2, <1>9, <1>10, <1>11, <1>12, <1>13, <1>15, <1>16, <1>17, <1>18, <1>19, FileStepOK

\* filealloc() and fdalloc(): the new file takes over the inode of the call.
LEMMA OpenFileOK == ASSUME IInv, NEW p \in Proc, OpenFile(p) PROVE Good
<1> DEFINE i == fr[p].ip
           g == Min(FreeFiles)
           d == Min(FreeFds(p))
           bad == FreeFiles = {} \/ FreeFds(p) = {}
           new == [ref |-> 1, ip |-> i, off |-> 0, readable |-> fr[p].call.mode # "WRONLY",
                   writable |-> fr[p].call.mode # "RDONLY"]
<1>1. /\ fr[p].at = "open_file" /\ At(p, fr[p].at) /\ Release(i)
      /\ UNCHANGED <<dinode, inode, cwd, buf, panic>>
    BY DEF OpenFile, At
<1>2. /\ puts[p] = <<>> /\ panic' \in Messages /\ fr[p].at \in IpLocked
      /\ DOMAIN puts = Proc /\ DOMAIN buf' = Proc
    BY <1>1, AtOK DEF IpLocked
<1>3. /\ i \in Inum /\ Safe(i) /\ fr[p].dp = None
      /\ \A j \in Inum : Holds(p, j) <=> j = i
    BY <1>1, <1>2, IpLockedIs
<1>4. MemStep(p) /\ RefsSame
    BY <1>1, ReadNothing
<1>5. CASE bad
  <2>1. Return(p, -1, <<i>>) /\ UNCHANGED files
      BY <1>1, <1>5 DEF OpenFile, files
  <2> QED BY <1>1, <1>2, <1>4, <2>1, IpReturnsOK
<1>6. CASE ~bad
  <2>1. /\ file' = [file EXCEPT ![g] = new] /\ ofile' = [ofile EXCEPT ![p][d] = g]
        /\ Return(p, d, <<>>)
      BY <1>6 DEF OpenFile
  <2>2. g \in File /\ file[g].ref = 0 /\ file[g].ip = None
    <3>1. FreeFiles \subseteq Nat /\ FreeFiles # {}
        BY <1>6 DEF FreeFiles, File
    <3>2. g \in FreeFiles
        BY <3>1, MinIsIn
    <3> QED BY <3>2 DEF FreeFiles, IInv, FilesOK
  <2>3. d \in Fd /\ ofile[p][d] = None
      BY <1>6, FreeFdIs
  <2>4. DOMAIN new = FileFields /\ new.ref = 1 /\ new.ip = i
      BY DEF FileFields
  <2> HIDE DEF g, d, new, bad
  <2>5. fr'[p] = Idle /\ Go(p, Idle, <<>>) /\ DOMAIN result' = Proc
      BY <2>1, ReturnIs
  <2>6. Alone(p)
      BY <1>1, <1>2, <2>5, GoOK
  <2>7. PutsAre(p, None, None)
      BY <1>2, <2>5, PutsNone
  <2>8. LockStep(p)
    <3>1. ASSUME NEW j \in Inum PROVE ~Holds(p, j)'
        BY <2>5, <2>7, IdleIs, HoldsAt DEF DpLocked, IpLocked
    <3> QED BY <1>1, <1>3, <3>1, LockReleased
  <2>9. FreeStep(p)
      BY <2>7 DEF FreeStep, PutsAre
  <2>10. OwnOK(p)'
    <3>1. SafeDir(cwd[p]) /\ cwd'[p] = cwd[p]
        BY <1>1 DEF IInv, ProcsOK, OwnOK
    <3>2. ASSUME NEW j \in Inum, j = cwd[p] PROVE SafeDir(j)'
        BY <1>4, <2>6, <2>9, <3>1, <3>2, SafeKept DEF SafeDir, Used
    <3>3. SafeDir(cwd[p])'
        BY <3>1, <3>2 DEF SafeDir, Safe
    <3> QED BY <2>5, <2>7, <3>3, IdleIs DEF OwnOK, PutsAre
  <2>11. DOMAIN file' = File /\ \A j \in File : file'[j] = IF j = g THEN new ELSE file[j]
      BY <2>1 DEF IInv, FilesOK
  <2>12. FilesStep
    <3>1. Used(i)
        BY DEF Used
    <3>2. ASSUME NEW j \in File
          PROVE  /\ DOMAIN file'[j] = FileFields /\ file'[j].ref \in Nat
                 /\ file'[j].ref = 0 => file'[j].ip = None
                 /\ file'[j].ref > 0 => \/ file[j].ref > 0 /\ file'[j].ip = file[j].ip
                                        \/ Used(file'[j].ip) /\ Safe(file'[j].ip)
      <4>1. CASE j = g
          BY <1>3, <2>4, <2>11, <3>1, <4>1
      <4>2. CASE j # g
          BY <2>11, <4>2 DEF IInv, FilesOK, FileFields
      <4> QED BY <4>1, <4>2
    <3> QED BY <2>11, <3>2 DEF FilesStep
  <2>13. FdsOK'
      BY <2>1, <2>2, <2>3, <2>5, <2>6, IdleIs, FdChangeOK
  <2>14. FileRefs'
    <3>1. ASSUME NEW j \in File PROVE file'[j].ref = Cardinality(Descriptors(j)')
      <4>1. /\ Cardinality(Descriptors(j)') + Hit(None, j) = Cardinality(Descriptors(j)) + Hit(g, j)
            /\ Cardinality(Descriptors(j)') \in Nat
        <5>1. ofile \in [Proc -> [Fd -> File \cup {None}]]
            BY DEF IInv, FdsOK
        <5>2. /\ Cardinality(Descriptors(j)') + Hit(ofile[p][d], j)
                   = Cardinality(Descriptors(j)) + Hit(g, j)
              /\ Cardinality(Descriptors(j)') \in Nat
            BY <2>1, <2>3, <5>1, DescriptorChange
        <5> QED BY <2>3, <5>2
      <4>2. Hit(None, j) = 0 /\ file[j].ref = Cardinality(Descriptors(j))
          BY DEF Hit, None, File, IInv, FileRefs
      <4>3. file'[j].ref = file[j].ref + Hit(g, j) /\ file[j].ref \in Nat
          BY <2>2, <2>4, <2>11 DEF Hit, IInv, FilesOK
      <4> QED BY <4>1, <4>2, <4>3
    <3> QED BY <3>1 DEF FileRefs
  <2>15. Settled(p, g)
    <3>1. ASSUME NEW j \in Inum
          PROVE  inode[j].ref + Own(p, j)' + Hit(file'[g].ip, j)
                   = inode'[j].ref + Own(p, j) + Hit(file[g].ip, j)
      <4>1. /\ inode'[j].ref = inode[j].ref /\ inode[j].ref \in Nat
            /\ Hit(None, j) = 0 /\ \A x : Hit(x, j) \in Nat
          BY <1>4 DEF Hit, None, Inum, IInv, CacheOK, RefsSame
      <4>2. Own(p, j) = Hit(i, j) + Hit(cwd[p], j)
          BY <1>2, <1>3, <4>1, NoPuts DEF Own
      <4>3. Own(p, j)' = Hit(cwd[p], j)
          BY <1>1, <2>5, <2>7, <4>1, IdleIs DEF Own, PutsAre
      <4>4. file'[g].ip = i /\ file[g].ip = None
          BY <2>2, <2>4, <2>11
      <4> HIDE DEF i
      <4> QED BY <4>1, <4>2, <4>3, <4>4
    <3> QED BY <2>11, <3>1 DEF Settled
  <2> QED BY <1>2, <1>4, <2>2, <2>6, <2>8, <2>9, <2>10, <2>12, <2>13, <2>14, <2>15, FileStepOK
<1> QED BY <1>5, <1>6

-----------------------------------------------------------------------------
(* Every step *)

\* An iput() keeps the invariant.
LEMMA IputOK == ASSUME IInv, NEW p \in Proc, Iput(p) PROVE Good
BY IputKeepOK, IputLastOK, IputFreeOK, IputDropOK DEF Iput

\* So does a step of namex().
LEMMA NamexStepOK == ASSUME IInv, NEW p \in Proc, NamexStep(p) PROVE Good
BY NamexEndOK, NamexStopOK, NamexFailOK, NamexDownOK DEF NamexStep

\* And every step inside a system call.
LEMMA KernelStepOK == ASSUME IInv, NEW p \in Proc, KernelStep(p) PROVE Good
<1>1. CASE Iput(p) \/ NamexStep(p) \/ NoType(p) \/ NotFound(p) \/ WrongType(p) \/ NoDir(p)
    BY <1>1, IputOK, NamexStepOK, NoTypeOK, NotFoundOK, WrongTypeOK, NoDirOK
<1>2. CASE LinkOld(p) \/ LinkDir(p) \/ LinkExists(p) \/ LinkExistsUnlock(p) \/ DropLink(p)
    BY <1>2, LinkOldOK, LinkDirOK, LinkExistsOK, LinkExistsUnlockOK, DropLinkOK
<1>3. CASE UnlinkBad(p) \/ UnlinkFound(p) \/ UnlinkPanic(p) \/ UnlinkNotEmpty(p)
             \/ UnlinkBadUnlock(p) \/ UnlinkErase(p) \/ UnlinkInode(p)
    BY <1>3, UnlinkBadOK, UnlinkFoundOK, NoTypeOK, UnlinkNotEmptyOK, UnlinkBadUnlockOK,
       UnlinkEraseOK, UnlinkInodeOK
<1>4. CASE CreateExists(p) \/ CreateOld(p) \/ CreateAlloc(p) \/ CreateNew(p) \/ Made(p)
    BY <1>4, CreateExistsOK, CreateOldOK, CreateAllocOK, CreateNewOK, MadeOK
<1>5. CASE OpenOld(p) \/ OpenFile(p) \/ ChdirDir(p) \/ ExitClose(p) \/ ExitCwd(p)
    BY <1>5, OpenOldOK, OpenFileOK, ChdirDirOK, ExitCloseOK, ExitCwdOK
<1>6. CASE MoveOld(p) \/ MoveNoEntry(p) \/ MoveErase(p) \/ MoveBadDest(p) \/ MoveDest(p)
             \/ Moved(p) \/ WriteChunk(p) \/ WriteEnd(p)
    BY <1>6, LinkOldOK, MoveNoEntryOK, MoveEraseOK, MoveBadDestOK, MoveDestOK, DropLinkOK,
       WriteChunkOK, WriteEndOK
<1> QED BY <1>1, <1>2, <1>3, <1>4, <1>5, <1>6 DEF KernelStep

\* And every system call.
LEMMA MakesCallOK == ASSUME IInv, NEW p \in Proc, MakesCall(p) PROVE Good
<1>1. ASSUME NEW c, IsCall(c), PathCall(p, c) PROVE Good
    BY <1>1, PathCallOK
<1>2. ASSUME NEW d \in Fd, Dup(p, d) \/ Close(p, d) \/ Fstat(p, d) PROVE Good
    BY <1>2, DupOK, CloseOK, FstatOK
<1>3. ASSUME NEW d \in Fd, NEW n \in Nat, Read(p, d, n) PROVE Good
    BY <1>3, ReadOK
<1>4. ASSUME NEW d \in Fd, NEW chunks, Write(p, d, chunks) PROVE Good
    BY <1>4, WriteOK
<1>5. ASSUME NEW q \in Proc, Fork(p, q) PROVE Good
    BY <1>5, ForkOK
<1>6. CASE Exit(p)
    BY <1>6, ExitOK
<1> QED BY <1>1, <1>2, <1>3, <1>4, <1>5, <1>6 DEF MakesCall, OtherCall

\* Every step keeps the invariant, and keeps exact counts exact.
LEMMA NextOK == ASSUME IInv, [Next]_vars PROVE Good
<1>1. CASE Next
    BY <1>1, KernelStepOK, MakesCallOK DEF Next
<1>2. CASE UNCHANGED vars
  <2>1. UNCHANGED <<dinode, inode, lock, files, fr, puts, panic, result, buf>>
      BY <1>2 DEF vars
  <2>2. DOMAIN result' = Proc /\ DOMAIN buf' = Proc
      BY <2>1 DEF IInv, ProcsOK
  <2>3. First \in Proc
      BY ProcAssumption
  <2> QED BY <2>1, <2>2, <2>3, AnswerOK
<1> QED BY <1>1, <1>2

-----------------------------------------------------------------------------
(* The initial state *)

\* Nobody uses an inode that no pointer names.
LEMMA UsesNone ==
    ASSUME NEW f, NEW i, \A k \in DOMAIN f : f[k] # i
    PROVE  Uses(f, i) = 0
<1>1. {k \in DOMAIN f : f[k] = i} = {}
    OBVIOUS
<1> QED BY <1>1, FS_EmptySet DEF Uses

\* At boot, only the root has a user: the first process, whose directory it is.
LEMMA InitRefs == ASSUME Init PROVE InodeRefs
<1>1. ASSUME NEW i \in Inum PROVE inode[i].ref = References(i)
  <2>1. i # None
      BY DEF Inum, None
  <2>2. ASSUME NEW p \in Proc
        PROVE  /\ fr[p].ip = None /\ fr[p].dp = None
               /\ Put(p, 1) = None /\ Put(p, 2) = None
    <3>1. fr[p] = Idle \/ fr[p] = Unused
        BY DEF Init
    <3>2. puts[p] = <<>>
        BY DEF Init
    <3> QED BY <3>1, <3>2, IdleIs, UnusedIs, NoPuts
  <2>3. Uses([p \in Proc |-> fr[p].ip], i) = 0
      BY <2>1, <2>2, UsesNone
  <2>4. Uses([p \in Proc |-> fr[p].dp], i) = 0
      BY <2>1, <2>2, UsesNone
  <2>5. Uses([p \in Proc |-> Put(p, 1)], i) = 0
      BY <2>1, <2>2, UsesNone
  <2>6. Uses([p \in Proc |-> Put(p, 2)], i) = 0
      BY <2>1, <2>2, UsesNone
  <2>7. Uses([f \in File |-> file[f].ip], i) = 0
    <3>1. \A f \in File : file[f].ip = None
        BY DEF Init, FreeFile
    <3> QED BY <2>1, <3>1, UsesNone
  <2>8. Uses(cwd, i) = Hit(ROOTINO, i)
    <3>1. DOMAIN cwd = Proc /\ \A p \in Proc : cwd[p] = IF p = First THEN ROOTINO ELSE None
        BY DEF Init
    <3>2. CASE i = ROOTINO
      <4>1. {p \in Proc : cwd[p] = i} = {First}
          BY <2>1, <3>1, <3>2, ProcAssumption
      <4> QED BY <3>1, <3>2, <4>1, FS_Singleton DEF Uses, Hit
    <3>3. CASE i # ROOTINO
      <4>1. \A p \in DOMAIN cwd : cwd[p] # i
          BY <2>1, <3>1, <3>3
      <4> QED BY <3>3, <4>1, UsesNone DEF Hit
    <3> QED BY <3>2, <3>3
  <2>9. inode[i].ref = Hit(ROOTINO, i)
    <3>1. Updated(FreeEntry, [ref |-> 1]).ref = 1 /\ FreeEntry.ref = 0
        BY DEF Updated, FreeEntry
    <3>2. inode[i] = IF i = ROOTINO THEN Updated(FreeEntry, [ref |-> 1]) ELSE FreeEntry
        BY DEF Init
    <3> QED BY <3>1, <3>2 DEF Hit
  <2> QED BY <2>3, <2>4, <2>5, <2>6, <2>7, <2>8, <2>9 DEF References, Hit
<1> QED BY <1>1 DEF InodeRefs

\* The invariant holds at boot.
LEMMA InitOK == ASSUME Init PROVE IInv
<1>1. 1 \in Inum /\ ROOTINO = 1
    BY SizeAssumption DEF Inum, ROOTINO
<1>2. DiskOK(dinode) /\ dinode = Disk
    BY DiskAssumption DEF Init, DiskOK
<1>3. CacheOK(inode, dinode)
  <2>1. /\ DOMAIN FreeEntry = {"ref", "valid", "type", "nlink"}
        /\ FreeEntry.ref = 0 /\ FreeEntry.valid = FALSE /\ FreeEntry.nlink = 0
      BY DEF FreeEntry
  <2>2. ASSUME NEW i \in Inum
        PROVE  inode[i] = IF i = ROOTINO THEN FirstUse ELSE FreeEntry
      BY DEF Init, FirstUse
  <2>3. DOMAIN inode = Inum
      BY DEF Init
  <2>4. ASSUME NEW i \in Inum
        PROVE  /\ DOMAIN inode[i] = {"ref", "valid", "type", "nlink"}
               /\ inode[i].ref \in Nat /\ inode[i].valid \in BOOLEAN /\ inode[i].nlink \in Int
               /\ ~Valid(inode, i)
    <3>1. CASE i = ROOTINO
        BY <2>2, <3>1, FirstUseIs DEF Valid
    <3>2. CASE i # ROOTINO
      <4>1. inode[i] = FreeEntry
          BY <2>2, <3>2
      <4> QED BY <2>1, <4>1 DEF Valid, FreeEntry
    <3> QED BY <3>1, <3>2
  <2> QED BY <2>3, <2>4 DEF CacheOK
<1>4. ASSUME NEW p \in Proc
      PROVE  /\ fr[p] = (IF p = First THEN Idle ELSE Unused)
             /\ puts[p] = <<>> /\ cwd[p] = (IF p = First THEN ROOTINO ELSE None)
             /\ \A i : ~Freeing(p, i)
    BY DEF Init, Freeing
<1>5. FilesOK
  <2>1. DOMAIN FreeFile = FileFields /\ FreeFile.ref = 0 /\ FreeFile.ip = None
      BY DEF FreeFile, FileFields
  <2>2. DOMAIN file = File /\ \A f \in File : file[f] = FreeFile
      BY DEF Init
  <2> QED BY <2>1, <2>2 DEF FilesOK, FileFields
<1>6. FdsOK
    BY DEF Init, FdsOK
<1>7. FileRefs
  <2>1. ASSUME NEW f \in File PROVE file[f].ref = Cardinality(Descriptors(f))
    <3>1. Descriptors(f) = {}
      <4>1. ASSUME NEW x \in Proc \X Fd PROVE ofile[x[1]][x[2]] = None
          BY DEF Init
      <4>2. f # None
          BY DEF File, None
      <4> QED BY <4>1, <4>2 DEF Descriptors
    <3>2. file[f].ref = 0
        BY DEF Init, FreeFile
    <3> QED BY <3>1, <3>2, FS_EmptySet
  <2> QED BY <2>1 DEF FileRefs
<1>8. LocksOK
  <2>1. ASSUME NEW p \in Proc, NEW i \in Inum PROVE ~Holds(p, i)
    <3>1. fr[p].at \in {"user", "unused"}
        BY <1>4, IdleIs, UnusedIs
    <3> QED BY <1>4, <3>1 DEF Holds, DpHeld, IpHeld, DpLocked, IpLocked
  <2>2. DOMAIN lock = Inum /\ \A i \in Inum : lock[i] = NoProc
      BY DEF Init
  <2> QED BY <2>1, <2>2 DEF LocksOK
<1>9. ProcsOK
  <2>1. ASSUME NEW p \in Proc PROVE OwnOK(p)
    <3>1. puts[p] \in Seq(Putt) /\ Len(puts[p]) <= 2 /\ Len(puts[p]) # 2
      <4>1. puts[p] = <<>>
          BY <1>4
      <4> QED BY <4>1
    <3>2. CASE p = First
      <4>1. SafeDir(ROOTINO)
          BY <1>1, <1>2, <1>4, DiskAssumption DEF SafeDir, Safe
      <4> QED BY <1>4, <3>1, <3>2, <4>1, IdleIs DEF OwnOK
    <3>3. CASE p # First
        BY <1>4, <3>1, <3>3, UnusedIs DEF OwnOK
    <3> QED BY <3>2, <3>3
  <2>2. /\ DOMAIN fr = Proc /\ DOMAIN puts = Proc /\ DOMAIN cwd = Proc
        /\ DOMAIN result = Proc /\ DOMAIN buf = Proc
      BY DEF Init
  <2> QED BY <2>1, <2>2 DEF ProcsOK
<1>10. RefsCover
  <2>1. ASSUME NEW i \in Inum PROVE References(i) <= inode[i].ref
    <3>1. References(i) = inode[i].ref /\ inode[i].ref \in Nat
        BY <1>3, InitRefs DEF InodeRefs, CacheOK
    <3> QED BY <3>1
  <2> QED BY <2>1 DEF RefsCover
<1>11. panic \in Messages
    BY DEF Init, Messages
<1> QED BY <1>2, <1>3, <1>5, <1>6, <1>7, <1>8, <1>9, <1>10, <1>11 DEF IInv

-----------------------------------------------------------------------------
(* Nobody gets into sys_move_file() without calling it *)

\* Goals stay as they are.
LEMMA SameGoals == ASSUME NoMoves, UNCHANGED fr PROVE NoMoves'
BY DEF NoMoves, Goal

\* p goes to a place of another call.
LEMMA GoesElsewhere ==
    ASSUME IInv, NoMoves, NEW p \in Proc, NEW fields, NEW ps, Go(p, fields, ps),
           "at" \in DOMAIN fields, fields.at \notin MoveGoals \cup {"namex"}
    PROVE  NoMoves'
<1>1. fr'[p].at = fields.at
  <2>1. fr'[p] = Updated(fr[p], fields) /\ DOMAIN fr[p] = FrameFields
      BY DEF Go, IInv, ProcsOK, OwnOK, FrameOK, FrameTyped
  <2> QED BY <2>1 DEF Updated, FrameFields
<1>2. Goal(fr'[p]) \notin MoveGoals
    BY <1>1 DEF Goal
<1>3. \A q \in Proc \ {p} : fr'[q] = fr[q]
    BY DEF Go, IInv, ProcsOK
<1> QED BY <1>2, <1>3 DEF NoMoves

\* The call returns.
LEMMA ReturnsElsewhere ==
    ASSUME IInv, NoMoves, NEW p \in Proc, NEW r, NEW ps, Return(p, r, ps)
    PROVE  NoMoves'
<1>1. "at" \in DOMAIN Idle /\ Idle.at \notin MoveGoals \cup {"namex"}
    BY DEF Idle, MoveGoals
<1> QED BY <1>1, GoesElsewhere DEF Return

\* p goes into namex(), for another call.
LEMMA NamexElsewhere ==
    ASSUME IInv, NoMoves, NEW p \in Proc, NEW fields, NEW ps, Go(p, fields, ps),
           "at" \in DOMAIN fields, "ret" \in DOMAIN fields, fields.at = "namex",
           fields.ret \notin MoveGoals
    PROVE  NoMoves'
<1>1. fr'[p].at = "namex" /\ fr'[p].ret = fields.ret
  <2>1. fr'[p] = Updated(fr[p], fields) /\ DOMAIN fr[p] = FrameFields
      BY DEF Go, IInv, ProcsOK, OwnOK, FrameOK, FrameTyped
  <2> QED BY <2>1 DEF Updated, FrameFields
<1>2. Goal(fr'[p]) \notin MoveGoals
    BY <1>1 DEF Goal
<1>3. \A q \in Proc \ {p} : fr'[q] = fr[q]
    BY DEF Go, IInv, ProcsOK
<1> QED BY <1>2, <1>3 DEF NoMoves

\* p stays in its place.
LEMMA StaysElsewhere ==
    ASSUME IInv, NoMoves, NEW p \in Proc, NEW fields, NEW ps, Go(p, fields, ps),
           "at" \notin DOMAIN fields, "ret" \notin DOMAIN fields
    PROVE  NoMoves'
<1>1. fr'[p].at = fr[p].at /\ fr'[p].ret = fr[p].ret
  <2>1. fr'[p] = Updated(fr[p], fields) /\ DOMAIN fr[p] = FrameFields
      BY DEF Go, IInv, ProcsOK, OwnOK, FrameOK, FrameTyped
  <2> QED BY <2>1 DEF Updated, FrameFields
<1>2. Goal(fr'[p]) \notin MoveGoals
    BY <1>1 DEF Goal, NoMoves
<1>3. \A q \in Proc \ {p} : fr'[q] = fr[q]
    BY DEF Go, IInv, ProcsOK
<1> QED BY <1>2, <1>3 DEF NoMoves

\* A panic leaves everybody where he is.
LEMMA PanicElsewhere == ASSUME NoMoves, NEW msg, Panics(msg) PROVE NoMoves'
BY SameGoals DEF Panics

\* A process that is not in sys_move_file() is not where only that leads.
LEMMA NotMoving ==
    ASSUME NoMoves, NEW p \in Proc
    PROVE  fr[p].at \notin MoveGoals /\ (fr[p].at = "namex" => fr[p].ret \notin MoveGoals)
BY DEF NoMoves, Goal, MoveGoals

\* namex() goes on, or returns to the call it is for.
LEMMA NamexNoMove == ASSUME IInv, NoMoves, NEW p \in Proc, NamexStep(p) PROVE NoMoves'
<1>1. ASSUME NEW i, NEW name, NEW ps, At(p, "namex"), Found(p, i, name, ps) PROVE NoMoves'
  <2> DEFINE fields == [at |-> fr[p].ret, dp |-> i, want |-> i, name |-> name]
  <2>1. fr[p].at = "namex" /\ fr[p].ret \in Searches
      BY <1>1, AtOK DEF FrameOK, FrameTyped
  <2>2. fr[p].ret \notin MoveGoals \cup {"namex"}
      BY <2>1, NotMoving DEF Searches
  <2>3. "at" \in DOMAIN fields /\ fields.at = fr[p].ret /\ Go(p, fields, ps)
      BY <1>1 DEF Found
  <2> HIDE DEF fields
  <2> QED BY <2>2, <2>3, GoesElsewhere
<1>2. CASE NamexEnd(p) \/ NamexStop(p) \/ NamexFail(p)
    BY <1>1, <1>2 DEF NamexEnd, NamexStop, NamexFail
<1>3. CASE NamexDown(p)
  <2> DEFINE f == fr[p]
             next == Entries(f.dp)[Head(f.path)]
             fields == [path |-> Tail(f.path), dp |-> next, name |-> Head(f.path),
                        want |-> IF Len(f.path) = 1 THEN None ELSE next]
  <2>1. Panics("iget: no inodes") \/ Go(p, fields, <<f.dp>>)
      BY <1>3 DEF NamexDown
  <2>2. "at" \notin DOMAIN fields /\ "ret" \notin DOMAIN fields
      OBVIOUS
  <2> HIDE DEF fields
  <2> QED BY <2>1, <2>2, PanicElsewhere, StaysElsewhere
<1> QED BY <1>2, <1>3 DEF NamexStep

\* The steps that return, and those that leave everybody where he is.
LEMMA ReturnNoMove ==
    ASSUME IInv, NoMoves, NEW p \in Proc,
           \/ NotFound(p) \/ WrongType(p) \/ LinkDir(p) \/ DropLink(p) \/ UnlinkBad(p)
           \/ UnlinkBadUnlock(p) \/ UnlinkInode(p) \/ Made(p) \/ OpenFile(p) \/ ChdirDir(p)
           \/ WriteEnd(p) \/ Moved(p) \/ Iput(p) \/ NoType(p) \/ UnlinkPanic(p)
    PROVE  NoMoves'
<1>1. CASE Iput(p)
    BY <1>1, SameGoals DEF Iput, IputKeep, IputLast, IputFree, IputDrop
<1>2. CASE NoType(p) \/ UnlinkPanic(p)
    BY <1>2, PanicElsewhere DEF NoType, UnlinkPanic
<1>3. CASE NotFound(p) \/ WrongType(p) \/ LinkDir(p)
    BY <1>3, ReturnsElsewhere DEF NotFound, WrongType, LinkDir
<1>4. CASE DropLink(p) \/ Moved(p)
    BY <1>4, ReturnsElsewhere DEF DropLink, Moved, DropLinkAnd
<1>5. CASE UnlinkBad(p) \/ UnlinkBadUnlock(p) \/ UnlinkInode(p) \/ Made(p)
    BY <1>5, ReturnsElsewhere DEF UnlinkBad, UnlinkBadUnlock, UnlinkInode, Made
<1>6. CASE OpenFile(p)
    BY <1>6, ReturnsElsewhere DEF OpenFile
<1>7. CASE ChdirDir(p) \/ WriteEnd(p)
    BY <1>7, ReturnsElsewhere DEF ChdirDir, WriteEnd
<1> QED BY <1>1, <1>2, <1>3, <1>4, <1>5, <1>6, <1>7

\* The steps that go on to another place of the same call.
LEMMA GoNoMove ==
    ASSUME IInv, NoMoves, NEW p \in Proc,
           \/ NoDir(p) \/ LinkExists(p) \/ LinkExistsUnlock(p) \/ UnlinkFound(p)
           \/ UnlinkNotEmpty(p) \/ UnlinkErase(p) \/ CreateExists(p) \/ CreateAlloc(p)
           \/ CreateNew(p) \/ OpenOld(p) \/ CreateOld(p) \/ WriteChunk(p) \/ ExitClose(p)
           \/ ExitCwd(p)
    PROVE  NoMoves'
<1> DEFINE Elsewhere(fields) ==
               "at" \in DOMAIN fields /\ fields.at \notin MoveGoals \cup {"namex"}
<1>1. CASE NoDir(p)
  <2>1. \E ps : Go(p, Undo(p), ps)
      BY <1>1 DEF NoDir
  <2>2. Elsewhere(Undo(p))
      BY DEF Undo, MoveGoals
  <2> HIDE DEF Elsewhere
  <2> QED BY <2>1, <2>2, GoesElsewhere DEF Elsewhere
<1>2. CASE LinkExistsUnlock(p)
  <2>1. \E ps : Go(p, Undo(p), ps)
      BY <1>2 DEF LinkExistsUnlock
  <2>2. Elsewhere(Undo(p))
      BY DEF Undo, MoveGoals
  <2> QED BY <2>1, <2>2, GoesElsewhere
<1>3. CASE LinkExists(p)
  <2> DEFINE fields == [at |-> "link_exists", want |-> None]
  <2>1. Panics("iget: no inodes") \/ \E ps : Go(p, fields, ps)
      BY <1>3 DEF LinkExists
  <2>2. Elsewhere(fields)
      BY DEF MoveGoals
  <2> HIDE DEF fields
  <2> QED BY <2>1, <2>2, GoesElsewhere, PanicElsewhere
<1>4. CASE UnlinkFound(p)
  <2> DEFINE i == Entries(fr[p].dp)[fr[p].name]
             fields == [at |-> "unlink_check", ip |-> i, want |-> i]
  <2>1. Panics("iget: no inodes") \/ Go(p, fields, <<>>)
      BY <1>4 DEF UnlinkFound
  <2>2. Elsewhere(fields)
      BY DEF MoveGoals
  <2> HIDE DEF fields
  <2> QED BY <2>1, <2>2, GoesElsewhere, PanicElsewhere
<1>5. CASE UnlinkNotEmpty(p)
  <2> DEFINE fields == [at |-> "unlink_bad", want |-> None, ip |-> None]
  <2>1. Go(p, fields, <<fr[p].ip>>)
      BY <1>5 DEF UnlinkNotEmpty
  <2>2. Elsewhere(fields)
      BY DEF MoveGoals
  <2> HIDE DEF fields
  <2> QED BY <2>1, <2>2, GoesElsewhere
<1>6. CASE UnlinkErase(p)
  <2> DEFINE fields == [at |-> "unlink_inode", want |-> None, dp |-> None]
  <2>1. Go(p, fields, <<fr[p].dp>>)
      BY <1>6 DEF UnlinkErase
  <2>2. Elsewhere(fields)
      BY DEF MoveGoals
  <2> HIDE DEF fields
  <2> QED BY <2>1, <2>2, GoesElsewhere
<1>7. CASE CreateExists(p)
  <2> DEFINE i == Entries(fr[p].dp)[fr[p].name]
             fields == [at |-> "create_old", ip |-> i, want |-> i, dp |-> None]
  <2>1. Panics("iget: no inodes") \/ Go(p, fields, <<fr[p].dp>>)
      BY <1>7 DEF CreateExists
  <2>2. Elsewhere(fields)
      BY DEF MoveGoals
  <2> HIDE DEF fields
  <2> QED BY <2>1, <2>2, GoesElsewhere, PanicElsewhere
<1>8. CASE CreateAlloc(p)
  <2> DEFINE i == Min(FreeInums)
             fields == [at |-> "create_new", ip |-> i, want |-> i]
  <2>1. Panics("ialloc: no inodes") \/ Panics("iget: no inodes") \/ Go(p, fields, <<>>)
      BY <1>8 DEF CreateAlloc
  <2>2. Elsewhere(fields)
      BY DEF MoveGoals
  <2> HIDE DEF fields
  <2> QED BY <2>1, <2>2, GoesElsewhere, PanicElsewhere
<1>9. CASE CreateNew(p)
  <2> DEFINE fields == [at |-> IF fr[p].call.op = "open" THEN "open_file" ELSE "made",
                        want |-> None, dp |-> None]
  <2>1. Go(p, fields, <<fr[p].dp>>)
      BY <1>9 DEF CreateNew
  <2>2. Elsewhere(fields)
      BY DEF MoveGoals
  <2> HIDE DEF fields
  <2> QED BY <2>1, <2>2, GoesElsewhere
<1>10. CASE OpenOld(p)
  <2> DEFINE fields == [at |-> "open_file", ip |-> fr[p].dp, dp |-> None, want |-> None]
  <2>1. Go(p, fields, <<>>)
      BY <1>10 DEF OpenOld
  <2>2. Elsewhere(fields)
      BY DEF MoveGoals
  <2> HIDE DEF fields
  <2> QED BY <2>1, <2>2, GoesElsewhere
<1>11. CASE CreateOld(p)
  <2> DEFINE fields == [at |-> "open_file", want |-> None]
  <2>1. Return(p, -1, <<fr[p].ip>>) \/ Go(p, fields, <<>>)
      BY <1>11 DEF CreateOld
  <2>2. Elsewhere(fields)
      BY DEF MoveGoals
  <2> HIDE DEF fields
  <2> QED BY <2>1, <2>2, GoesElsewhere, ReturnsElsewhere
<1>12. CASE WriteChunk(p)
  <2> DEFINE c == Updated(fr[p].call, [left |-> Tail(fr[p].call.left)])
             fields == [call |-> c]
  <2>1. Go(p, fields, <<>>)
      BY <1>12 DEF WriteChunk
  <2>2. "at" \notin DOMAIN fields /\ "ret" \notin DOMAIN fields
      OBVIOUS
  <2> HIDE DEF fields
  <2> QED BY <2>1, <2>2, StaysElsewhere
<1>13. CASE ExitClose(p)
  <2> DEFINE fields == [at |-> "exit"]
  <2>1. \E ps : Go(p, fields, ps)
      BY <1>13 DEF ExitClose, FileClose
  <2>2. Elsewhere(fields)
      BY DEF MoveGoals
  <2> HIDE DEF fields
  <2> QED BY <2>1, <2>2, GoesElsewhere
<1>14. CASE ExitCwd(p)
  <2>1. Go(p, Unused, <<cwd[p]>>)
      BY <1>14 DEF ExitCwd
  <2>2. "at" \in DOMAIN Unused /\ Unused.at \notin MoveGoals \cup {"namex"}
      BY UnusedIs DEF MoveGoals, FrameFields
  <2> QED BY <2>1, <2>2, GoesElsewhere
<1> QED BY <1>1, <1>2, <1>3, <1>4, <1>5, <1>6, <1>7, <1>8, <1>9, <1>10, <1>11, <1>12, <1>13, <1>14

\* No step inside another system call leads into sys_move_file().
LEMMA KernelNoMove == ASSUME IInv, NoMoves, NEW p \in Proc, KernelStep(p) PROVE NoMoves'
<1>1. CASE LinkOld(p)
  <2> DEFINE f == fr[p]
             fields == Namex(p, f.call.new, TRUE, "link_dir", f.dp, f.call)
  <2>1. Panics("iget: no inodes") \/ Go(p, fields, <<>>)
      BY <1>1 DEF LinkOld, AddLink
  <2>2. /\ "at" \in DOMAIN fields /\ "ret" \in DOMAIN fields /\ fields.at = "namex"
        /\ fields.ret \notin MoveGoals
      BY DEF Namex, MoveGoals
  <2> HIDE DEF fields
  <2> QED BY <2>1, <2>2, NamexElsewhere, PanicElsewhere
<1>2. ~(MoveOld(p) \/ MoveNoEntry(p) \/ MoveErase(p) \/ MoveBadDest(p) \/ MoveDest(p)
          \/ Moved(p))
    BY NotMoving DEF MoveOld, MoveNoEntry, MoveErase, MoveBadDest, MoveDest, Moved, At, MoveGoals
<1>3. CASE \/ NotFound(p) \/ WrongType(p) \/ LinkDir(p) \/ DropLink(p) \/ UnlinkBad(p)
           \/ UnlinkBadUnlock(p) \/ UnlinkInode(p) \/ Made(p) \/ OpenFile(p) \/ ChdirDir(p)
           \/ WriteEnd(p) \/ Iput(p) \/ NoType(p) \/ UnlinkPanic(p)
    BY <1>3, ReturnNoMove
<1>4. CASE \/ NoDir(p) \/ LinkExists(p) \/ LinkExistsUnlock(p) \/ UnlinkFound(p)
           \/ UnlinkNotEmpty(p) \/ UnlinkErase(p) \/ CreateExists(p) \/ CreateAlloc(p)
           \/ CreateNew(p) \/ OpenOld(p) \/ CreateOld(p) \/ WriteChunk(p) \/ ExitClose(p)
           \/ ExitCwd(p)
    BY <1>4, GoNoMove
<1> QED BY <1>1, <1>2, <1>3, <1>4, NamexNoMove DEF KernelStep

\* Nor does a system call other than sys_move_file().
LEMMA CallNoMove ==
    ASSUME IInv, NoMoves, NEW p \in Proc, MakesCallButMove(p)
    PROVE  NoMoves'
<1>1. ASSUME NEW op, NEW c, NEW path, NEW parent, NEW at, at \notin MoveGoals,
             Call(p, op, c, path, parent, at)
      PROVE  NoMoves'
  <2> DEFINE fields == Namex(p, path, parent, at, None, c)
  <2>1. Panics("iget: no inodes") \/ Go(p, fields, <<>>)
      BY <1>1 DEF Call
  <2>2. /\ "at" \in DOMAIN fields /\ "ret" \in DOMAIN fields /\ fields.at = "namex"
        /\ fields.ret = at
      BY DEF Namex
  <2> HIDE DEF fields
  <2> QED BY <1>1, <2>1, <2>2, NamexElsewhere, PanicElsewhere
<1>2. ASSUME NEW c, c.op # "move", PathCall(p, c) PROVE NoMoves'
  <2>1. ~MoveFile(p, c)
      BY <1>2 DEF MoveFile, Call
  <2>2. {"link_old", "unlink_dir", "create_dir", "open_old", "chdir_dir"} \cap MoveGoals = {}
      BY DEF MoveGoals
  <2>3. CASE Link(p, c) \/ Unlink(p, c) \/ Create(p, c)
      BY <1>1, <2>2, <2>3 DEF Link, Unlink, Create
  <2>4. CASE Open(p, c) \/ Chdir(p, c)
      BY <1>1, <2>2, <2>4 DEF Open, Chdir
  <2> QED BY <1>2, <2>1, <2>3, <2>4 DEF PathCall
<1>3. ASSUME NEW d \in Fd, Dup(p, d) \/ Fstat(p, d) \/ (\E n \in Nat : Read(p, d, n))
      PROVE  NoMoves'
    BY <1>3, SameGoals DEF Dup, Fstat, Read, Locking
<1>4. ASSUME NEW d \in Fd, Close(p, d) PROVE NoMoves'
  <2>1. UNCHANGED fr \/ \E ps : Go(p, Idle, ps)
      BY <1>4 DEF Close, FileClose
  <2>2. "at" \in DOMAIN Idle /\ Idle.at \notin MoveGoals \cup {"namex"}
      BY DEF Idle, MoveGoals
  <2> QED BY <2>1, <2>2, SameGoals, GoesElsewhere
<1>5. ASSUME NEW d \in Fd, NEW chunks, Write(p, d, chunks) PROVE NoMoves'
  <2> DEFINE fields == [at |-> "write", want |-> file[ofile[p][d]].ip,
                        call |-> [op |-> "write", d |-> d, n |-> Len(chunks), left |-> chunks]]
  <2>1. UNCHANGED fr \/ Go(p, fields, <<>>)
      BY <1>5 DEF Write
  <2>2. "at" \in DOMAIN fields /\ fields.at \notin MoveGoals \cup {"namex"}
      BY DEF MoveGoals
  <2> HIDE DEF fields
  <2> QED BY <2>1, <2>2, SameGoals, GoesElsewhere
<1>6. ASSUME NEW q \in Proc, Fork(p, q) PROVE NoMoves'
  <2>1. fr' = [fr EXCEPT ![q] = Idle] /\ DOMAIN fr = Proc
      BY <1>6 DEF Fork, IInv, ProcsOK
  <2>2. Goal(Idle) \notin MoveGoals
      BY IdleIs DEF MoveGoals
  <2>3. fr'[q] = Idle /\ \A r \in Proc \ {q} : fr'[r] = fr[r]
      BY <2>1
  <2> QED BY <2>2, <2>3 DEF NoMoves
<1>7. CASE Exit(p)
  <2> DEFINE fields == [at |-> "exit"]
  <2>1. Go(p, fields, <<>>)
      BY <1>7 DEF Exit
  <2>2. "at" \in DOMAIN fields /\ fields.at \notin MoveGoals \cup {"namex"}
      BY DEF MoveGoals
  <2> HIDE DEF fields
  <2> QED BY <2>1, <2>2, GoesElsewhere
<1> QED BY <1>2, <1>3, <1>4, <1>5, <1>6, <1>7 DEF MakesCallButMove, OtherCall

-----------------------------------------------------------------------------
(* Theorems *)

\* The invariant is inductive: whatever system calls processes make, and however
\* their steps interleave.
THEOREM FilesInvariant == Spec => []IInv
<1>1. Init => IInv
    BY InitOK
<1>2. IInv /\ [Next]_vars => IInv'
    BY NextOK DEF Good
<1> QED BY <1>1, <1>2, PTL DEF Spec

\* The invariant gives the properties of FileSys.
LEMMA SafeUse == ASSUME IInv PROVE InUseIsAllocated
<1>1. ASSUME NEW f \in File, file[f].ref > 0 PROVE dinode[file[f].ip].type # "free"
    BY <1>1 DEF IInv, FilesOK, Safe
<1>2. ASSUME NEW p \in Proc, cwd[p] # None PROVE dinode[cwd[p]].type = "dir"
    BY <1>2 DEF IInv, ProcsOK, OwnOK, SafeDir
<1> QED BY <1>1, <1>2 DEF InUseIsAllocated

\* And their types.
LEMMA Typed == ASSUME IInv PROVE TypeOK
<1>1. ASSUME NEW i \in Inum, lock[i] # NoProc
      PROVE  fr[lock[i]].at # "user" \/ puts[lock[i]] # <<>>
  <2>1. Holds(lock[i], i)
      BY <1>1 DEF IInv, LocksOK
  <2> QED BY <2>1 DEF Holds, DpHeld, IpHeld, Freeing, DpLocked, IpLocked
<1>2. ASSUME NEW i \in Inum
      PROVE  /\ dinode[i].type \in Types /\ dinode[i].nlink \in Int
             /\ inode[i].ref \in Nat /\ inode[i].valid \in BOOLEAN
    BY DEF IInv, DiskOK, CacheOK
<1>3. ASSUME NEW f \in File PROVE file[f].ref \in Nat /\ file[f].ip \in Inum \cup {None}
    BY DEF IInv, FilesOK, Safe
<1>4. ofile \in [Proc -> [Fd -> File \cup {None}]] /\ panic \in Messages
    BY DEF IInv, FdsOK
<1>5. ASSUME NEW p \in Proc PROVE cwd[p] \in Inum \cup {None}
  <2>1. OwnOK(p)
      BY DEF IInv, ProcsOK
  <2> QED BY <2>1 DEF OwnOK, SafeDir, Safe
<1> QED BY <1>1, <1>2, <1>3, <1>4, <1>5 DEF TypeOK

\* The inode of an open file or of a current directory stays allocated, whoever
\* unlinks it, moves it or closes other files meanwhile (iput(), fs.c:330-352).
THEOREM OpenFilesStay == Spec => []InUseIsAllocated
<1>1. IInv => InUseIsAllocated
    BY SafeUse
<1> QED BY <1>1, FilesInvariant, PTL

\* Types, and the count of every open file: it is that of its descriptors.
THEOREM FileCounts == Spec => [](TypeOK /\ FileRefs)
<1>1. IInv => TypeOK /\ FileRefs
    BY Typed DEF IInv
<1> QED BY <1>1, FilesInvariant, PTL

\* A system without sys_move_file() is one with it.
LEMMA ButMoveIsNext == ASSUME NextButMove PROVE Next
BY DEF NextButMove, Next, MakesCallButMove, MakesCall

\* And nobody is in it as long as nobody calls it.
LEMMA NobodyMoves == ASSUME IInv, NoMoves, [NextButMove]_vars PROVE NoMoves'
<1>1. CASE NextButMove
  <2>1. PICK p \in Proc : KernelStep(p) \/ MakesCallButMove(p)
      BY <1>1 DEF NextButMove
  <2> QED BY <2>1, KernelNoMove, CallNoMove
<1>2. CASE UNCHANGED vars
    BY <1>2, SameGoals DEF vars
<1> QED BY <1>1, <1>2

\* At boot, nobody is.
LEMMA InitNoMoves == ASSUME Init PROVE NoMoves
<1>1. ASSUME NEW p \in Proc PROVE Goal(fr[p]) \notin MoveGoals
  <2>1. fr[p] = Idle \/ fr[p] = Unused
      BY DEF Init
  <2> QED BY <2>1, IdleIs, UnusedIs DEF Goal, MoveGoals
<1> QED BY <1>1 DEF NoMoves

\* As long as nobody calls sys_move_file(), the count of an inode is that of the
\* pointers to it: nothing is freed under a user, nothing stays in the cache.
THEOREM CountsAreExact == SpecButMove => []InodeRefs
<1> DEFINE J == IInv /\ NoMoves /\ InodeRefs
<1>1. Init => J
    BY InitOK, InitRefs, InitNoMoves
<1>2. J /\ [NextButMove]_vars => J'
  <2> SUFFICES ASSUME J, [NextButMove]_vars PROVE J'
      OBVIOUS
  <2>1. [Next]_vars
      BY ButMoveIsNext
  <2> QED BY <2>1, NextOK, NobodyMoves DEF Good
<1>3. J => InodeRefs
    OBVIOUS
<1> HIDE DEF J
<1> QED BY <1>1, <1>2, <1>3, PTL DEF SpecButMove

-----------------------------------------------------------------------------
(* The tests of Usertests *)

TestSpec(Tests) == TestInit(Tests) /\ [][TestNext]_tvars

\* Whose calls a process makes: those of the test, or of a child it forks.
IsRole(r) == r = 0 \/ (r \in DOMAIN Test[test] /\ Test[test][r].call.op = "fork")

\* Every process is in one of the scripts of the test.
TestInv ==
    /\ test \in DOMAIN Test
    /\ DOMAIN role = Proc /\ DOMAIN pc = Proc
    /\ \A p \in Proc : IsRole(role[p]) /\ pc[p] \in Nat \ {0}

\* So what p runs is a script of the test, and only the test itself forks.
LEMMA ScriptIs ==
    ASSUME TestInv, NEW p \in Proc
    PROVE  /\ Script(p) \in Scripts(test)
           /\ role[p] = 0 => Script(p) = Test[test]
           /\ role[p] # 0 => \A k \in DOMAIN Script(p) : Script(p)[k].call.op # "fork"
<1>1. test \in DOMAIN Test /\ IsRole(role[p])
    BY DEF TestInv
<1>2. CASE role[p] = 0
    BY <1>1, <1>2 DEF Script, Scripts
<1>3. CASE role[p] # 0
  <2>1. Script(p) \in Children(test)
      BY <1>1, <1>3 DEF Script, Children, IsRole
  <2> QED BY <1>1, <1>3, <2>1, TestsAssumption DEF Scripts
<1> QED BY <1>2, <1>3

\* The call p is about to make is one of its script.
LEMMA CurrentIs ==
    ASSUME TestInv, NEW p \in Proc, Running(p)
    PROVE  /\ pc[p] \in DOMAIN Script(p)
           /\ \A c \in Choice(Current(p).call) :
                IsTestCall(c) /\ (c.op = "move" => test \in Moving)
<1>1. Script(p) \in Scripts(test) /\ test \in DOMAIN Test
    BY ScriptIs DEF TestInv
<1>2. Len(Script(p)) \in Nat /\ DOMAIN Script(p) = 1..Len(Script(p))
    BY <1>1, TestsAssumption
<1>3. pc[p] \in DOMAIN Script(p)
    BY <1>2 DEF Running, TestInv
<1>4. \A c \in Choice(Script(p)[pc[p]].call) :
        IsTestCall(c) /\ (c.op = "move" => test \in Moving)
    BY <1>1, <1>3, TestsAssumption
<1> QED BY <1>3, <1>4 DEF Current

\* A call of a test is a system call, or a wait() that is over.
LEMMA MakesIs ==
    ASSUME NEW p \in Proc, NEW c, IsTestCall(c), Makes(p, c)
    PROVE  /\ MakesCall(p) \/ UNCHANGED vars
           /\ c.op # "move" => MakesCallButMove(p) \/ UNCHANGED vars
<1>1. CASE c.op \in PathOps /\ PathCall(p, c)
    BY <1>1 DEF IsTestCall, MakesCall, MakesCallButMove
<1>2. CASE c.op \in {"read", "write", "close", "dup", "fstat"}
  <2>1. c.d \in Fd /\ (c.op = "read" => c.n \in Nat)
      BY <1>2 DEF IsTestCall
  <2>2. \/ Read(p, c.d, c.n) /\ c.op = "read"
        \/ Write(p, c.d, c.data) \/ Close(p, c.d) \/ Dup(p, c.d) \/ Fstat(p, c.d)
      BY <1>2 DEF Makes, PathOps
  <2>3. OtherCall(p)
      BY <2>1, <2>2 DEF OtherCall
  <2> QED BY <2>3 DEF MakesCall, MakesCallButMove
<1>3. CASE c.op = "wait" /\ UNCHANGED vars
    BY <1>3
<1> QED BY <1>1, <1>2, <1>3 DEF Makes

\* A step of a test is one of the system, and leaves every process in its script.
LEMMA TestStepIs ==
    ASSUME TestInv, [TestNext]_tvars
    PROVE  /\ [Next]_vars
           /\ test \notin Moving => [NextButMove]_vars
           /\ TestInv' /\ test' = test
<1>1. ASSUME NEW p \in Proc, CallStep(p)
      PROVE  /\ MakesCall(p) \/ UNCHANGED vars
             /\ test \notin Moving => MakesCallButMove(p) \/ UNCHANGED vars
             /\ UNCHANGED <<test, role, pc>>
  <2>1. PICK c \in Choice(Current(p).call) : Makes(p, c)
      BY <1>1 DEF CallStep
  <2>2. IsTestCall(c) /\ (c.op = "move" => test \in Moving)
      BY <1>1, CurrentIs DEF CallStep
  <2> QED BY <1>1, <2>1, <2>2, MakesIs DEF CallStep
<1>2. ASSUME NEW p \in Proc, ForkStep(p)
      PROVE  OtherCall(p) /\ TestInv' /\ test' = test
  <2>1. PICK q \in Proc : /\ Fork(p, q)
                          /\ role' = [role EXCEPT ![q] = pc[p]]
                          /\ pc' = [pc EXCEPT ![p] = @ + 1, ![q] = 1]
      BY <1>2 DEF ForkStep
  <2>2. Running(p) /\ Current(p).call.op = "fork" /\ test' = test
      BY <1>2 DEF ForkStep
  <2>3. IsRole(pc[p])
    <3>1. pc[p] \in DOMAIN Script(p)
        BY <2>2, CurrentIs
    <3>2. Script(p) = Test[test]
        BY <2>2, <3>1, ScriptIs DEF Current
    <3> QED BY <2>2, <3>1, <3>2 DEF Current, IsRole
  <2>4. ASSUME NEW r \in Proc PROVE IsRole(role[r])' /\ pc'[r] \in Nat \ {0}
    <3>1. IsRole(role[r]) /\ pc[r] \in Nat \ {0} /\ pc[p] \in Nat
        BY DEF TestInv
    <3>2. role'[r] = IF r = q THEN pc[p] ELSE role[r]
        BY <2>1 DEF TestInv
    <3>3. pc'[r] \in Nat \ {0}
        BY <2>1, <3>1 DEF TestInv
    <3> QED BY <2>2, <2>3, <3>1, <3>2, <3>3 DEF IsRole
  <2> QED BY <2>1, <2>2, <2>4 DEF TestInv, OtherCall
<1>3. ASSUME NEW p \in Proc, CheckStep(p)
      PROVE  UNCHANGED vars /\ TestInv' /\ test' = test
  <2>1. pc' = [pc EXCEPT ![p] = @ + 1] /\ UNCHANGED <<vars, test, role>>
      BY <1>3 DEF CheckStep
  <2> QED BY <2>1 DEF TestInv, IsRole
<1>4. ASSUME NEW p \in Proc, ExitStep(p) \/ KernelTestStep(p)
      PROVE  (KernelStep(p) \/ OtherCall(p)) /\ UNCHANGED <<test, role, pc>>
    BY <1>4 DEF ExitStep, KernelTestStep, OtherCall, testing
<1>5. UNCHANGED <<test, role, pc>> => TestInv'
    BY DEF TestInv, IsRole
<1>6. CASE UNCHANGED tvars
    BY <1>5, <1>6 DEF tvars, testing
<1>7. ASSUME NEW p \in Proc,
             CallStep(p) \/ ForkStep(p) \/ CheckStep(p) \/ ExitStep(p) \/ KernelTestStep(p)
      PROVE  /\ KernelStep(p) \/ MakesCall(p) \/ UNCHANGED vars
             /\ test \notin Moving => KernelStep(p) \/ MakesCallButMove(p) \/ UNCHANGED vars
             /\ TestInv' /\ test' = test
    BY <1>1, <1>2, <1>3, <1>4, <1>5, <1>7 DEF MakesCall, MakesCallButMove
<1>8. CASE TestNext
    BY <1>7, <1>8 DEF TestNext, Next, NextButMove
<1> QED BY <1>6, <1>8

\* Every process starts in the test.
LEMMA TestInitIs ==
    ASSUME NEW Tests, Tests \subseteq DOMAIN Test, TestInit(Tests)
    PROVE  Init /\ TestInv
BY DEF TestInit, TestInv, IsRole

\* What the tests do is what the system of FileProofs allows: all that is proved of
\* it holds of them.
THEOREM TestsAreRuns ==
    ASSUME NEW CONSTANT Tests, Tests \subseteq DOMAIN Test
    PROVE  TestSpec(Tests) => Spec
<1>1. TestInit(Tests) => Init /\ TestInv
    BY TestInitIs
<1>2. TestInv /\ [TestNext]_tvars => TestInv' /\ [Next]_vars
    BY TestStepIs
<1> QED BY <1>1, <1>2, PTL DEF TestSpec, Spec

\* In every test, a file's count is that of its descriptors; in those without
\* sys_move_file(), an inode's count is that of the pointers to it.
THEOREM TestsKeepCounts ==
    ASSUME NEW CONSTANT Tests, Tests \subseteq DOMAIN Test
    PROVE  TestSpec(Tests) => []AccurateRefs
<1> DEFINE J == TestInv /\ IInv /\ (test \notin Moving => NoMoves /\ InodeRefs)
<1>1. TestInit(Tests) => J
    BY TestInitIs, InitOK, InitRefs, InitNoMoves
<1>2. J /\ [TestNext]_tvars => J'
  <2> SUFFICES ASSUME J, [TestNext]_tvars PROVE J'
      OBVIOUS
  <2>1. /\ [Next]_vars /\ (test \notin Moving => [NextButMove]_vars)
        /\ TestInv' /\ test' = test
      BY TestStepIs
  <2>2. IInv' /\ (NoMoves /\ InodeRefs => InodeRefs')
      BY <2>1, NextOK DEF Good
  <2>3. test \notin Moving => NoMoves'
      BY <2>1, NobodyMoves
  <2> QED BY <2>1, <2>2, <2>3
<1>3. J => AccurateRefs
    BY Typed DEF AccurateRefs, IInv
<1> HIDE DEF J
<1> QED BY <1>1, <1>2, <1>3, PTL DEF TestSpec

\* The inode of an open file or of a current directory stays allocated in every test.
THEOREM TestsKeepFiles ==
    ASSUME NEW CONSTANT Tests, Tests \subseteq DOMAIN Test
    PROVE  TestSpec(Tests) => []InUseIsAllocated
BY TestsAreRuns, OpenFilesStay, PTL
=============================================================================
