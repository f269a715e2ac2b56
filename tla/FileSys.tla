------------------------------ MODULE FileSys ------------------------------
(***************************************************************************)
(* Inodes, directories and path names (fs.c), open files (file.c) and the  *)
(* system calls on them (sysfile.c).                                       *)
(*                                                                         *)
(* A process is followed from one acquisition of an inode's sleep lock to  *)
(* the next: what it does between is one step, and while it holds a lock   *)
(* and waits for another one the lock is seen to be held.  iput() takes    *)
(* the lock of its inode too.  A system call is one transaction of the log *)
(* (Log.tla); blocks are left to Blocks.tla.  A directory is a function    *)
(* from names to inode numbers, a file a sequence of chunks.               *)
(***************************************************************************)
EXTENDS Integers, Sequences, FiniteSets, FiniteSetsExt

CONSTANTS
    Proc, NoProc,
    First,      \* the process that runs at boot
    NInum,      \* inodes on the disk
    NINODE,     \* entries of the inode cache
    NFILE,      \* entries of the file table
    NOFILE,     \* descriptors of a process
    Disk        \* what mkfs has put into the file system

ASSUME ProcAssumption == IsFiniteSet(Proc) /\ NoProc \notin Proc /\ First \in Proc
ASSUME SizeAssumption ==
    /\ NInum \in Nat \ {0} /\ NINODE \in Nat \ {0}
    /\ NFILE \in Nat \ {0} /\ NOFILE \in Nat \ {0}

Inum == 1..NInum
ROOTINO == 1
File == 1..NFILE
Fd == 0..(NOFILE - 1)
None == 0           \* the null pointer, for inodes and files
Types == {"free", "file", "dir", "dev"}

\* mkfs makes a file system: the root is a directory, and directories name inodes.
ASSUME DiskAssumption ==
    /\ DOMAIN Disk = Inum
    /\ \A i \in Inum :
         /\ DOMAIN Disk[i] = {"type", "nlink", "body"}
         /\ Disk[i].type \in Types /\ Disk[i].nlink \in Int
         /\ Disk[i].type = "dir" => \A n \in DOMAIN Disk[i].body : Disk[i].body[n] \in Inum
    /\ Disk[ROOTINO].type = "dir"

VARIABLES
    dinode,     \* inodes on the disk: type, nlink, and the content
    inode,      \* the inode cache: ref, valid, and copies of type and nlink
    lock,       \* who holds ip->lock
    file,       \* the file table
    ofile, cwd, \* of each process
    fr,         \* the system call a process executes, and its locals
    puts,       \* inodes it has yet to iput(), before it goes on
    result, buf, \* what its last system call returned, and copied out
    panic       \* the message of panic(), "" while the system runs

files == <<file, ofile, cwd>>
vars == <<dinode, inode, lock, files, fr, puts, result, buf, panic>>

FreeDinode == [type |-> "free", nlink |-> 0, body |-> <<>>]
FreeEntry == [ref |-> 0, valid |-> FALSE, type |-> "free", nlink |-> 0]
FreeFile == [ref |-> 0, ip |-> None, off |-> 0, readable |-> FALSE, writable |-> FALSE]

\* at: where in which system call; want: the inode it locks next.
Idle == [at |-> "user", want |-> None, ip |-> None, dp |-> None, name |-> "",
         path |-> <<>>, parent |-> FALSE, ret |-> "", call |-> [op |-> ""]]

\* r with the fields of `fields` instead of its own.
Updated(r, fields) == [k \in DOMAIN r |-> IF k \in DOMAIN fields THEN fields[k] ELSE r[k]]

Unused == Updated(Idle, [at |-> "unused"])

Init ==
    /\ dinode = Disk
    /\ inode = [i \in Inum |-> IF i = ROOTINO THEN Updated(FreeEntry, [ref |-> 1])
                               ELSE FreeEntry]
    /\ lock = [i \in Inum |-> NoProc]
    /\ file = [f \in File |-> FreeFile]
    /\ ofile = [p \in Proc |-> [d \in Fd |-> None]]
    /\ cwd = [p \in Proc |-> IF p = First THEN ROOTINO ELSE None]
    /\ fr = [p \in Proc |-> IF p = First THEN Idle ELSE Unused]
    /\ puts = [p \in Proc |-> <<>>]
    /\ result = [p \in Proc |-> 0]
    /\ buf = [p \in Proc |-> <<>>]
    /\ panic = ""

-----------------------------------------------------------------------------
(* The inode cache *)

\* iget(i): ind is the cache before.
Iget(ind, i) ==
    [ind EXCEPT ![i] = IF @.ref = 0 THEN Updated(FreeEntry, [ref |-> 1])
                       ELSE Updated(@, [ref |-> @.ref + 1])]

CacheFull(i) == inode[i].ref = 0 /\ Cardinality({j \in Inum : inode[j].ref > 0}) = NINODE

\* The cache once ilock(i) has read the inode.
Ilock(i) ==
    [inode EXCEPT ![i] = IF @.valid THEN @
                         ELSE Updated(@, [valid |-> TRUE, type |-> dinode[i].type,
                                          nlink |-> dinode[i].nlink])]
Type(i) == Ilock(i)[i].type
Nlink(i) == Ilock(i)[i].nlink

\* ind with `n` for the link count of i; and the disk after the iupdate(i).
WithNlink(ind, i, n) == [ind EXCEPT ![i].nlink = n]
Iupdate(dsk, ind, i) == [dsk EXCEPT ![i].type = ind[i].type, ![i].nlink = ind[i].nlink]

\* p, all its iput()s done, is at `place` and can lock the inode it wants.
At(p, place) ==
    /\ panic = "" /\ puts[p] = <<>> /\ fr[p].at = place
    /\ fr[p].want # None => lock[fr[p].want] = NoProc

\* p goes on with its locals changed by `fields`, after iput() of those in ps.
Go(p, fields, ps) ==
    /\ fr' = [fr EXCEPT ![p] = Updated(@, fields)]
    /\ puts' = [puts EXCEPT ![p] = [k \in DOMAIN ps |-> [i |-> ps[k], at |-> "lock"]]]

Return(p, r, ps) ==
    /\ Go(p, Idle, ps)
    /\ result' = [result EXCEPT ![p] = r]

Take(p, i) == lock' = [lock EXCEPT ![i] = p]
Release(i) == lock' = [lock EXCEPT ![i] = NoProc]

Panics(msg) ==
    /\ panic' = msg
    /\ UNCHANGED <<dinode, inode, lock, files, fr, puts, result, buf>>

NoType(p) ==                            \* ilock() finds a free inode
    /\ panic = "" /\ puts[p] = <<>> /\ fr[p].want # None
    /\ lock[fr[p].want] = NoProc /\ Type(fr[p].want) = "free"
    /\ Panics("ilock: no type")

Putting(p, place) == panic = "" /\ puts[p] # <<>> /\ Head(puts[p]).at = place
PutGoes(p, place) == puts' = [puts EXCEPT ![p][1].at = place]

\* Mutant: iput() frees an unlinked inode without looking at ref.
LastPut_IgnoreRef(i) == inode[i].valid /\ inode[i].nlink = 0

LastPut(i) == inode[i].valid /\ inode[i].nlink = 0 /\ inode[i].ref = 1

IputKeep(p) ==
    LET i == Head(puts[p]).i IN
    /\ Putting(p, "lock") /\ lock[i] = NoProc /\ ~LastPut(i)
    /\ PutGoes(p, "drop")
    /\ UNCHANGED <<dinode, inode, lock, files, fr, result, buf, panic>>

IputLast(p) ==
    LET i == Head(puts[p]).i IN
    /\ Putting(p, "lock") /\ lock[i] = NoProc /\ LastPut(i)
    /\ Take(p, i)
    /\ PutGoes(p, "free")
    /\ UNCHANGED <<dinode, inode, files, fr, result, buf, panic>>

\* itrunc(), type = 0, iupdate(), valid = 0.
IputFree(p) ==
    LET i == Head(puts[p]).i IN
    /\ Putting(p, "free")
    /\ dinode' = [dinode EXCEPT ![i] = FreeDinode]
    /\ inode' = [inode EXCEPT ![i].type = "free", ![i].valid = FALSE]
    /\ Release(i)
    /\ PutGoes(p, "drop")
    /\ UNCHANGED <<files, fr, result, buf, panic>>

IputDrop(p) ==
    LET i == Head(puts[p]).i IN
    /\ Putting(p, "drop")
    /\ inode' = [inode EXCEPT ![i].ref = @ - 1]
    /\ puts' = [puts EXCEPT ![p] = Tail(@)]
    /\ UNCHANGED <<dinode, lock, files, fr, result, buf, panic>>

Iput(p) == IputKeep(p) \/ IputLast(p) \/ IputFree(p) \/ IputDrop(p)

-----------------------------------------------------------------------------
(* Directories and path names *)

Entries(i) == dinode[i].body
Has(i, name) == name \in DOMAIN Entries(i)
WithEntry(dsk, d, name, i) ==
    LET body == dsk[d].body IN
    [dsk EXCEPT ![d].body = [n \in DOMAIN body \cup {name} |->
                               IF n = name THEN i ELSE body[n]]]
WithoutEntry(dsk, d, name) ==
    LET body == dsk[d].body IN
    [dsk EXCEPT ![d].body = [n \in DOMAIN body \ {name} |-> body[n]]]

\* namex() begins in call c, which holds ip: `at` is where its result is used.
Start(p, path) == IF path.absolute THEN ROOTINO ELSE cwd[p]
Namex(p, path, parent, at, ip, c) ==
    [at |-> "namex", path |-> path.elems, parent |-> parent, ret |-> at,
     dp |-> Start(p, path), want |-> IF path.elems = <<>> THEN None ELSE Start(p, path),
     ip |-> ip, call |-> c]

\* namex() returns i in dp, or 0; the caller locks it next.
Found(p, i, name, ps) ==
    Go(p, [at |-> fr[p].ret, dp |-> i, want |-> i, name |-> name], ps)

NamexEnd(p) ==
    LET f == fr[p] IN
    /\ At(p, "namex") /\ f.path = <<>>
    /\ IF f.parent THEN Found(p, None, "", <<f.dp>>) ELSE Found(p, f.dp, f.name, <<>>)
    /\ UNCHANGED <<dinode, inode, lock, files, result, buf, panic>>

NamexStop(p) ==                         \* one level early
    LET f == fr[p] IN
    /\ At(p, "namex") /\ f.parent /\ Len(f.path) = 1 /\ Type(f.dp) = "dir"
    /\ inode' = Ilock(f.dp)
    /\ Found(p, f.dp, Head(f.path), <<>>)
    /\ UNCHANGED <<dinode, lock, files, result, buf, panic>>

NamexFail(p) ==
    LET f == fr[p] IN
    /\ At(p, "namex") /\ f.path # <<>>
    /\ \/ Type(f.dp) \in {"file", "dev"}
       \/ /\ Type(f.dp) = "dir" /\ ~Has(f.dp, Head(f.path))
          /\ ~(f.parent /\ Len(f.path) = 1)
    /\ inode' = Ilock(f.dp)
    /\ Found(p, None, "", <<f.dp>>)
    /\ UNCHANGED <<dinode, lock, files, result, buf, panic>>

NamexDown(p) ==
    LET f == fr[p]
        next == Entries(f.dp)[Head(f.path)] IN
    /\ At(p, "namex") /\ f.path # <<>> /\ Type(f.dp) = "dir" /\ Has(f.dp, Head(f.path))
    /\ ~(f.parent /\ Len(f.path) = 1)
    /\ IF CacheFull(next) THEN Panics("iget: no inodes")
       ELSE /\ inode' = Iget(Ilock(f.dp), next)
            /\ Go(p, [path |-> Tail(f.path), dp |-> next, name |-> Head(f.path),
                      want |-> IF Len(f.path) = 1 THEN None ELSE next], <<f.dp>>)
            /\ UNCHANGED <<dinode, lock, files, result, buf, panic>>

NamexStep(p) == NamexEnd(p) \/ NamexStop(p) \/ NamexFail(p) \/ NamexDown(p)

-----------------------------------------------------------------------------
(* File descriptors: file.c, and fork() and exit() of proc.c *)

User(p) == At(p, "user")
FreeFds(p) == {d \in Fd : ofile[p][d] = None}

\* Mutant: filealloc() takes a file that one descriptor still uses.
FreeFiles_OneUser == {f \in File : file[f].ref <= 1}

FreeFiles == {f \in File : file[f].ref = 0}    \* for filealloc()

\* The descriptors of all processes on file f.
Descriptors(f) == {x \in Proc \X Fd : ofile[x[1]][x[2]] = f}

Answer(p, r) == result' = [result EXCEPT ![p] = r]

Dup(p, d) ==
    /\ User(p)
    /\ LET f == ofile[p][d] IN
       IF f = None \/ FreeFds(p) = {}
         THEN Answer(p, -1) /\ UNCHANGED <<file, ofile>>
         ELSE /\ ofile' = [ofile EXCEPT ![p][Min(FreeFds(p))] = f]
              /\ file' = [file EXCEPT ![f].ref = @ + 1]
              /\ Answer(p, Min(FreeFds(p)))
    /\ UNCHANGED <<dinode, inode, lock, cwd, fr, puts, buf, panic>>

\* Mutant: fileclose() puts the inode whenever a descriptor is closed.
Closes_Always(f) == TRUE

\* Mutant: fileclose() forgets the iput().
Closes_Never(f) == FALSE

Closes(f) == file[f].ref = 1            \* fileclose(): the last reference

\* fileclose() of descriptor d, after which p goes on with `fields`.
FileClose(p, d, fields) ==
    LET f == ofile[p][d] IN
    /\ ofile' = [ofile EXCEPT ![p][d] = None]
    /\ file' = [file EXCEPT ![f] = IF @.ref = 1 THEN FreeFile ELSE Updated(@, [ref |-> @.ref - 1])]
    /\ Go(p, fields, IF Closes(f) THEN <<file[f].ip>> ELSE <<>>)

Close(p, d) ==
    /\ User(p)
    /\ IF ofile[p][d] = None
         THEN Answer(p, -1) /\ UNCHANGED <<file, ofile, fr, puts>>
         ELSE FileClose(p, d, Idle) /\ Answer(p, 0)
    /\ UNCHANGED <<dinode, inode, lock, cwd, buf, panic>>

Fork(p, q) ==
    /\ User(p) /\ fr[q].at = "unused" /\ puts[q] = <<>>
    /\ ofile' = [ofile EXCEPT ![q] = ofile[p]]
    /\ file' = [f \in File |-> Updated(file[f],
                   [ref |-> file[f].ref + Cardinality({d \in Fd : ofile[p][d] = f})])]
    /\ cwd' = [cwd EXCEPT ![q] = cwd[p]]
    /\ inode' = [inode EXCEPT ![cwd[p]].ref = @ + 1]
    /\ fr' = [fr EXCEPT ![q] = Idle]
    /\ UNCHANGED <<dinode, lock, puts, result, buf, panic>>

Exit(p) ==
    /\ User(p) /\ p # First
    /\ Go(p, [at |-> "exit"], <<>>)
    /\ UNCHANGED <<dinode, inode, lock, files, result, buf, panic>>

ExitClose(p) ==                         \* one descriptor after the other
    /\ At(p, "exit") /\ FreeFds(p) # Fd
    /\ FileClose(p, Min(Fd \ FreeFds(p)), [at |-> "exit"])
    /\ UNCHANGED <<dinode, inode, lock, cwd, result, buf, panic>>

ExitCwd(p) ==
    /\ At(p, "exit") /\ FreeFds(p) = Fd
    /\ Go(p, Unused, <<cwd[p]>>)
    /\ cwd' = [cwd EXCEPT ![p] = None]
    /\ UNCHANGED <<dinode, inode, lock, file, ofile, result, buf, panic>>

\* What fileread() returns: n chunks at the offset, or as many as there are.
ReadAt(p, d, n) ==
    LET f == file[ofile[p][d]]  b == Entries(f.ip) IN
    SubSeq(b, f.off + 1, Min({f.off + n, Len(b)}))

CanRead(p, d) == ofile[p][d] # None /\ file[ofile[p][d]].readable
CanWrite(p, d) == ofile[p][d] # None /\ file[ofile[p][d]].writable

\* ilock() to iunlock() of fileread(), filewrite() or filestat() on d.
Locking(p, d) ==
    LET i == file[ofile[p][d]].ip IN
    /\ lock[i] = NoProc
    /\ inode' = Ilock(i)
    /\ UNCHANGED <<lock, ofile, cwd, fr, puts, panic>>

Copyout(p, r, data) == Answer(p, r) /\ buf' = [buf EXCEPT ![p] = data]

Read(p, d, n) ==
    /\ User(p)
    /\ \/ /\ CanRead(p, d) /\ Type(file[ofile[p][d]].ip) = "file"
          /\ Locking(p, d)
          /\ file' = [file EXCEPT ![ofile[p][d]].off = @ + Len(ReadAt(p, d, n))]
          /\ Copyout(p, Len(ReadAt(p, d, n)), ReadAt(p, d, n))
          /\ UNCHANGED dinode
       \/ /\ ~CanRead(p, d)
          /\ Answer(p, -1)
          /\ UNCHANGED <<dinode, inode, lock, files, fr, puts, buf, panic>>

\* body with `chunks` written at off (writei: off is at most the size).
Overwrite(body, off, chunks) ==
    SubSeq(body, 1, off) \o chunks \o SubSeq(body, off + Len(chunks) + 1, Len(body))

\* filewrite(): a chunk is what one turn of its loop writes.
Write(p, d, chunks) ==
    /\ User(p)
    /\ IF CanWrite(p, d)
         THEN /\ Go(p, [at |-> "write", want |-> file[ofile[p][d]].ip,
                        call |-> [op |-> "write", d |-> d, n |-> Len(chunks), left |-> chunks]],
                 <<>>)
              /\ UNCHANGED result
         ELSE Answer(p, -1) /\ UNCHANGED <<fr, puts>>
    /\ UNCHANGED <<dinode, inode, lock, files, buf, panic>>

WriteChunk(p) ==
    LET c == fr[p].call  f == ofile[p][c.d]  i == fr[p].want IN
    /\ At(p, "write") /\ c.left # <<>> /\ Type(i) = "file"
    /\ inode' = Ilock(i)
    /\ dinode' = [dinode EXCEPT ![i].body = Overwrite(@, file[f].off, <<Head(c.left)>>)]
    /\ file' = [file EXCEPT ![f].off = @ + 1]
    /\ Go(p, [call |-> Updated(c, [left |-> Tail(c.left)])], <<>>)
    /\ UNCHANGED <<lock, ofile, cwd, result, buf, panic>>

WriteEnd(p) ==
    /\ fr[p].at = "write" /\ At(p, "write") /\ fr[p].call.left = <<>>
    /\ Return(p, fr[p].call.n, <<>>)
    /\ UNCHANGED <<dinode, inode, lock, files, buf, panic>>

Fstat(p, d) ==
    /\ User(p)
    /\ \/ /\ ofile[p][d] # None
          /\ Locking(p, d)
          /\ LET i == file[ofile[p][d]].ip IN
             Copyout(p, 0, <<Type(i), Nlink(i)>>)
          /\ UNCHANGED <<dinode, file>>
       \/ /\ ofile[p][d] = None
          /\ Answer(p, -1)
          /\ UNCHANGED <<dinode, inode, lock, files, fr, puts, buf, panic>>

-----------------------------------------------------------------------------
(* sys_link(old, new) *)

\* A system call `op` that begins with the namei() of `path`.
Call(p, op, c, path, parent, at) ==
    /\ User(p)
    /\ c.op = op
    /\ IF CacheFull(Start(p, path)) THEN Panics("iget: no inodes")
       ELSE /\ inode' = Iget(inode, Start(p, path))
            /\ Go(p, Namex(p, path, parent, at, None, c), <<>>)
            /\ UNCHANGED <<dinode, lock, files, result, buf, panic>>

Link(p, c) == Call(p, "link", c, c.path, FALSE, "link_old")

\* namei() or nameiparent() has found nothing, and the call just fails.
NotFound(p) ==
    /\ fr[p].at \in {"link_old", "unlink_dir", "create_dir", "open_old", "chdir_dir",
                     "move_old"}
    /\ At(p, fr[p].at) /\ fr[p].dp = None
    /\ Return(p, -1, <<>>)
    /\ UNCHANGED <<dinode, inode, lock, files, buf, panic>>

\* What fails once its inode turns out to be of the wrong type.
WrongType(p) ==
    LET f == fr[p] IN
    /\ f.dp # None
    /\ \/ At(p, "link_old") /\ Type(f.dp) = "dir"
       \/ At(p, "open_old") /\ Type(f.dp) = "dir" /\ f.call.mode # "RDONLY"
       \/ At(p, "chdir_dir") /\ Type(f.dp) \in {"file", "dev"}
       \/ At(p, "move_old") /\ Type(f.dp) \in {"dir", "dev"}
    /\ inode' = Ilock(f.dp)
    /\ Return(p, -1, <<f.dp>>)
    /\ UNCHANGED <<dinode, lock, files, buf, panic>>

\* Mutant: sys_link() leaves nlink alone.
OneMore_Forgotten(i) == Nlink(i)

OneMore(i) == Nlink(i) + 1

\* nlink++ on the file in dp, then on to the directory of `path`.
AddLink(p, path, at) ==
    LET i == fr[p].dp
        ind == WithNlink(Ilock(i), i, OneMore(i)) IN
    IF CacheFull(Start(p, path)) THEN Panics("iget: no inodes")
    ELSE /\ inode' = Iget(ind, Start(p, path))
         /\ dinode' = Iupdate(dinode, ind, i)
         /\ Go(p, Namex(p, path, TRUE, at, i, fr[p].call), <<>>)
         /\ UNCHANGED <<lock, files, result, buf, panic>>

LinkOld(p) ==
    /\ At(p, "link_old") /\ fr[p].dp # None /\ Type(fr[p].dp) \in {"file", "dev"}
    /\ AddLink(p, fr[p].call.new, "link_dir")

LinkDir(p) ==
    LET f == fr[p] IN
    /\ At(p, "link_dir") /\ f.dp # None /\ Type(f.dp) = "dir" /\ ~Has(f.dp, f.name)
    /\ inode' = Ilock(f.dp)
    /\ dinode' = WithEntry(dinode, f.dp, f.name, f.ip)
    /\ Return(p, 0, <<f.dp, f.ip>>)
    /\ UNCHANGED <<lock, files, buf, panic>>

\* dirlink() has found the name: it puts that inode with dp locked.
LinkExists(p) ==
    LET f == fr[p]  old == Entries(f.dp)[f.name] IN
    /\ At(p, "link_dir") /\ f.dp # None /\ Type(f.dp) = "dir" /\ Has(f.dp, f.name)
    /\ IF CacheFull(old) THEN Panics("iget: no inodes")
       ELSE /\ inode' = Iget(Ilock(f.dp), old)
            /\ Take(p, f.dp)
            /\ Go(p, [at |-> "link_exists", want |-> None], <<old>>)
            /\ UNCHANGED <<dinode, files, result, buf, panic>>

Undo(p) == [at |-> "drop_link", dp |-> None, want |-> fr[p].ip]

LinkExistsUnlock(p) ==
    LET f == fr[p] IN
    /\ At(p, "link_exists")
    /\ Release(f.dp)
    /\ Go(p, Undo(p), <<f.dp>>)
    /\ UNCHANGED <<dinode, inode, files, result, buf, panic>>

\* No directory: "bad:" of sys_link(), and its like in sys_move_file().
NoDir(p) ==
    /\ fr[p].at \in {"link_dir", "move_dir", "move_dest"}
    /\ At(p, fr[p].at) /\ fr[p].dp = None
    /\ Go(p, Undo(p), <<>>)
    /\ UNCHANGED <<dinode, inode, lock, files, result, buf, panic>>

\* nlink-- on ip, and the call returns r.
DropLinkAnd(p, r) ==
    LET i == fr[p].ip
        ind == WithNlink(Ilock(i), i, Nlink(i) - 1) IN
    /\ inode' = ind
    /\ dinode' = Iupdate(dinode, ind, i)
    /\ Return(p, r, <<i>>)
    /\ UNCHANGED <<lock, files, buf, panic>>

DropLink(p) == At(p, "drop_link") /\ DropLinkAnd(p, -1)

-----------------------------------------------------------------------------
(* sys_unlink(path) *)

Unlink(p, c) == Call(p, "unlink", c, c.path, TRUE, "unlink_dir")

Dots == {".", ".."}

UnlinkBad(p) ==
    LET f == fr[p] IN
    /\ At(p, "unlink_dir") /\ f.dp # None
    /\ f.name \in Dots \/ ~Has(f.dp, f.name)
    /\ inode' = Ilock(f.dp)
    /\ Return(p, -1, <<f.dp>>)
    /\ UNCHANGED <<dinode, lock, files, buf, panic>>

\* The entry is there: next, with the directory locked, lock its inode.
UnlinkFound(p) ==
    LET f == fr[p]  i == Entries(f.dp)[f.name] IN
    /\ At(p, "unlink_dir") /\ f.dp # None /\ f.name \notin Dots /\ Has(f.dp, f.name)
    /\ IF CacheFull(i) THEN Panics("iget: no inodes")
       ELSE /\ inode' = Iget(Ilock(f.dp), i)
            /\ Take(p, f.dp)
            /\ Go(p, [at |-> "unlink_check", ip |-> i, want |-> i], <<>>)
            /\ UNCHANGED <<dinode, files, result, buf, panic>>

\* Mutant: isdirempty() looks at the first entry only.
IsDirEmpty_Always(i) == TRUE

IsDirEmpty(i) == DOMAIN Entries(i) \subseteq Dots

UnlinkPanic(p) ==
    /\ At(p, "unlink_check") /\ Type(fr[p].ip) # "free" /\ Nlink(fr[p].ip) < 1
    /\ Panics("unlink: nlink < 1")

UnlinkNotEmpty(p) ==
    LET f == fr[p] IN
    /\ At(p, "unlink_check") /\ Nlink(f.ip) >= 1
    /\ Type(f.ip) = "dir" /\ ~IsDirEmpty(f.ip)
    /\ inode' = Ilock(f.ip)
    /\ Go(p, [at |-> "unlink_bad", want |-> None, ip |-> None], <<f.ip>>)
    /\ UNCHANGED <<dinode, lock, files, result, buf, panic>>

UnlinkBadUnlock(p) ==
    /\ At(p, "unlink_bad")
    /\ Release(fr[p].dp)
    /\ Return(p, -1, <<fr[p].dp>>)
    /\ UNCHANGED <<dinode, inode, files, buf, panic>>

\* Erases the entry.  The directory is unlocked, and put, with ip locked.
UnlinkErase(p) ==
    LET f == fr[p]
        own == IF Type(f.ip) = "dir" THEN 1 ELSE 0
        ind == WithNlink(Ilock(f.ip), f.dp, Nlink(f.dp) - own) IN
    /\ At(p, "unlink_check") /\ Nlink(f.ip) >= 1
    /\ Type(f.ip) \in {"file", "dev"} \/ (Type(f.ip) = "dir" /\ IsDirEmpty(f.ip))
    /\ inode' = ind
    /\ dinode' = LET erased == WithoutEntry(dinode, f.dp, f.name) IN
                 IF own = 1 THEN Iupdate(erased, ind, f.dp) ELSE erased
    /\ lock' = [lock EXCEPT ![f.dp] = NoProc, ![f.ip] = p]
    /\ Go(p, [at |-> "unlink_inode", want |-> None, dp |-> None], <<f.dp>>)
    /\ UNCHANGED <<files, result, buf, panic>>

UnlinkInode(p) ==
    LET i == fr[p].ip
        ind == WithNlink(inode, i, inode[i].nlink - 1) IN
    /\ At(p, "unlink_inode")
    /\ inode' = ind
    /\ dinode' = Iupdate(dinode, ind, i)
    /\ Release(i)
    /\ Return(p, 0, <<i>>)
    /\ UNCHANGED <<files, buf, panic>>

-----------------------------------------------------------------------------
(* create(), and sys_open(), sys_mkdir(), sys_mknod() on top of it *)

\* "open" with O_CREATE, "mkdir" or "mknod".
Create(p, c) ==
    /\ c.op = "open" => c.create
    /\ c.op \in {"open", "mkdir", "mknod"}
    /\ Call(p, c.op, c, c.path, TRUE, "create_dir")

NewType(c) == CASE c.op = "open" -> "file" [] c.op = "mkdir" -> "dir" [] c.op = "mknod" -> "dev"

CreateExists(p) ==
    LET f == fr[p]  i == Entries(f.dp)[f.name] IN
    /\ At(p, "create_dir") /\ f.dp # None /\ Has(f.dp, f.name)
    /\ IF CacheFull(i) THEN Panics("iget: no inodes")
       ELSE /\ inode' = Iget(Ilock(f.dp), i)
            /\ Go(p, [at |-> "create_old", ip |-> i, want |-> i, dp |-> None], <<f.dp>>)
            /\ UNCHANGED <<dinode, lock, files, result, buf, panic>>

\* Only a file may be created again.
CreateOld(p) ==
    LET f == fr[p] IN
    /\ At(p, "create_old") /\ Type(f.ip) # "free"
    /\ inode' = Ilock(f.ip)
    /\ IF NewType(f.call) = "file" /\ Type(f.ip) = "file"
         THEN /\ Take(p, f.ip)
              /\ Go(p, [at |-> "open_file", want |-> None], <<>>)
              /\ UNCHANGED result
         ELSE Return(p, -1, <<f.ip>>) /\ UNCHANGED lock
    /\ UNCHANGED <<dinode, files, buf, panic>>

FreeInums == {i \in Inum : dinode[i].type = "free"}

\* ialloc() and its iget(), with the directory locked.
CreateAlloc(p) ==
    LET f == fr[p]  i == Min(FreeInums) IN
    /\ At(p, "create_dir") /\ f.dp # None /\ ~Has(f.dp, f.name)
    /\ IF FreeInums = {} THEN Panics("ialloc: no inodes")
       ELSE IF CacheFull(i) THEN Panics("iget: no inodes")
       ELSE /\ dinode' = [dinode EXCEPT ![i] = Updated(FreeDinode, [type |-> NewType(f.call)])]
            /\ inode' = Iget(Ilock(f.dp), i)
            /\ Take(p, f.dp)
            /\ Go(p, [at |-> "create_new", ip |-> i, want |-> i], <<>>)
            /\ UNCHANGED <<files, result, buf, panic>>

\* Mutant: create() forgets the link of "..".
DotDotLinks_Forgotten(c) == 0

DotDotLinks(c) == IF c.op = "mkdir" THEN 1 ELSE 0

\* The rest of create(): the directory is unlocked, and put, with ip locked.
CreateNew(p) ==
    LET f == fr[p]
        linked == WithNlink(Ilock(f.ip), f.ip, 1)
        ind == WithNlink(linked, f.dp, Nlink(f.dp) + DotDotLinks(f.call))
        dots == IF f.call.op = "mkdir" THEN [n \in Dots |-> IF n = "." THEN f.ip ELSE f.dp]
                ELSE <<>> IN
    /\ At(p, "create_new") /\ Type(f.ip) # "free"
    /\ inode' = ind
    /\ dinode' = LET new == [Iupdate(dinode, ind, f.ip) EXCEPT ![f.ip].body = dots]
                     upd == IF f.call.op = "mkdir" THEN Iupdate(new, ind, f.dp) ELSE new IN
                 WithEntry(upd, f.dp, f.name, f.ip)
    /\ lock' = [lock EXCEPT ![f.dp] = NoProc, ![f.ip] = p]
    /\ Go(p, [at |-> IF f.call.op = "open" THEN "open_file" ELSE "made",
              want |-> None, dp |-> None], <<f.dp>>)
    /\ UNCHANGED <<files, result, buf, panic>>

Made(p) ==                              \* the end of sys_mkdir() and sys_mknod()
    /\ At(p, "made")
    /\ Release(fr[p].ip)
    /\ Return(p, 0, <<fr[p].ip>>)
    /\ UNCHANGED <<dinode, inode, files, buf, panic>>

Open(p, c) ==
    /\ c.op = "open" /\ ~c.create
    /\ Call(p, "open", c, c.path, FALSE, "open_old")

OpenOld(p) ==
    LET f == fr[p] IN
    /\ At(p, "open_old") /\ f.dp # None
    /\ Type(f.dp) \in {"file", "dev"} \/ (Type(f.dp) = "dir" /\ f.call.mode = "RDONLY")
    /\ inode' = Ilock(f.dp)
    /\ Take(p, f.dp)
    /\ Go(p, [at |-> "open_file", ip |-> f.dp, dp |-> None, want |-> None], <<>>)
    /\ UNCHANGED <<dinode, files, result, buf, panic>>

\* filealloc() and fdalloc(), with the inode locked.
OpenFile(p) ==
    LET f == fr[p] IN
    /\ At(p, "open_file")
    /\ Release(f.ip)
    /\ IF FreeFiles = {} \/ FreeFds(p) = {}
         THEN Return(p, -1, <<f.ip>>) /\ UNCHANGED <<file, ofile>>
         ELSE /\ file' = [file EXCEPT ![Min(FreeFiles)] =
                   [ref |-> 1, ip |-> f.ip, off |-> 0,
                    readable |-> f.call.mode # "WRONLY",
                    writable |-> f.call.mode # "RDONLY"]]
              /\ ofile' = [ofile EXCEPT ![p][Min(FreeFds(p))] = Min(FreeFiles)]
              /\ Return(p, Min(FreeFds(p)), <<>>)
    /\ UNCHANGED <<dinode, inode, cwd, buf, panic>>

Chdir(p, c) == Call(p, "chdir", c, c.path, FALSE, "chdir_dir")

ChdirDir(p) ==
    LET f == fr[p] IN
    /\ At(p, "chdir_dir") /\ f.dp # None /\ Type(f.dp) = "dir"
    /\ inode' = Ilock(f.dp)
    /\ cwd' = [cwd EXCEPT ![p] = f.dp]
    /\ Return(p, 0, <<cwd[p]>>)
    /\ UNCHANGED <<dinode, lock, file, ofile, buf, panic>>

-----------------------------------------------------------------------------
(* sys_move_file(path, new) *)

MoveFile(p, c) == Call(p, "move", c, c.path, FALSE, "move_old")

MoveOld(p) ==
    /\ At(p, "move_old") /\ fr[p].dp # None /\ Type(fr[p].dp) = "file"
    /\ AddLink(p, fr[p].call.path, "move_dir")

MoveNoEntry(p) ==
    LET f == fr[p] IN
    /\ At(p, "move_dir") /\ f.dp # None /\ ~Has(f.dp, f.name)
    /\ inode' = Ilock(f.dp)
    /\ Go(p, Undo(p), <<f.dp>>)
    /\ UNCHANGED <<dinode, lock, files, result, buf, panic>>

\* Erases the entry.  Neither the directory nor what dirlookup() has returned
\* is ever put, and the nlink-- of the directory stays in memory.
MoveErase(p) ==
    LET f == fr[p]  i == Entries(f.dp)[f.name]
        ind == Iget(Ilock(f.dp), i) IN
    /\ At(p, "move_dir") /\ f.dp # None /\ Has(f.dp, f.name)
    /\ IF CacheFull(i) \/ CacheFull(Start(p, f.call.new)) THEN Panics("iget: no inodes")
       ELSE /\ inode' = Iget(WithNlink(ind, f.dp, Nlink(f.dp) - 1), Start(p, f.call.new))
            /\ dinode' = WithoutEntry(dinode, f.dp, f.name)
            /\ Go(p, Namex(p, f.call.new, FALSE, "move_dest", f.ip,
                           [op |-> "move", name |-> f.name]), <<>>)
            /\ UNCHANGED <<lock, files, result, buf, panic>>

\* The destination is no directory, or has the name: the entry stays erased.
MoveBadDest(p) ==
    LET f == fr[p]  taken == Type(f.dp) = "dir" /\ Has(f.dp, f.call.name) IN
    /\ At(p, "move_dest") /\ f.dp # None
    /\ Type(f.dp) \in {"file", "dev"} \/ taken
    /\ inode' = IF taken THEN Iget(Ilock(f.dp), Entries(f.dp)[f.call.name]) ELSE Ilock(f.dp)
    /\ Go(p, Undo(p), <<f.dp>>)
    /\ UNCHANGED <<dinode, lock, files, result, buf, panic>>

MoveDest(p) ==
    LET f == fr[p] IN
    /\ At(p, "move_dest") /\ f.dp # None
    /\ Type(f.dp) = "dir" /\ ~Has(f.dp, f.call.name)
    /\ inode' = Ilock(f.dp)
    /\ dinode' = WithEntry(dinode, f.dp, f.call.name, f.ip)
    /\ Go(p, [at |-> "moved", want |-> f.ip, dp |-> None], <<f.dp>>)
    /\ UNCHANGED <<lock, files, result, buf, panic>>

Moved(p) == At(p, "moved") /\ DropLinkAnd(p, 0)

-----------------------------------------------------------------------------
\* A process inside a system call, or in exit().
KernelStep(p) ==
    \/ Iput(p) \/ NamexStep(p) \/ NoType(p) \/ NotFound(p) \/ WrongType(p) \/ NoDir(p)
    \/ LinkOld(p) \/ LinkDir(p) \/ LinkExists(p) \/ LinkExistsUnlock(p) \/ DropLink(p)
    \/ UnlinkBad(p) \/ UnlinkFound(p) \/ UnlinkPanic(p) \/ UnlinkNotEmpty(p)
    \/ UnlinkBadUnlock(p) \/ UnlinkErase(p) \/ UnlinkInode(p)
    \/ CreateExists(p) \/ CreateOld(p) \/ CreateAlloc(p) \/ CreateNew(p) \/ Made(p)
    \/ OpenOld(p) \/ OpenFile(p) \/ ChdirDir(p) \/ ExitClose(p) \/ ExitCwd(p)
    \/ MoveOld(p) \/ MoveNoEntry(p) \/ MoveErase(p) \/ MoveBadDest(p) \/ MoveDest(p)
    \/ Moved(p) \/ WriteChunk(p) \/ WriteEnd(p)

\* The paths a program can pass, and the calls that take them.
IsPath(path) == path.elems \in Seq(STRING)
IsCall(c) ==
    /\ IsPath(c.path)
    /\ c.op \in {"link", "move"} => IsPath(c.new)

\* A system call that takes path names.
PathCall(p, c) ==
    \/ Link(p, c) \/ Unlink(p, c) \/ Create(p, c) \/ Open(p, c) \/ Chdir(p, c)
    \/ MoveFile(p, c)

-----------------------------------------------------------------------------
(* Properties *)

Messages == {"", "ilock: no type", "iget: no inodes", "ialloc: no inodes", "unlink: nlink < 1"}

\* Every variable keeps its type; nobody holds a lock outside system calls.
TypeOK ==
    /\ \A i \in Inum :
         /\ dinode[i].type \in Types /\ dinode[i].nlink \in Int
         /\ inode[i].ref \in Nat /\ inode[i].valid \in BOOLEAN
         /\ lock[i] # NoProc => fr[lock[i]].at # "user" \/ puts[lock[i]] # <<>>
    /\ \A f \in File : file[f].ref \in Nat /\ file[f].ip \in Inum \cup {None}
    /\ ofile \in [Proc -> [Fd -> File \cup {None}]]
    /\ \A p \in Proc : cwd[p] \in Inum \cup {None}
    /\ panic \in Messages

\* A file's ref counts its descriptors, and a free entry is nobody's.
FileRefs == \A f \in File : file[f].ref = Cardinality(Descriptors(f))

Uses(ptr, i) == Cardinality({k \in DOMAIN ptr : ptr[k] = i})

\* The k-th inode p has yet to iput(); there are at most two.
Put(p, k) == IF k <= Len(puts[p]) THEN puts[p][k].i ELSE None

\* References to inode i: by the locals, the pending iput()s and the current
\* directories of processes, and by files.
References(i) ==
    Uses([p \in Proc |-> fr[p].ip], i) + Uses([p \in Proc |-> fr[p].dp], i)
      + Uses([p \in Proc |-> Put(p, 1)], i) + Uses([p \in Proc |-> Put(p, 2)], i)
      + Uses(cwd, i) + Uses([f \in File |-> file[f].ip], i)

\* ref counts the pointers to an inode, wherever they are: nothing is freed
\* under a user, and nothing stays in the cache for ever.
InodeRefs == \A i \in Inum : inode[i].ref = References(i)

\* The entries that name inode i.
Names(i) == UNION {{<<d, n>> : n \in {x \in DOMAIN Entries(d) \ Dots : Entries(d)[x] = i}} :
                     d \in {j \in Inum : dinode[j].type = "dir"}}

\* Whatever the other processes do, an inode with a name is allocated, and its
\* link count covers its names: removing one name never takes a file away from
\* another.
NamesAreCovered == \A i \in Inum : Cardinality(Names(i)) <= dinode[i].nlink

\* The inode of an open file or of a current directory stays allocated, be it
\* unlinked meanwhile.
InUseIsAllocated ==
    /\ \A f \in File : file[f].ref > 0 => dinode[file[f].ip].type # "free"
    /\ \A p \in Proc : cwd[p] # None => dinode[cwd[p]].type = "dir"

\* None of the panics is reached.
NoPanic == panic = ""

Quiet == \A p \in Proc : fr[p].at \in {"user", "unused"} /\ puts[p] = <<>>

\* Between calls, a directory has one link for its name and one for each of its
\* subdirectories.
DirLinks ==
    Quiet /\ panic = "" =>
    \A d \in Inum :
        dinode[d].type = "dir" /\ (d = ROOTINO \/ Names(d) # {}) =>
          dinode[d].nlink = 1 + Cardinality({n \in DOMAIN Entries(d) \ Dots :
                                               dinode[Entries(d)[n]].type = "dir"})

\* Between calls, an inode without links and without users is free: "If that
\* was the last reference and the inode has no links to it, free the inode
\* (and its content) on disk" (fs.c:327-328).
UnlinkedIsFreed ==
    Quiet => \A i \in Inum : dinode[i].type # "free" =>
                dinode[i].nlink > 0 \/ inode[i].ref > 0

\* The inode p waits for.
WaitsFor(p) ==
    IF puts[p] # <<>> THEN (IF Head(puts[p]).at = "lock" THEN Head(puts[p]).i ELSE None)
    ELSE fr[p].want
Blocks(q, p) == WaitsFor(p) # None /\ lock[WaitsFor(p)] = q

\* No process waits for an inode lock of its own, or of one that waits for it.
NoWaitCycle == \A p, q \in Proc : ~(Blocks(p, q) /\ Blocks(q, p))
=============================================================================
